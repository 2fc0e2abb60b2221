---------------------------- MODULE MCGlobalMode ----------------------------
(* Two profiles that share nodes. In the first, n2 is in two groups, a     *)
(* fallback group and a load balancer, and what is saved at first are the  *)
(* choices that an earlier version of the profile has left; the other has  *)
(* a url-test group and a selector, and nothing saved.                     *)
EXTENDS GlobalMode

CONSTANTS p1, p2, n1, n2, lost, any, first, fast, all, u1, u2

MCConfig == [p \in Profile \cup {NoProfile} |->
    CASE p = p1 -> << [name |-> first, proxies |-> <<n1, n2>>],
                      [name |-> all, proxies |-> <<n2>>] >>
      [] p = p2 -> << [name |-> fast, proxies |-> <<n2, n1>>],
                      [name |-> any, proxies |-> <<n1, n2>>] >>
      [] OTHER  -> <<>>]

MCFirstSaved ==
    {[mode |-> "", picks |-> [p \in Profile |->
        IF p = p1 THEN [NoPicks EXCEPT !["GLOBAL"] = lost, ![first] = n2] ELSE NoPicks]]}
=============================================================================
