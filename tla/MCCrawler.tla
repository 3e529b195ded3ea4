---------------------------- MODULE MCCrawler ----------------------------
(***************************************************************************)
(* A small web for Crawler: home and old on the host main, about on its    *)
(* subdomain sub, away on another domain.  old redirects to away, which    *)
(* links back to about and to itself; ring redirects to itself; hidden is  *)
(* disallowed.                                                             *)
(***************************************************************************)
EXTENDS Crawler, TLC

CONSTANTS c1, c2, home, about, old, away, ring, hidden, main, sub, other

Place == [u \in Url |-> IF u = about THEN sub
                        ELSE IF u = away THEN other ELSE main]
Owner == [h \in Host |-> IF h = other THEN other ELSE main]
Anchors == [u \in Url |->
  CASE u = home -> <<old, home, ring, old>>
    [] u = about -> <<home, hidden>>
    [] u = away -> <<away, about>>
    [] OTHER -> <<>>]
Moved == [u \in Url |-> IF u = old THEN away
                        ELSE IF u = ring THEN ring ELSE None]
Open == Url \ {hidden}
=============================================================================
