----------------------------- MODULE MCUpdateRate -----------------------------
(***************************************************************************)
(* How often the update check asks: UpdateCheck with a history of when the *)
(* last automatic request was made and how long after the one before it.   *)
(***************************************************************************)
EXTENDS UpdateCheck

MCVersions == {[core |-> <<1, 0, 0>>, pre |-> <<>>], [core |-> <<1, 2, 0>>, pre |-> <<>>]}

VARIABLES asked, gap
vars == <<updateVars, asked, gap>>

Init == UpdateInit /\ asked = Nothing /\ gap = Nothing

AskByItself(p) ==
  /\ Ask(p, FALSE)
  /\ asked' = now
  /\ gap' = IF asked = Nothing THEN Nothing ELSE now - asked

Other ==
  /\ \/ \E p \in Checkers :
          \/ UseCache(p) \/ Refuses(p)
          \/ FeedAnswers(p) \/ Stamp(p) \/ FeedFails(p)
          \/ WriteCache(p) \/ WriteFails(p) \/ Upgrade(p) \/ Forget(p)
     \/ \E v \in names : Release(v)
     \/ Tick \/ SetBack
  /\ UNCHANGED <<asked, gap>>

Next == Other \/ \E p \in Checkers : AskByItself(p)

Spec == Init /\ [][Next]_vars

\* README.md:128: "Interactive, non-secret CLI commands also check the official
\* GitHub releases feed at most once every 24 hours."
AskedOncePerLifetime == gap = Nothing \/ gap >= Lifetime
=============================================================================
