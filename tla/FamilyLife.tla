----------------------------- MODULE FamilyLife -----------------------------
(***************************************************************************)
(* What the calls about families promise, as if each were carried out in   *)
(* one moment: a user comes to a family only from none, and only where     *)
(* there is room, goes back to none and never straight to another family,  *)
(* and who founded a family stays its owner as long as it lasts.  Further  *)
(* owners, and coming to a family that was dissolved, are allowed here,    *)
(* because the code does not exclude them.                                 *)
(***************************************************************************)
EXTENDS Naturals, FiniteSets

CONSTANTS Users, Families, MaxMembers, None

VARIABLES
  life,     \* of each family: "none", "normal" or "dissolved"
  founder,  \* of each family: who founded it
  settled   \* who is where as what

vars == <<life, founder, settled>>

As(f, u, r) == [family |-> f, user |-> u, role |-> r]
At(f)       == {m \in settled : m.family = f}
Alone(u)    == \A m \in settled : m.user # u

Founds(m)   == life[m.family] = "normal" /\ founder[m.family] = m.user

Init ==
  /\ life = [f \in Families |-> "none"]
  /\ founder = [f \in Families |-> None]
  /\ settled = {}

Found(u, f) ==
  /\ life[f] = "none" /\ Alone(u)
  /\ life' = [life EXCEPT ![f] = "normal"]
  /\ founder' = [founder EXCEPT ![f] = u]
  /\ settled' = settled \cup {As(f, u, "owner")}

Join(u, f) ==
  /\ life[f] # "none" /\ Alone(u) /\ Cardinality(At(f)) < MaxMembers
  /\ settled' = settled \cup {As(f, u, "member")}
  /\ UNCHANGED <<life, founder>>

\* By leaving or by being removed.
Go(m) ==
  /\ ~Founds(m)
  /\ settled' = settled \ {m}
  /\ UNCHANGED <<life, founder>>

Promote(m, r) ==
  /\ ~Founds(m)
  /\ settled' = (settled \ {m}) \cup {As(m.family, m.user, r)}
  /\ UNCHANGED <<life, founder>>

\* Everybody goes in the same moment.
Dissolve(f) ==
  /\ life[f] # "none"
  /\ life' = [life EXCEPT ![f] = "dissolved"]
  /\ settled' = settled \ At(f)
  /\ UNCHANGED founder

Next ==
  \/ \E u \in Users, f \in Families : Found(u, f) \/ Join(u, f)
  \/ \E m \in settled : Go(m) \/ \E r \in {"owner", "admin", "member", "other"} : Promote(m, r)
  \/ \E f \in Families : Dissolve(f)

Spec == Init /\ [][Next]_vars
=============================================================================
