---------------------------- MODULE AccountLedger ----------------------------
(***************************************************************************)
(* What registration promises, without calls, clocks or rows: a challenge  *)
(* opened for an identity and an e-mail address yields one account of that *)
(* identity and address or none, and no two accounts share either.         *)
(***************************************************************************)
CONSTANTS Nid, Email, Challenge

VARIABLES
  opened,  \* challenges that were issued, with what they were issued for
  accounts \* registered accounts, with the challenge each one spent

ledger == <<opened, accounts>>

LedgerInit == opened = {} /\ accounts = {}

Open(c, n, e) ==
  /\ \A o \in opened : o.challenge # c
  /\ opened' = opened \cup {[challenge |-> c, nid |-> n, email |-> e]}
  /\ UNCHANGED accounts

Spend(o) ==
  /\ o \in opened
  /\ \A a \in accounts : a.challenge # o.challenge /\ a.nid # o.nid /\ a.email # o.email
  /\ accounts' = accounts \cup {o}
  /\ UNCHANGED opened

LedgerNext ==
  \/ \E c \in Challenge, n \in Nid, e \in Email : Open(c, n, e)
  \/ \E o \in opened : Spend(o)

LedgerSpec == LedgerInit /\ [][LedgerNext]_ledger
=============================================================================
