----------------------------- MODULE TssRounds -----------------------------
(***************************************************************************)
(* The rounds of a threshold session as its document holds them            *)
(* (model/tsskeygen.ts, model/tsssign.ts, storage.ts): for each round the  *)
(* parties whose message is in it.  Round r is at position r + 1.  The     *)
(* order in which messages came is read in the first round only, and only  *)
(* for keys: all others are kept sorted.                                   *)
(***************************************************************************)
EXTENDS Naturals, Sequences, SequencesExt, FiniteSets

\* getCurrentRound: the last round, or the one after it once it is complete.
CurrentRound(rounds, size) ==
  IF Len(rounds[Len(rounds)]) = size THEN Len(rounds) ELSE Len(rounds) - 1

Senders(rounds, r) == IF r < Len(rounds) THEN ToSet(rounds[r + 1]) ELSE {}

\* The messages of a round that are not the party's own.
FromOthers(rounds, r, p) ==
  IF r < Len(rounds)
  THEN Cardinality({i \in DOMAIN rounds[r + 1] : rounds[r + 1][i] # p}) ELSE 0

\* A party added to a sorted sequence of parties.
Sorted(s, p) ==
  LET smaller == Cardinality({i \in DOMAIN s : s[i] < p})
  IN SubSeq(s, 1, smaller) \o <<p>> \o SubSeq(s, smaller + 1, Len(s))

\* $push to rounds.r; the order of the messages is kept in the first round of
\* a session that reads it.
Pushed(rounds, r, p, ordered) ==
  IF r = Len(rounds) THEN Append(rounds, <<p>>)
  ELSE [rounds EXCEPT ![r + 1] = IF ordered /\ r = 0 THEN Append(@, p) ELSE Sorted(@, p)]

\* Fault: a message of a party that has sent one is not refused.
AcceptsAny(rounds, r, p, size) == r = CurrentRound(rounds, size)

\* _pushMessage: only the current round, and one message of each party.
Accepts(rounds, r, p, size) ==
  /\ r = CurrentRound(rounds, size)
  /\ p \notin Senders(rounds, r)
=============================================================================
