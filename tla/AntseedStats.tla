----------------------------- MODULE AntseedStats ----------------------------
(***************************************************************************)
(* stats/AntseedStats.sol: usage totals built from the cumulative metadata *)
(* of settled channels.  Metadata is (input tokens, output tokens,         *)
(* requests), three counters that recordMetadata treats alike; the model   *)
(* keeps two of them, so that one can grow while the other shrinks.        *)
(* lastUpdatedAt is left out (no code reads it).                           *)
(***************************************************************************)
EXTENDS AntseedRegistry

CONSTANT
  Metadata  \* the metadata values considered

Counter == {"tokens", "requests"}

ZeroMetadata == [f \in Counter |-> 0]

ASSUME StatsAssumption == Metadata \subseteq [Counter -> Nat]

VARIABLES
  snapshot,   \* _channelSnapshots
  usage       \* _buyerMetadataStats

statsVars == <<snapshot, usage>>

StatsTypeOK ==
  /\ snapshot \in [Channels -> [Counter -> Nat]]
  /\ usage \in [Agents \X Buyers -> [Counter -> Nat]]

StatsInit ==
  /\ snapshot = [c \in Channels |-> ZeroMetadata]
  /\ usage = [k \in Agents \X Buyers |-> ZeroMetadata]

(***************************************************************************)
(* recordMetadata: metadata that goes back in any counter is skipped       *)
(* without an error; otherwise the growth since the channel's snapshot is  *)
(* added to the totals of the agent and the buyer.                         *)
(***************************************************************************)
metadataGrows(c, m) == \A f \in Counter : m[f] >= snapshot[c][f]

(* Mutant: the cumulative metadata itself is added to the totals. *)
metadataDelta_Cumulative(c, m) == m

metadataDelta(c, m) == [f \in Counter |-> m[f] - snapshot[c][f]]

recordMetadata(k, c, m) ==
  IF metadataGrows(c, m)
  THEN /\ snapshot' = [snapshot EXCEPT ![c] = m]
       /\ usage' = [usage EXCEPT ![k] =
                      [f \in Counter |-> @[f] + metadataDelta(c, m)[f]]]
  ELSE UNCHANGED statsVars
=============================================================================
