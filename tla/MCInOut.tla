---------------------------- MODULE MCInOut ----------------------------
(***************************************************************************)
(* How data and saved state come into a job and leave it: the prefetching   *)
(* iterator, the position of a reader, the files of the sparse parameters,  *)
(* the bank of models to load from.  They share no state, so a behaviour is *)
(* one of them and the others stay as they start.                           *)
(***************************************************************************)
EXTENDS Prefetch, IoState, SaveBundle, ModelBank

VARIABLE part
jobVars == <<part, vars, ioVars, bundleVars, bankVars>>

\* A shard with fewer blocks than writers and one with as many.
MCBlockNum == [s \in Shards |-> s + 1]

Star == [wild |-> TRUE, names |-> ModelNames]
TableStar(t) == [wild |-> TRUE, names |-> {n \in ModelNames : StartsWith(n[1], t)}]
DenseStar == [wild |-> TRUE, names |-> ParamNames]
Just(n) == [wild |-> FALSE, names |-> {n}]
Position == Just(<<"io_state", "">>)

\* A rule of oname: model names to names in the checkpoint.
Renames(t, u) == [wild |-> TRUE, map |-> [n \in {<<t, s>> : s \in Slots \cup {"id"}} |-> <<u, n[2]>>],
                  dst |-> {<<u, s>> : s \in Slots \cup {"id", "step"}} \ {<<u, "step">>}]
RenamesParam(p, q) == [wild |-> FALSE, map |-> [n \in {<<p, "param">>} |-> <<q, "param">>], dst |-> {<<q, "param">>}]

Entry(path, load) == [path |-> path, load |-> load, exclude |-> {}, dynamic |-> FALSE, clear |-> TRUE,
                      ignore |-> FALSE, skip |-> FALSE, oname |-> <<>>]

MCStartsWith(t, u) == t = u

\* Tables t1 and t2 are one coalesced table.
MCRuntime(t) == "ht"
MCCoalesced(t) == "ht"

TableNames(t) == {<<t, s>> : s \in {"id", "emb", "avg"}}
Common == {<<"recis.dense.optim", "">>, <<"global_step", "">>, <<"io_state", "">>, <<"beta", "">>}

\* A: complete; B: an older checkpoint with legacy names; C: another model;
\* out: this job, before table t2 was added.
MCHolds(path) ==
  CASE path = "A" -> TableNames("t1") \cup TableNames("t2") \cup Common \cup
                     {<<"d1", "param">>, <<"d2", "param">>, <<"t1", "step">>, <<"t2", "step">>}
    [] path = "B" -> TableNames("t1") \cup Common \cup {<<"d1", "param">>, <<"ht", "legacy">>}
    [] path = "C" -> TableNames("u1") \cup Common \cup {<<"x1", "param">>, <<"d2", "param">>}
    [] path = "out" -> TableNames("t1") \cup Common \cup {<<"d1", "param">>, <<"d2", "param">>, <<"t1", "step">>}
    [] path = "D" -> {<<"t1", "step">>, <<"t2", "step">>}
    [] OTHER -> {}

MCIdsOf(path) == IF path = "A" THEN {1, 2} ELSE IF path = "B" THEN {2} ELSE {1, 3}

MCBanks == {
  \* one entry, with and without the position of the input
  <<Entry("A", {Star})>>,
  <<[Entry("A", {Star}) EXCEPT !.exclude = {Position}], Entry("B", {TableStar("t1")})>>,
  \* a renamed table and a renamed parameter, the rest from elsewhere
  <<Entry("A", {Star}),
    [Entry("C", {TableStar("t1"), DenseStar}) EXCEPT !.oname = <<Renames("t1", "u1"), RenamesParam("d1", "x1")>>]>>,
  \* the last wins; a dynamic entry; an incremental load
  <<Entry("B", {Star}), [Entry("A", {TableStar("t2")}) EXCEPT !.dynamic = TRUE, !.clear = FALSE]>>,
  <<[Entry("A", {TableStar("t1")}) EXCEPT !.dynamic = TRUE], [Entry("C", {DenseStar}) EXCEPT !.ignore = TRUE]>>,
  \* refused: a name that is not there, a rule that leads nowhere, slots
  \* without ids, steps that differ
  <<Entry("B", {Just(<<"d2", "param">>)})>>,
  <<[Entry("A", {DenseStar}) EXCEPT !.oname = <<RenamesParam("d1", "zz")>>]>>,
  <<Entry("A", {Just(<<"t2", "emb">>)})>>,
  <<Entry("D", {Star})>>,
  <<[Entry("A", {Star}) EXCEPT !.skip = TRUE], Entry("B", {Star})>>,
  \* a skipped entry is checked too
  <<[Entry("A", {Just(<<"zz", "param">>)}) EXCEPT !.skip = TRUE], Entry("B", {Star})>>,
  \* one of two coalesced tables starts with new embeddings
  <<[Entry("A", {Star}) EXCEPT !.exclude = {Just(<<"t2", "emb">>)}]>>,
  <<>> }

\* The banks are in the scope of the theorems.
ASSUME BanksInScope == RenamesLeadOut /\ RulesMoveTables /\ NamesApart

-----------------------------------------------------------------------------
JobInit ==
  /\ part \in {"prefetch", "position", "files", "bank"}
  /\ Init /\ IoInit /\ BundleInit
  /\ BankInit /\ (part # "bank" => bank = <<>>)

JobNext ==
  /\ \/ part = "prefetch" /\ Next /\ UNCHANGED <<ioVars, bundleVars, bankVars>>
     \/ part = "position" /\ IoNext /\ UNCHANGED <<vars, bundleVars, bankVars>>
     \/ part = "files" /\ BundleNext /\ UNCHANGED <<vars, ioVars, bankVars>>
     \/ part = "bank" /\ BankNext /\ UNCHANGED <<vars, ioVars, bundleVars>>
  /\ UNCHANGED part

\* The fairness of the prefetching threads and of the ranks that save.
JobSpec ==
  /\ JobInit /\ [][JobNext]_jobVars
  /\ WF_jobVars(part = "prefetch" /\ Worker /\ UNCHANGED <<part, ioVars, bundleVars, bankVars>>)
  /\ WF_jobVars(part = "prefetch" /\ Consumer /\ UNCHANGED <<part, ioVars, bundleVars, bankVars>>)
  /\ \A s \in Shards : WF_jobVars(part = "files" /\ RankStep(s) /\ UNCHANGED <<part, vars, ioVars, bankVars>>)
  /\ WF_jobVars(part = "files" /\ FinishMerge /\ UNCHANGED <<part, vars, ioVars, bankVars>>)
  /\ WF_jobVars(part = "files" /\ Sync /\ UNCHANGED <<part, vars, ioVars, bankVars>>)
=============================================================================
