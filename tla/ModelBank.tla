----------------------------- MODULE ModelBank -----------------------------
(***************************************************************************)
(* Where the variables of a model are loaded from:                         *)
(* recis/framework/model_bank.py resolves a list of entries into a source  *)
(* for each name, checkpoint_manager.py loads path by path, and            *)
(* optim/named_optimizer.py gives the dense optimizer its state by name.   *)
(*                                                                         *)
(* A name is a pair: <<table, slot>> for sparse state, <<p, "param">> for  *)
(* dense parameters, <<table, "step">> for the step a filter counts, and   *)
(* <<x, "">> for the rest.  A pattern is the set of names it matches and   *)
(* whether it has a star.  The content of a checkpoint is written          *)
(* <<path, name, version>>.                                                *)
(***************************************************************************)
EXTENDS Integers, Sequences, SequencesExt, FiniteSets

CONSTANTS
  Tables, Slots,    \* tables of the model and slots of a row
  Params,           \* dense parameters
  Tensors,          \* plain tensors of the sparse optimizer (its step counters)
  Coalesced(_),     \* the table that really holds the rows of a table
  Runtime(_),       \* the one that holds its filter step, or ""
  StartsWith(_, _), \* whether the first table's name starts with the second's
  Banks,            \* configurations: sequences of entries
  OutputDir,        \* the job's own directory
  Holds(_),         \* names in the checkpoints under a path, legacy names too
  IdsOf(_),         \* ids in the tables of a checkpoint
  Uneven,           \* paths in which the filter steps of tables differ
  MaxVersion, MaxUpdates

\* A slot is not called like the other parts of a name, a path not like what was
\* there before any load; a configuration and its rules are lists.
ASSUME BankAssumption ==
  /\ IsFiniteSet(Tables) /\ IsFiniteSet(Params)
  /\ Slots \cap {"", "param", "step"} = {}
  /\ OutputDir # "initial" /\ MaxVersion \in Nat \ {0}
  /\ \A t \in Tables : Runtime(t) \in {"", Coalesced(t)}
  /\ \A conf \in Banks :
       /\ conf \in Seq(Range(conf))
       /\ \A i \in DOMAIN conf : conf[i].path # "initial" /\ conf[i].oname \in Seq(Range(conf[i].oname))

VARIABLES
  bank,       \* the entries, the one for the output directory appended
  version,    \* path -> newest version under it
  phase,      \* "parse", "load", "ready", "train", "update", "failed"
  todo,       \* resolved variables still to be loaded: sequence of <<path, conf>>
  dynamic,    \* what update_load() will load
  rows,       \* table -> id -> slot -> content
  dense,      \* parameters and filter steps -> content
  optim,      \* parameter -> content of its optimizer state
  extra,      \* other names -> content
  updates

bankVars == <<bank, version, phase, todo, dynamic, rows, dense, optim, extra, updates>>

Optim == <<"recis.dense.optim", "">>
ParamNames == {<<p, "param">> : p \in Params}
StepNames == {<<t, "step">> : t \in {t \in Tables : Runtime(t) # ""}}
SparseNames == (Tables \X (Slots \cup {"id"})) \cup (Tensors \X {""})
DenseNames == ParamNames \cup StepNames
ExtraNames == {Optim, <<"global_step", "">>, <<"io_state", "">>}
ModelNames == SparseNames \cup DenseNames \cup ExtraNames

Initial == <<"initial", <<"", "">>, 0>>
Trained == <<"trained", <<"", "">>, 0>>
Unset == <<"uninitialized", <<"", "">>, 0>>

\* The filter steps of tables in one coalesced table are one state of the
\* model; older checkpoints have it under the coalesced table's name.
Shares(n) == IF n \in StepNames THEN {m \in StepNames : Runtime(m[1]) = Runtime(n[1])} ELSE {n}
Legacy(n) == <<Runtime(n[1]), "legacy">>
HasAlias(path, n) == n \in StepNames /\ Legacy(n) \in Holds(path)

Content(path, n) ==
  <<path, IF n[2] \in {"step", "legacy"} /\ path \notin Uneven THEN <<"", "step">> ELSE n, version[path]>>

-----------------------------------------------------------------------------
(* ModelBankParser: from entries to a source for each name *)

Matched(patterns, names) == {n \in names : \E p \in patterns : n \in p.names}
Literal(n, patterns) == \E p \in patterns : ~p.wild /\ n \in p.names

\* The entry appended for the output directory.
OutputEntry == [path |-> OutputDir, load |-> {[wild |-> TRUE, names |-> ModelNames]}, exclude |-> {},
                dynamic |-> FALSE, clear |-> TRUE, ignore |-> TRUE, skip |-> FALSE, oname |-> <<>>]

\* Names a checkpoint can serve, by its own name or an alias.
Available(path) == (Holds(path) \cap ModelNames) \cup {n \in StepNames : HasAlias(path, n)}

\* parse_dense_oname(): the first rule that leads to a name in the checkpoint.
DenseRule(e, n) ==
  LET good == {i \in DOMAIN e.oname : n \in DOMAIN e.oname[i].map /\ e.oname[i].map[n] \in Holds(e.path)}
  IN  IF n \in DenseNames /\ good # {} THEN CHOOSE i \in good : \A j \in good : i <= j ELSE 0

\* parse_sparse_oname(): a rule applies when it matches names on both sides.
SparseMatches(e, i, need) == DOMAIN e.oname[i].map \cap need \cap SparseNames
SparseApplies(e, i, need) ==
  SparseMatches(e, i, need) # {} /\ e.oname[i].dst \cap Holds(e.path) # {}

\* The last rule for a name wins.
SparseRule(e, n, need) ==
  LET good == {i \in DOMAIN e.oname : /\ SparseApplies(e, i, need) /\ n \in SparseMatches(e, i, need)
                                      /\ e.oname[i].map[n] \in Holds(e.path)}
  IN  IF good # {} THEN CHOOSE i \in good : \A j \in good : i >= j ELSE 0

RuleOf(e, n, need) == IF n \in SparseNames THEN SparseRule(e, n, need) ELSE DenseRule(e, n)

\* parse_oname() raises.
OnameFails(e, need) ==
  \E i \in DOMAIN e.oname :
    LET rule == e.oname[i]
        matches == SparseMatches(e, i, need)
        lenient == rule.wild \/ e.ignore
    IN  \/ SparseApplies(e, i, need) /\ Cardinality(rule.dst \cap Holds(e.path)) # Cardinality(matches)
        \/ SparseApplies(e, i, need) /\ ~lenient /\ \E n \in matches : rule.map[n] \notin Holds(e.path)
        \/ ~SparseApplies(e, i, need) /\ ~lenient /\ ~\E n \in need : DenseRule(e, n) = i

\* One entry: what it resolves of the names that are left.
ResolveEntry(e, st) ==
  LET load == Matched(e.load, st.left)
      auto == IF load \cap ParamNames # {} THEN {Optim} ELSE {}
      need == ((load \cup auto) \ Matched(e.exclude, ModelNames)) \cap st.left
      found == {n \in need : n \in Available(e.path) \/ RuleOf(e, n, need) # 0}
      missing == {n \in need \ found : Literal(n, e.load)}
      conf == [n \in found |->
                 [oname |-> RuleOf(e, n, need) # 0,
                  source |-> IF RuleOf(e, n, need) = 0 THEN n ELSE e.oname[RuleOf(e, n, need)].map[n],
                  clear |-> n \in SparseNames /\ e.clear, ignore |-> e.ignore]]
  IN  IF st.left = {} \/ Holds(e.path) = {} \/ need = {} THEN st
      ELSE [left |-> st.left \ UNION {Shares(n) : n \in found},
            loads |-> IF found = {} THEN st.loads ELSE
                      IF \E i \in DOMAIN st.loads : st.loads[i][1] = e.path
                        THEN [i \in DOMAIN st.loads |->
                                IF st.loads[i][1] # e.path THEN st.loads[i]
                                ELSE <<e.path, [n \in found \cup DOMAIN st.loads[i][2] |->
                                        IF n \in found THEN conf[n] ELSE st.loads[i][2][n]]>>]
                        ELSE Append(st.loads, <<e.path, conf>>),
            failed |-> st.failed \/ OnameFails(e, need) \/ (missing # {} /\ ~e.ignore)]

Unresolved == [left |-> ModelNames, loads |-> <<>>, failed |-> FALSE]

\* Mutant: entries are taken in their order.
ResolveForwards(entries, chosen) ==
  LET resolved[k \in 0..Len(entries)] ==
        IF k = 0 THEN Unresolved
        ELSE IF k \in chosen THEN ResolveEntry(entries[k], resolved[k - 1]) ELSE resolved[k - 1]
  IN  resolved[Len(entries)]

\* _travel_model_bank_reversely() and _combine_bank_by_path(), of the entries with these indices.
Resolve(entries, chosen) ==
  LET resolved[k \in 0..Len(entries)] ==
        IF k = 0 THEN Unresolved
        ELSE LET i == Len(entries) + 1 - k
             IN  IF i \in chosen THEN ResolveEntry(entries[i], resolved[k - 1]) ELSE resolved[k - 1]
  IN  resolved[Len(entries)]

\* The entries of a bank that are not skipped.
Entries(entries) == {i \in DOMAIN entries : ~entries[i].skip}

\* _is_load_valid(): what is named without a star must be in the model, by a skipped entry too.
LoadValid == \A i \in DOMAIN bank : \A p \in bank[i].load : p.wild \/ p.names \subseteq ModelNames

\* Mutant: all entries.
DynamicIsAll(entries) == Entries(entries)

DynamicEntries(entries) == {i \in Entries(entries) : entries[i].dynamic}

-----------------------------------------------------------------------------
\* The bank as configured; the output directory comes last when it has a
\* checkpoint.
Complete(conf, resumed) == conf \o (IF resumed THEN <<OutputEntry>> ELSE <<>>)

PathsOf(conf) == {conf[i].path : i \in DOMAIN conf} \cup {OutputDir}

BankInit ==
  \E conf \in Banks : \E resumed \in BOOLEAN :
    /\ bank = Complete(conf, resumed) /\ version = [p \in PathsOf(conf) |-> 1]
    /\ phase = "parse" /\ todo = <<>> /\ dynamic = <<>>
    /\ rows = [t \in Tables |-> <<>>] /\ dense = [n \in DenseNames |-> Initial]
    /\ optim = [n \in ParamNames |-> Initial] /\ extra = [n \in (ExtraNames \ {Optim}) \cup {<<x, "">> : x \in Tensors} |-> Initial]
    /\ updates = 0

\* Construction of the parser; restore() follows.
Parse ==
  LET all == Resolve(bank, Entries(bank))
      dyn == Resolve(bank, DynamicEntries(bank))
  IN
  /\ phase = "parse"
  /\ phase' = IF LoadValid /\ ~all.failed /\ ~dyn.failed THEN "load" ELSE "failed"
  /\ todo' = all.loads /\ dynamic' = dyn.loads
  /\ UNCHANGED <<bank, version, rows, dense, optim, extra, updates>>

\* Another job writes a new version under a path.
PublishVersion(p) ==
  /\ version[p] < MaxVersion
  /\ version' = [version EXCEPT ![p] = @ + 1]
  /\ UNCHANGED <<bank, phase, todo, dynamic, rows, dense, optim, extra, updates>>

-----------------------------------------------------------------------------
(* Saver._load_variables(): one path *)

\* _clear_hashtables_if_needed().
Cleared(conf) ==
  {t \in Tables : \E n \in DOMAIN conf : conf[n].clear /\ StartsWith(n[1], t)}

\* filter_bank(): a table is loaded from one table.
SourceTable(conf, t) ==
  LET renamed == {n \in DOMAIN conf : n[1] = t /\ n \in SparseNames /\ conf[n].oname}
  IN  IF renamed = {} THEN t ELSE conf[CHOOSE n \in renamed : TRUE].source[1]

MappedTwice(conf) ==
  \E m, n \in DOMAIN conf \cap SparseNames :
    m[1] = n[1] /\ conf[m].oname /\ conf[n].oname /\ conf[m].source[1] # conf[n].source[1]

\* Slots of t that this load reads.
SlotsRead(path, conf, t) ==
  {s \in Slots \cup {"id"} : <<t, s>> \in DOMAIN conf /\ <<SourceTable(conf, t), s>> \in Holds(path)}

\* A table is read with its ids or not at all (HTReadCollection::Valid).
InvalidTable(path, conf) ==
  \E t \in Tables : LET read == SlotsRead(path, conf, t) IN read # {} /\ (read = {"id"} \/ "id" \notin read)

\* Slots for which new rows of t get no value: another table of the same coalesced table
\* reads them, and a slot that is read has an empty generator while the load goes on.
NotGenerated(path, conf, t) ==
  {s \in Slots \ SlotsRead(path, conf, t) :
     \E u \in Tables : Coalesced(u) = Coalesced(t) /\ s \in SlotsRead(path, conf, u)}

\* Rows after the load; the memory of what is not generated may hold anything (junk).
LoadedRows(path, conf, junk) ==
  [t \in Tables |->
     LET old == IF t \in Cleared(conf) THEN <<>> ELSE rows[t]
         read == SlotsRead(path, conf, t)
         ids == IF read = {} THEN {} ELSE IdsOf(path)
     IN  [id \in DOMAIN old \cup ids |->
            [s \in Slots |-> IF id \in ids /\ s \in read THEN Content(path, <<SourceTable(conf, t), s>>)
                             ELSE IF id \in DOMAIN old THEN old[id][s]
                             ELSE IF s \in NotGenerated(path, conf, t) THEN junk ELSE Initial]]]

\* Plain tensors are read with any sparse variable of the path.
LoadedTensors(path, conf) ==
  {<<x, "">> : x \in Tensors} \cap Holds(path) \cap (IF DOMAIN conf \cap SparseNames = {} THEN {} ELSE SparseNames)

\* _load_dense_model(): the source of a name, or its first alias.
DenseSource(path, conf, n) ==
  IF conf[n].oname THEN conf[n].source ELSE IF n \in Holds(path) THEN n ELSE Legacy(n)

DenseRead(path, conf) == {n \in DOMAIN conf \cap DenseNames : DenseSource(path, conf, n) \in Holds(path)}

InconsistentSteps(path, conf) ==
  \E m, n \in DenseRead(path, conf) : /\ m \in Shares(n)
    /\ Content(path, DenseSource(path, conf, m)) # Content(path, DenseSource(path, conf, n))

LoadedDense(path, conf) ==
  [n \in DenseNames |->
     LET read == Shares(n) \cap DenseRead(path, conf)
     IN  IF read = {} THEN dense[n] ELSE Content(path, DenseSource(path, conf, CHOOSE m \in read : TRUE))]

-----------------------------------------------------------------------------
(* NamedOptimizer.load_state_dict() *)

\* State by name in the checkpoint.
SavedOptim(path) == [n \in {n \in Holds(path) : n[2] = "param"} |-> Content(path, n)]

\* Mutant: the state keeps the name it has in the checkpoint.
NoLoadMap(state, p, source) == [failed |-> FALSE, of |-> state.of]

\* _process_load_map(), one renamed parameter: its state is moved.
ProcessLoadMap(state, p, source) ==
  IF source \notin DOMAIN state.of THEN [state EXCEPT !.failed = TRUE]
  ELSE [failed |-> state.failed,
        of |-> [n \in (DOMAIN state.of \ {source}) \cup {p} |-> IF n = p THEN state.of[source] ELSE state.of[n]]]

LoadMap(conf) == {n \in DOMAIN conf \cap DenseNames : conf[n].oname}

RenamedOptim(path, conf) ==
  LET renamed == SetToSeq(LoadMap(conf))
      state[k \in 0..Len(renamed)] ==
        IF k = 0 THEN [failed |-> FALSE, of |-> SavedOptim(path)]
        ELSE ProcessLoadMap(state[k - 1], renamed[k], conf[renamed[k]].source)
  IN  state[Len(renamed)]

OptimRead(path, conf) == Optim \in DOMAIN conf /\ Optim \in Holds(path)

LoadedOptim(path, conf) ==
  [n \in ParamNames |->
     IF OptimRead(path, conf) /\ n \in DenseRead(path, conf) /\ n \in DOMAIN RenamedOptim(path, conf).of
       THEN RenamedOptim(path, conf).of[n] ELSE optim[n]]

-----------------------------------------------------------------------------
LoadFails(path, conf) ==
  \/ MappedTwice(conf) \/ InvalidTable(path, conf) \/ InconsistentSteps(path, conf)
  \/ OptimRead(path, conf) /\ RenamedOptim(path, conf).failed

\* clear, sparse, dense, extra - in one process, from the newest version.
LoadPath ==
  LET path == Head(todo)[1]
      conf == Head(todo)[2]
      read == (DOMAIN conf \cap Holds(path) \cap ExtraNames) \cup LoadedTensors(path, conf)
  IN
  /\ phase \in {"load", "update"} /\ todo # <<>>
  /\ IF LoadFails(path, conf) THEN phase' = "failed" /\ UNCHANGED <<todo, rows, dense, optim, extra>>
     ELSE /\ \E junk \in {Initial, Unset} : rows' = LoadedRows(path, conf, junk)
          /\ dense' = LoadedDense(path, conf)
          /\ optim' = LoadedOptim(path, conf)
          /\ extra' = [n \in DOMAIN extra |-> IF n \in read THEN Content(path, n) ELSE extra[n]]
          /\ todo' = Tail(todo) /\ UNCHANGED phase
  /\ UNCHANGED <<bank, version, dynamic, updates>>

Restored ==
  /\ phase \in {"load", "update"} /\ todo = <<>>
  /\ phase' = IF phase = "load" THEN "ready" ELSE "train"
  /\ UNCHANGED <<bank, version, todo, dynamic, rows, dense, optim, extra, updates>>

TrainAll ==
  /\ phase = "ready" /\ phase' = "train"
  /\ rows' = [t \in Tables |-> [id \in DOMAIN rows[t] |-> [s \in Slots |-> Trained]]]
  /\ dense' = [n \in DenseNames |-> Trained] /\ optim' = [n \in ParamNames |-> Trained]
  /\ extra' = [n \in DOMAIN extra |-> Trained]
  /\ UNCHANGED <<bank, version, todo, dynamic, updates>>

\* update_load() from before_step() or before_window() of the load hook.
UpdateLoad ==
  /\ phase = "train" /\ updates < MaxUpdates
  /\ updates' = updates + 1
  /\ todo' = dynamic
  /\ phase' = IF dynamic = <<>> THEN "train" ELSE "update"
  /\ UNCHANGED <<bank, version, dynamic, rows, dense, optim, extra>>

BankNext ==
  \/ Parse \/ LoadPath \/ Restored \/ TrainAll \/ UpdateLoad
  \/ \E p \in DOMAIN version : PublishVersion(p)

BankSpec == BankInit /\ [][BankNext]_bankVars

-----------------------------------------------------------------------------
(* The documented rule, written without the parser: the last entry that    *)
(* wants a name and has it.                                                *)

Wants(i, n) ==
  n \in Matched(bank[i].load, ModelNames) /\ n \notin Matched(bank[i].exclude, ModelNames)

\* What entry i has for name n, or nothing.
Offers(i, n) ==
  LET e == bank[i]
      renamed == {e.oname[j].map[n] : j \in {j \in DOMAIN e.oname : n \in DOMAIN e.oname[j].map}} \cap Holds(e.path)
      own == {n} \cap Holds(e.path)
      alias == IF HasAlias(e.path, n) THEN {Legacy(n)} ELSE {}
  IN  IF renamed # {} THEN renamed ELSE IF own # {} THEN own ELSE alias

Best(n) ==
  LET good == {i \in Entries(bank) : \E m \in Shares(n) : Wants(i, m) /\ Offers(i, m) # {}}
  IN  IF good = {} THEN 0 ELSE CHOOSE i \in good : \A j \in good : j <= i

From(content, i, n) ==
  IF i = 0 THEN content = Initial
  ELSE \E m \in Shares(n) : Wants(i, m) /\ \E o \in Offers(i, m) :
         \E v \in 1..MaxVersion : content = [Content(bank[i].path, o) EXCEPT ![3] = v]

\* No entry offers the slot to this table, but one does to another table of the same
\* coalesced table.
OfferedToSibling(t, s) ==
  Best(<<t, s>>) = 0 /\ \E u \in Tables : Coalesced(u) = Coalesced(t) /\ Best(<<u, s>>) # 0

\* Once restore() is through, every variable has what the last entry that
\* wants it and has it offers - the job's own output before all others -
\* and its initial value if there is none, except for a slot that only another
\* table of the same coalesced table is offered: there, rows may be uninitialised.
\* A filter step that several tables share has one source.
BankPrecedence ==
  phase = "ready" =>
    /\ \A t \in Tables : \A s \in Slots :
         LET i == Best(<<t, s>>) IN
         /\ i = 0 \/ <<t, "id">> \notin ModelNames \/ IdsOf(bank[i].path) \subseteq DOMAIN rows[t]
         /\ \A id \in DOMAIN rows[t] : i = 0 \/ id \in IdsOf(bank[i].path) =>
              From(rows[t][id][s], i, <<t, s>>) \/ (rows[t][id][s] = Unset /\ OfferedToSibling(t, s))
    /\ \A n \in DenseNames : From(dense[n], Best(n), n)
    /\ \A n \in DOMAIN extra : From(extra[n], Best(n), n)

\* Parameter and optimizer state come from the same place: a parameter has
\* the state of the parameter it was loaded from, in the same version, or
\* none - and none only if the optimizer was loaded from another checkpoint.
OptimizerFollows ==
  phase = "ready" =>
    \A n \in ParamNames :
      IF optim[n] # Initial THEN optim[n] = dense[n]
      ELSE dense[n] # Initial => \A m \in ParamNames : optim[m][1] # dense[n][1]

\* No rule leads from one dense variable of the model to another one.
RenamesLeadOut ==
  \A conf \in Banks : \A i \in DOMAIN conf : \A j \in DOMAIN conf[i].oname :
    \A n \in DenseNames \cap DOMAIN conf[i].oname[j].map :
      conf[i].oname[j].map[n] \in DenseNames => conf[i].oname[j].map[n] = n

\* A rule for a table renames the table and not its slots, to what the rule's other
\* side matches, and is for a checkpoint that has no table of the old name.
RulesMoveTables ==
  \A conf \in Banks : \A i \in DOMAIN conf : \A j \in DOMAIN conf[i].oname :
    LET rule == conf[i].oname[j] IN
    /\ DOMAIN rule.map \cap ExtraNames = {}
    /\ \A n \in SparseNames \cap DOMAIN rule.map :
         /\ rule.map[n] = <<rule.map[n][1], n[2]>> /\ rule.map[n] \in rule.dst
         /\ rule.map[n] \in Holds(conf[i].path) => \A s \in Slots \cup {"id"} : <<n[1], s>> \notin Holds(conf[i].path)

\* No table has a name another name begins with.
NamesApart ==
  \A n \in SparseNames : \A t \in Tables : StartsWith(n[1], t) => n \in {t} \X (Slots \cup {"id"})

Touched(n) == \E i \in Entries(bank) : bank[i].dynamic /\ Wants(i, n)

\* A reload during training changes only what dynamic entries ask for: what
\* was trained of all other variables stays.
UpdateTouchesOnlyDynamic ==
  [][phase = "update" /\ phase' # "failed" =>
      /\ \A n \in DenseNames : dense'[n] # dense[n] => \E m \in Shares(n) : Touched(m)
      /\ \A n \in ParamNames : optim'[n] # optim[n] => Touched(n)
      /\ \A t \in Tables : rows'[t] # rows[t] => \E s \in Slots \cup {"id"} : Touched(<<t, s>>)]_bankVars
=============================================================================
