---------------------------- MODULE KeyCrmBootstrap ----------------------------
(***************************************************************************)
(* scripts/keycrm_bootstrap.py: somebody runs it, by hand and as often as    *)
(* needed, to give KeyCRM a funnel, its stages and the custom fields.  A run *)
(* looks for the funnel, lists its stages and creates the missing ones,      *)
(* lists the fields and creates the missing ones, and at last writes what it *)
(* found and made to keycrm_mapping.json and the funnel's id to .env.        *)
(*                                                                          *)
(* One run at a time.  Whatever it asks of KeyCRM may be refused, answered   *)
(* with the first page only or carried out without an answer, and a run may  *)
(* end anywhere; a user of KeyCRM may delete a stage or a field meanwhile,   *)
(* and make fields: common/keycrm.py:11 says that they are made in no other  *)
(* way, so KeyCRM may refuse them to the script for good.                     *)
(***************************************************************************)
EXTENDS Integers, Sequences

CONSTANTS
  Stage,       \* STAGES
  Field,       \* CUSTOM_FIELDS
  Funnel,      \* FUNNEL_NAME
  Deleted,     \* in place of the name of a row somebody deleted
  MaxFailures  \* bound: failures, and what users do

Key  == Stage \cup Field
Name == Key \cup {Funnel, Deleted}

ASSUME StagesAreNoFields == Stage \cap Field = {}
ASSUME FunnelIsNoKey     == Funnel \notin Key /\ Deleted \notin Key /\ Funnel # Deleted
ASSUME FailureBound      == MaxFailures \in Nat

\* What a run lists, and the names it looks for in the list.
Part == {"funnel", "stages", "fields"}
Keys(part) ==
  CASE part = "funnel" -> {Funnel} [] part = "stages" -> Stage [] part = "fields" -> Field

\* A stage belongs to a funnel; funnels and the fields of leads to none, and other
\* entities have fields of their own.
Elsewhere == -1
Row == [name: Name, parent: Nat \cup {Elsewhere}]

\* 0 stands for no id.
Ids   == [Key -> Nat]
NoIds == [k \in Key |-> 0]

\* by: who wrote the file; blind: what the run that wrote it had not listed (history).
Saved == [by: {"nobody", "hand", "script"}, funnel: Nat, ids: Ids, blind: SUBSET Part]

VARIABLES
  rows,     \* external: what KeyCRM holds, an id being a position
  run,      \* the running script
  mapping,  \* keycrm_mapping.json
  env,      \* KEYCRM_FUNNEL_ID in .env, 0 if not set, -1 if the file is cut short
  failures  \* how many of MaxFailures there were

vars == <<rows, run, mapping, env, failures>>

\* pc: where the run is; part: what it ensures; todo: the keys left;
\* known: existing, existing_by_name; ids: stage_map and field_map in one;
\* blind: the parts that were not, or not completely, listed.
Run == [pc: {"off", "funnel", "newfunnel", "list", "listall", "ensure", "save", "patch"},
        part: {"stages", "fields"}, funnel: Nat, todo: SUBSET Key, known: Ids, ids: Ids,
        blind: SUBSET Part]

NoRun == [pc |-> "off", part |-> "stages", funnel |-> 0, todo |-> {}, known |-> NoIds,
          ids |-> NoIds, blind |-> {}]

NotSaved == [by |-> "nobody", funnel |-> 0, ids |-> NoIds, blind |-> {}]

\* The keycrm_mapping.json of the repository: somebody's notes on another funnel,
\* under other keys, none of them the script's.
Shipped == [NotSaved EXCEPT !.by = "hand"]

CutShort == -1

Init ==
  /\ rows = <<>>
  /\ run = NoRun
  /\ mapping = Shipped
  /\ env = 0
  /\ failures = 0

-----------------------------------------------------------------------------
\* KeyCRM.

Parent(k, funnel) == IF k \in Stage THEN funnel ELSE 0

RowsOf(k, parents) == {i \in DOMAIN rows : rows[i].name = k /\ rows[i].parent \in parents}

IdsOf(k, funnel) == RowsOf(k, {Parent(k, funnel)})

Created(k, funnel) == Append(rows, [name |-> k, parent |-> Parent(k, funnel)])

\* Slip: one less than there are rows.
IdTooLow == Len(rows) - 1

NewId == Len(rows) + 1

\* Replies that list some of the keys, or all, with those parents: of rows with one
\* name the reader keeps the last, in an order that is KeyCRM's.
Listings(listed, parents) ==
  {known \in [Key -> {0} \cup DOMAIN rows] :
     \A k \in Key :
       IF k \in listed /\ RowsOf(k, parents) # {} THEN known[k] \in RowsOf(k, parents)
       ELSE known[k] = 0}

-----------------------------------------------------------------------------
\* main and ensure_funnel.

Start ==
  /\ run.pc = "off"
  /\ env # CutShort
  /\ run' = [NoRun EXCEPT !.pc = "funnel"]
  /\ UNCHANGED <<rows, mapping, env, failures>>

WithFunnel(f) == [run EXCEPT !.pc = "list", !.funnel = f]

\* Slip: the name is not looked for.
FunnelAlwaysCreated ==
  /\ run.pc = "funnel"
  /\ run' = [run EXCEPT !.pc = "newfunnel"]
  /\ UNCHANGED <<rows, mapping, env, failures>>

\* The first funnel of the name in the list, in an order that is KeyCRM's.
EnsureFunnel ==
  /\ run.pc = "funnel"
  /\ \/ \E f \in IdsOf(Funnel, 0) : run' = WithFunnel(f)
     \/ IdsOf(Funnel, 0) = {} /\ run' = [run EXCEPT !.pc = "newfunnel"]
  /\ UNCHANGED <<rows, mapping, env, failures>>

NewFunnel ==
  /\ run.pc = "newfunnel"
  /\ run' = WithFunnel(NewId)
  /\ rows' = Created(Funnel, 0)
  /\ UNCHANGED <<mapping, env, failures>>

-----------------------------------------------------------------------------
\* ensure_stages and ensure_custom_fields.

\* After the stages the fields, after the fields the files.
Onwards(r) ==
  IF r.part = "stages"
  THEN [r EXCEPT !.pc = "list", !.part = "fields", !.todo = {}, !.known = NoIds]
  ELSE [r EXCEPT !.pc = "save", !.todo = {}, !.known = NoIds]

\* The parents of what the run asks for.
Asked ==
  IF run.pc = "listall" THEN {0, Elsewhere}
  ELSE IF run.part = "stages" THEN {run.funnel} ELSE {0}

Knows(known, blind) ==
  run' = [run EXCEPT !.pc = "ensure", !.todo = Keys(run.part), !.known = known, !.blind = blind]

List ==
  /\ run.pc = "list"
  /\ \E known \in Listings(Keys(run.part), Asked) : Knows(known, run.blind)
  /\ UNCHANGED <<rows, mapping, env, failures>>

\* "Try alternative endpoint": KeyCRM does not answer for the fields of leads alone.
AsksForAll ==
  /\ run.pc = "list" /\ run.part = "fields"
  /\ run' = [run EXCEPT !.pc = "listall"]
  /\ UNCHANGED <<rows, mapping, env, failures>>

\* The fields of every entity, told apart by their names only.
ListAll ==
  /\ run.pc = "listall"
  /\ \E known \in Listings(Field, Asked) : Knows(known, run.blind \cup {"fields"})
  /\ UNCHANGED <<rows, mapping, env, failures>>

\* for ... in STAGES, for ... in CUSTOM_FIELDS: one order, whichever it is.
Turn(k) == run.pc = "ensure" /\ k \in run.todo /\ k = (CHOOSE first \in run.todo : TRUE)

WithId(k, id) == [run EXCEPT !.todo = run.todo \ {k}, !.ids = [run.ids EXCEPT ![k] = id]]

\* Slip: what exists is passed over.
PassedOver(k) ==
  /\ Turn(k)
  /\ run.known[k] # 0
  /\ run' = [run EXCEPT !.todo = run.todo \ {k}]
  /\ UNCHANGED <<rows, mapping, env, failures>>

Exists(k) ==
  /\ Turn(k)
  /\ run.known[k] # 0
  /\ run' = WithId(k, run.known[k])
  /\ UNCHANGED <<rows, mapping, env, failures>>

Missing(k) == Turn(k) /\ run.known[k] = 0

\* Slip: the id counts the rows there were.
IdBefore(k) ==
  /\ Missing(k)
  /\ rows' = Created(k, run.funnel)
  /\ run' = WithId(k, Len(rows))
  /\ UNCHANGED <<mapping, env, failures>>

Create(k) ==
  /\ Missing(k)
  /\ rows' = Created(k, run.funnel)
  /\ run' = WithId(k, NewId)
  /\ UNCHANGED <<mapping, env, failures>>

LeftOut(k) == run' = [run EXCEPT !.todo = run.todo \ {k}]

\* "Custom fields creation NOT exposed via API" (common/keycrm.py:11).
FieldRefused(k) ==
  /\ k \in Field
  /\ Missing(k)
  /\ LeftOut(k)
  /\ UNCHANGED <<rows, mapping, env, failures>>

AllEnsured ==
  /\ run.pc = "ensure"
  /\ run.todo = {}
  /\ run' = Onwards(run)
  /\ UNCHANGED <<rows, mapping, env, failures>>

-----------------------------------------------------------------------------
\* write_mapping: the file is replaced, then .env is patched.

SaveMapping ==
  /\ run.pc = "save"
  /\ mapping' = [by |-> "script", funnel |-> run.funnel, ids |-> run.ids, blind |-> run.blind]
  /\ run' = [run EXCEPT !.pc = "patch"]
  /\ UNCHANGED <<rows, env, failures>>

\* Slip: a line that is not there is not added.
PatchIfFound ==
  /\ run.pc = "patch"
  /\ env' = IF env = 0 THEN 0 ELSE run.funnel
  /\ run' = NoRun
  /\ UNCHANGED <<rows, mapping, failures>>

PatchEnv ==
  /\ run.pc = "patch"
  /\ env' = run.funnel
  /\ run' = NoRun
  /\ UNCHANGED <<rows, mapping, failures>>

-----------------------------------------------------------------------------
\* What goes wrong.

Fails == failures < MaxFailures /\ failures' = failures + 1

\* Interrupted, or an exit or an exception of its own: GET or POST /pipelines is
\* refused, a request times out.
Dies ==
  /\ Fails
  /\ run.pc # "off"
  /\ run' = NoRun
  /\ UNCHANGED <<rows, mapping, env>>

\* A POST is carried out and its reply lost, or without the id of a funnel or of
\* a stage: the run dies and the row is there.
ReplyLost ==
  /\ Fails
  /\ \/ run.pc = "newfunnel" /\ rows' = Created(Funnel, 0)
     \/ \E k \in Key : Missing(k) /\ rows' = Created(k, run.funnel)
  /\ run' = NoRun
  /\ UNCHANGED <<mapping, env>>

\* The reply is one page without the funnel, and the script asks for no other.
FunnelNotListed ==
  /\ Fails
  /\ run.pc = "funnel" /\ IdsOf(Funnel, 0) # {}
  /\ run' = [run EXCEPT !.pc = "newfunnel", !.blind = {"funnel"}]
  /\ UNCHANGED <<rows, mapping, env>>

\* GET stages is refused: no stage is mapped and the run goes on.
StagesRefused ==
  /\ Fails
  /\ run.pc = "list" /\ run.part = "stages"
  /\ run' = Onwards([run EXCEPT !.blind = run.blind \cup {"stages"}])
  /\ UNCHANGED <<rows, mapping, env>>

\* "Will try to create anyway": the second GET of the fields is refused too.
FieldsRefused ==
  /\ Fails
  /\ run.pc = "listall"
  /\ Knows(NoIds, run.blind \cup {"fields"})
  /\ UNCHANGED <<rows, mapping, env>>

\* One page again, with some of the stages or fields.
ListCut ==
  /\ Fails
  /\ run.pc \in {"list", "listall"}
  /\ \E listed \in SUBSET Keys(run.part) : \E known \in Listings(listed, Asked) :
       Knows(known, run.blind \cup {run.part})
  /\ UNCHANGED <<rows, mapping, env>>

\* POST of a stage is refused: it is left out.
StageRefused(k) ==
  /\ Fails
  /\ k \in Stage
  /\ Missing(k)
  /\ LeftOut(k)
  /\ UNCHANGED <<rows, mapping, env>>

\* The reply to the POST of a field has no id: the field is made and left out.
NoIdInReply(k) ==
  /\ Fails
  /\ k \in Field
  /\ Missing(k)
  /\ rows' = Created(k, run.funnel)
  /\ LeftOut(k)
  /\ UNCHANGED <<mapping, env>>

\* write_text empties a file before it writes it.
DiesWriting ==
  /\ Fails
  /\ \/ run.pc = "save" /\ mapping' = NotSaved /\ UNCHANGED env
     \/ run.pc = "patch" /\ env' = CutShort /\ UNCHANGED mapping
  /\ run' = NoRun
  /\ UNCHANGED rows

\* External: a user of KeyCRM deletes a stage or a field.
Delete(i) ==
  /\ Fails
  /\ rows[i].name \in Key
  /\ rows' = [rows EXCEPT ![i] = [name |-> Deleted, parent |-> rows[i].parent]]
  /\ UNCHANGED <<run, mapping, env>>

\* External: a user makes a field, one of leads that was missing between two runs or
\* one of another entity at any time.
UserAdds(k, parent) ==
  /\ Fails
  /\ RowsOf(k, {parent}) = {}
  /\ parent = 0 => run.pc = "off"
  /\ rows' = Append(rows, [name |-> k, parent |-> parent])
  /\ UNCHANGED <<run, mapping, env>>

-----------------------------------------------------------------------------
Step ==
  \/ Start
  \/ EnsureFunnel \/ NewFunnel
  \/ List \/ AsksForAll \/ ListAll
  \/ \E k \in Key : Exists(k) \/ Create(k) \/ FieldRefused(k)
  \/ AllEnsured
  \/ SaveMapping
  \/ PatchEnv

Failure ==
  \/ Dies \/ ReplyLost \/ DiesWriting
  \/ FunnelNotListed \/ StagesRefused \/ FieldsRefused \/ ListCut
  \/ \E k \in Key : StageRefused(k) \/ NoIdInReply(k)
  \/ \E i \in DOMAIN rows : Delete(i)
  \/ \E k \in Field, parent \in {0, Elsewhere} : UserAdds(k, parent)

Next == Step \/ Failure

Spec == Init /\ [][Next]_vars

\* Somebody runs the script again, and a run that nothing stops goes on.
FairSpec == Spec /\ WF_vars(Step)
-----------------------------------------------------------------------------
TypeOK ==
  /\ rows \in Seq(Row)
  /\ run \in Run
  /\ mapping \in Saved
  /\ env \in Nat \cup {CutShort}
  /\ failures \in Nat

\* i is, or was until somebody deleted it, the id of k under a parent.
Denotes(i, k, parent) ==
  /\ i \in DOMAIN rows
  /\ rows[i].name \in {k, Deleted}
  /\ rows[i].parent = parent

\* What the application is given to work with, after any failures and runs
\* (write_mapping): every id of the mapping is an id of what it is said to be, a stage
\* one of the mapping's own funnel, a field one of leads; only a run that had to list
\* the fields of all entities may have taken another one's.  The mapping and .env name
\* funnels of ours, not always the same.
MappingTrue ==
  /\ \A k \in Key : mapping.ids[k] # 0 =>
       \/ Denotes(mapping.ids[k], k, Parent(k, mapping.funnel))
       \/ /\ k \in Field /\ "fields" \in mapping.blind
          /\ Denotes(mapping.ids[k], k, Elsewhere)
  /\ mapping.funnel # 0 => Denotes(mapping.funnel, Funnel, 0)
  /\ env \notin {0, CutShort} => Denotes(env, Funnel, 0)

\* A part the run did not list completely has k.
Unlisted(k) == \E part \in run.blind : k \in Keys(part)

\* "Idempotent -- re-running won't duplicate fields/stages" (keycrm_bootstrap.py:6)
\* as far as it goes: a run makes a funnel, a field, or a stage of its funnel that is
\* there already only when it could not list what there is.
DuplicatesOnlyBlind ==
  [][\A k \in Key \cup {Funnel} :
       IdsOf(k, run.funnel) # {} /\ rows' = Created(k, run.funnel) => Unlisted(k)]_vars

\* A run takes nothing out of a mapping of the script's that still holds in KeyCRM,
\* unless it could not list it, found another of our funnels, or dies while it writes
\* (ensure_stages, write_mapping).
MappingKept ==
  [][\A k \in Key :
       mapping.ids[k] \in IdsOf(k, mapping.funnel) /\ mapping'.ids[k] = 0 =>
         \/ Unlisted(k)
         \/ k \in Stage /\ run.funnel # mapping.funnel
         \/ run'.pc = "off"]_vars

\* The mapping has a funnel, all its stages, and the fields KeyCRM has for leads.
Wired ==
  /\ mapping.funnel \in IdsOf(Funnel, 0)
  /\ \A k \in Stage : mapping.ids[k] \in IdsOf(k, mapping.funnel)
  /\ \A k \in Field : IdsOf(k, 0) # {} => mapping.ids[k] \in RowsOf(k, {0, Elsewhere})

\* Whatever failed, once failures have passed a run that is repeated completes the
\* mapping, later runs leave it complete, and each ends with .env on its funnel,
\* whether KeyCRM lets the script make fields or not; nothing helps when .env, which
\* holds the credentials too, is cut short (lines 231-232).
Converges ==
  /\ <>[](Wired \/ env = CutShort)
  /\ []<>(env \in {mapping.funnel, CutShort})
=============================================================================
