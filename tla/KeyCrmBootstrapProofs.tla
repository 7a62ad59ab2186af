------------------------- MODULE KeyCrmBootstrapProofs -------------------------
(***************************************************************************)
(* What the bootstrap script promises however often it is run and whatever  *)
(* fails, for any stages, fields and number of failures: the mapping names   *)
(* rows that are what it says, a run repeats nothing it could list, and      *)
(* takes nothing out of the mapping that it could list.                      *)
(*                                                                          *)
(* The mapping is written from what a run collected, so the invariant is     *)
(* about the run: its ids are its keys' in its funnel, a key it listed as    *)
(* missing is missing, and what it has walked past is still mapped.  There   *)
(* may be several funnels: each run keeps to one, and to nothing else.       *)
(***************************************************************************)
EXTENDS KeyCrmBootstrap, TLAPS

\* IdsOf, and what an id may mean, in rows given.
LiveIn(rs, k, f) == {i \in DOMAIN rs : rs[i].name = k /\ rs[i].parent = Parent(k, f)}

MeansIn(rs, i, k, f, blind) ==
  /\ i \in DOMAIN rs
  /\ rs[i].name \in {k, Deleted}
  /\ \/ rs[i].parent = Parent(k, f)
     \/ k \in Field /\ "fields" \in blind /\ rs[i].parent = Elsewhere

Early == {"off", "funnel", "newfunnel"}

\* A run has collected nothing before it knows the funnel.
Fresh == run.pc \in Early => run.ids = NoIds /\ run.known = NoIds /\ run.part = "stages"

\* A funnel is made where none is, or none was listed.
NoFunnel == run.pc = "newfunnel" /\ "funnel" \notin run.blind => LiveIn(rows, Funnel, 0) = {}

RunInFunnel == run.pc \notin Early => run.funnel \in LiveIn(rows, Funnel, 0)

RunTrue ==
  \A k \in Key :
    /\ run.known[k] # 0 => MeansIn(rows, run.known[k], k, run.funnel, run.blind)
    /\ run.ids[k] # 0 => MeansIn(rows, run.ids[k], k, run.funnel, run.blind)

SavedTrue ==
  /\ mapping.funnel # 0 => mapping.funnel \in LiveIn(rows, Funnel, 0)
  /\ env \notin {0, CutShort} => env \in LiveIn(rows, Funnel, 0)
  /\ \A k \in Key : mapping.ids[k] # 0 =>
       /\ mapping.funnel # 0
       /\ MeansIn(rows, mapping.ids[k], k, mapping.funnel, mapping.blind)

TodoInPart == run.todo \subseteq Keys(run.part)

FieldsLast == run.pc \in {"listall", "save"} => run.part = "fields"

\* A key listed as missing is missing.
ListedAll ==
  run.pc = "ensure" /\ run.part \notin run.blind =>
    \A k \in run.todo : run.known[k] = 0 => LiveIn(rows, k, run.funnel) = {}

\* The run has dealt with k.
Done(k) ==
  \/ run.pc = "save"
  \/ run.pc \in {"list", "listall", "ensure"} /\ k \in Stage /\ run.part = "fields"
  \/ run.pc = "ensure" /\ k \in Keys(run.part) /\ k \notin run.todo

StillMapped ==
  \A k \in Key :
    Done(k) /\ ~Unlisted(k) /\ mapping.ids[k] \in LiveIn(rows, k, run.funnel) => run.ids[k] # 0

Inductive == /\ TypeOK /\ Fresh /\ NoFunnel /\ RunInFunnel /\ RunTrue /\ SavedTrue
             /\ TodoInPart /\ FieldsLast /\ ListedAll /\ StillMapped

-----------------------------------------------------------------------------
\* Rows.

LEMMA IdsAreLive == \A k, f : IdsOf(k, f) = LiveIn(rows, k, f)
BY DEF IdsOf, RowsOf, LiveIn

\* What any step may do to the rows: none goes, only keys become deleted.
Evolves ==
  /\ rows' \in Seq(Row)
  /\ \A i \in DOMAIN rows :
       /\ i \in DOMAIN rows'
       /\ rows'[i].parent = rows[i].parent
       /\ rows'[i].name = rows[i].name \/ (rows[i].name \in Key /\ rows'[i].name = Deleted)

\* The ids a step adds are those of one row.
AddsOnly(k, parent) ==
  \A i \in DOMAIN rows' : i \notin DOMAIN rows =>
    i = NewId /\ rows'[i].name = k /\ rows'[i].parent = parent

AddsNone == DOMAIN rows' = DOMAIN rows

LEMMA AppendEvolves ==
  ASSUME rows \in Seq(Row), NEW k \in Name, NEW parent \in Nat \cup {Elsewhere},
         rows' = Append(rows, [name |-> k, parent |-> parent])
  PROVE  /\ Evolves
         /\ AddsOnly(k, parent)
         /\ NewId \in DOMAIN rows' /\ NewId \notin DOMAIN rows
         /\ rows'[NewId].name = k /\ rows'[NewId].parent = parent
<1> DEFINE row == [name |-> k, parent |-> parent]
<1>1. row \in Row
  BY DEF Row
<1>2. rows' = Append(rows, row)
  OBVIOUS
<1>3. row.name = k /\ row.parent = parent
  OBVIOUS
<1> HIDE DEF row
<1>4. rows' \in Seq(Row) /\ DOMAIN rows' = 1..(Len(rows) + 1) /\ DOMAIN rows = 1..Len(rows)
  BY <1>1, <1>2
<1>5. /\ rows'[Len(rows) + 1] = row
      /\ \A i \in 1..Len(rows) : rows'[i] = rows[i]
  BY <1>1, <1>2
<1>6. Len(rows) \in Nat
  OBVIOUS
<1> QED  BY <1>3, <1>4, <1>5, <1>6 DEF Evolves, AddsOnly, NewId

LEMMA CreatedEvolves ==
  ASSUME rows \in Seq(Row), NEW k \in Name, NEW f \in Nat, rows' = Created(k, f)
  PROVE  /\ Evolves
         /\ AddsOnly(k, Parent(k, f))
         /\ NewId \in DOMAIN rows' /\ NewId \notin DOMAIN rows
         /\ rows'[NewId].name = k /\ rows'[NewId].parent = Parent(k, f)
<1>1. Parent(k, f) \in Nat \cup {Elsewhere}
  BY DEF Parent
<1> QED  BY <1>1, AppendEvolves DEF Created

LEMMA DeletedEvolves ==
  ASSUME rows \in Seq(Row), NEW j \in DOMAIN rows, Delete(j)
  PROVE  Evolves /\ AddsNone
<1> DEFINE row == [name |-> Deleted, parent |-> rows[j].parent]
<1>1. rows[j] \in Row /\ rows[j].name \in Key
  BY DEF Delete
<1>2. row \in Row
  BY <1>1 DEF Row, Name
<1>3. rows' = [rows EXCEPT ![j] = row]
  BY DEF Delete
<1>4. row.name = Deleted /\ row.parent = rows[j].parent
  OBVIOUS
<1> HIDE DEF row
<1>5. rows' \in Seq(Row) /\ DOMAIN rows' = DOMAIN rows
  BY <1>2, <1>3
<1>6. \A i \in DOMAIN rows : rows'[i] = IF i = j THEN row ELSE rows[i]
  BY <1>3
<1> QED  BY <1>1, <1>4, <1>5, <1>6 DEF Evolves, AddsNone

LEMMA SameEvolves ==
  ASSUME rows \in Seq(Row), UNCHANGED rows
  PROVE  Evolves /\ AddsNone
BY DEF Evolves, AddsNone

LEMMA MeansStays ==
  ASSUME Evolves, NEW i, NEW k \in Key, NEW f, NEW b, NEW c, b \subseteq c,
         MeansIn(rows, i, k, f, b)
  PROVE  MeansIn(rows', i, k, f, c)
BY DEF MeansIn, Evolves

LEMMA FunnelStays ==
  ASSUME Evolves, NEW i \in LiveIn(rows, Funnel, 0)
  PROVE  i \in LiveIn(rows', Funnel, 0)
BY FunnelIsNoKey DEF Evolves, LiveIn

\* What goes by a name was there before the step, or is new.
LEMMA LiveBefore ==
  ASSUME Evolves, NEW k \in Key \cup {Funnel}, NEW f, NEW i \in DOMAIN rows, i \in LiveIn(rows', k, f)
  PROVE  i \in LiveIn(rows, k, f)
BY FunnelIsNoKey DEF Evolves, LiveIn

\* A step that adds no row, or rows of another name or parent, leaves what is missing missing.
LEMMA MissingStays ==
  ASSUME Evolves, NEW k \in Key \cup {Funnel}, NEW f, LiveIn(rows, k, f) = {},
         \A i \in DOMAIN rows' : i \notin DOMAIN rows =>
           rows'[i].name # k \/ rows'[i].parent # Parent(k, f)
  PROVE  LiveIn(rows', k, f) = {}
<1>1. \A i \in LiveIn(rows', k, f) : i \in DOMAIN rows
  BY DEF LiveIn
<1> QED  BY <1>1, LiveBefore

-----------------------------------------------------------------------------
\* Types.

LEMMA NoIdsTyped == NoIds \in Ids /\ NoRun \in Run /\ NotSaved \in Saved /\ Shipped \in Saved
BY DEF NoIds, Ids, NoRun, Run, NotSaved, Shipped, Saved, Part

LEMMA KeysArePart ==
  /\ \A part \in {"stages", "fields"} : Keys(part) \subseteq Key
  /\ \A k \in Key : k \in Keys("stages") <=> k \in Stage
  /\ \A k \in Key : k \in Keys("fields") <=> k \notin Stage
  /\ Keys("fields") = Field /\ Keys("funnel") = {Funnel}
BY StagesAreNoFields DEF Keys, Key

LEMMA OnwardsTyped ==
  ASSUME NEW r \in Run
  PROVE  /\ Onwards(r) \in Run
         /\ Onwards(r).funnel = r.funnel /\ Onwards(r).ids = r.ids /\ Onwards(r).blind = r.blind
         /\ Onwards(r).todo = {} /\ Onwards(r).known = NoIds
         /\ Onwards(r).pc = IF r.part = "stages" THEN "list" ELSE "save"
         /\ Onwards(r).part = "fields"
BY NoIdsTyped DEF Onwards, Run, Part

LEMMA KnowsTyped ==
  ASSUME run \in Run, NEW known \in Ids, NEW blind \in SUBSET Part, Knows(known, blind)
  PROVE  /\ run' \in Run /\ run'.pc = "ensure" /\ run'.part = run.part
         /\ run'.funnel = run.funnel /\ run'.todo = Keys(run.part) /\ run'.known = known
         /\ run'.ids = run.ids /\ run'.blind = blind
<1>1. Keys(run.part) \in SUBSET Key
  BY KeysArePart DEF Run
<1> QED  BY <1>1 DEF Knows, Run

LEMMA WithIdTyped ==
  ASSUME run \in Run, NEW k \in Key, NEW id \in Nat
  PROVE  /\ WithId(k, id) \in Run
         /\ WithId(k, id).ids[k] = id
         /\ \A j \in Key \ {k} : WithId(k, id).ids[j] = run.ids[j]
         /\ WithId(k, id).todo = run.todo \ {k}
         /\ WithId(k, id).pc = run.pc /\ WithId(k, id).part = run.part
         /\ WithId(k, id).funnel = run.funnel /\ WithId(k, id).known = run.known
         /\ WithId(k, id).blind = run.blind
BY DEF WithId, Run, Ids

LEMMA ListingTyped ==
  ASSUME rows \in Seq(Row), NEW listed, NEW parents, NEW known \in Listings(listed, parents)
  PROVE  /\ known \in Ids
         /\ \A k \in Key : known[k] # 0 => k \in listed /\ known[k] \in RowsOf(k, parents)
         /\ \A k \in Key \cap listed : known[k] = 0 => RowsOf(k, parents) = {}
<1>1. DOMAIN rows \subseteq Nat /\ 0 \notin DOMAIN rows
  OBVIOUS
<1>2. \A k \in Key : RowsOf(k, parents) \subseteq DOMAIN rows
  BY DEF RowsOf
<1>3. known \in Ids
  BY <1>1 DEF Listings, Ids
<1>4. ASSUME NEW k \in Key, known[k] # 0
      PROVE  k \in listed /\ known[k] \in RowsOf(k, parents)
  BY <1>4 DEF Listings
<1>5. ASSUME NEW k \in Key \cap listed, known[k] = 0
      PROVE  RowsOf(k, parents) = {}
  BY <1>1, <1>2, <1>5 DEF Listings
<1> QED  BY <1>3, <1>4, <1>5

\* What a run asks for is what its keys are, or fields of any entity.
LEMMA AskedMeans ==
  ASSUME run \in Run, FieldsLast, NEW k \in Keys(run.part), NEW blind,
         run.pc = "listall" => "fields" \in blind
  PROVE  /\ \A i \in RowsOf(k, Asked) : MeansIn(rows, i, k, run.funnel, blind)
         /\ run.pc = "list" => RowsOf(k, Asked) = LiveIn(rows, k, run.funnel)
<1>1. k \in Key /\ run.part \in {"stages", "fields"}
  BY KeysArePart DEF Run
<1>2. CASE run.pc = "listall"
  <2>1. k \in Field /\ k \notin Stage /\ Asked = {0, Elsewhere}
    BY <1>1, <1>2, KeysArePart DEF FieldsLast, Asked
  <2> QED  BY <1>2, <2>1 DEF RowsOf, MeansIn, Parent
<1>3. CASE run.pc # "listall"
  <2>1. Asked = {Parent(k, run.funnel)}
    BY <1>1, <1>3, KeysArePart DEF Asked, Parent
  <2> QED  BY <2>1 DEF RowsOf, MeansIn, LiveIn
<1> QED  BY <1>2, <1>3

-----------------------------------------------------------------------------
\* What a step keeps of the invariant, by what it leaves alone.

LEMMA SavedStays ==
  ASSUME Inductive, Evolves, UNCHANGED <<mapping, env>>
  PROVE  SavedTrue'
<1>1. \A i \in LiveIn(rows, Funnel, 0) : i \in LiveIn(rows', Funnel, 0)
  BY FunnelStays
<1>2. \A k \in Key : mapping.ids[k] # 0 =>
        mapping'.funnel # 0 /\ MeansIn(rows', mapping.ids[k], k, mapping.funnel, mapping.blind)
  BY MeansStays DEF Inductive, SavedTrue
<1> QED  BY <1>1, <1>2 DEF Inductive, SavedTrue

\* An id of the mapping is no row to come.
LEMMA MappedBefore ==
  ASSUME Inductive, Evolves, NEW k \in Key, NEW f, mapping.ids[k] \in LiveIn(rows', k, f)
  PROVE  mapping.ids[k] \in LiveIn(rows, k, f)
<1>1. rows' \in Seq(Row)
  BY DEF Evolves
<1>2. mapping.ids[k] \in DOMAIN rows'
  BY DEF LiveIn
<1>3. mapping.ids[k] # 0
  BY <1>1, <1>2
<1>4. mapping.ids[k] \in DOMAIN rows
  BY <1>3 DEF Inductive, SavedTrue, MeansIn
<1> QED  BY <1>4, LiveBefore

LEMMA RunEnds ==
  ASSUME run' = NoRun
  PROVE  /\ Fresh' /\ NoFunnel' /\ RunInFunnel' /\ RunTrue' /\ TodoInPart' /\ FieldsLast'
         /\ ListedAll' /\ StillMapped'
<1>1. \A k \in Key : NoRun.known[k] = 0 /\ NoRun.ids[k] = 0
  BY DEF NoRun, NoIds
<1>2. NoRun.pc = "off" /\ NoRun.todo = {} /\ NoRun.ids = NoIds /\ NoRun.known = NoIds
       /\ NoRun.part = "stages"
  BY DEF NoRun
<1> QED  BY <1>1, <1>2 DEF Fresh, Early, NoFunnel, RunInFunnel, RunTrue, TodoInPart, FieldsLast,
                           ListedAll, StillMapped, Done

\* A run that goes on in its funnel.
LEMMA RunGoesOn ==
  ASSUME Inductive, Evolves, run.pc \notin Early, run'.pc \notin Early,
         run'.funnel = run.funnel, run.blind \subseteq run'.blind
  PROVE  /\ Fresh' /\ NoFunnel' /\ RunInFunnel'
         /\ \A k \in Key :
              /\ run.known[k] # 0 => MeansIn(rows', run.known[k], k, run.funnel, run'.blind)
              /\ run.ids[k] # 0 => MeansIn(rows', run.ids[k], k, run.funnel, run'.blind)
<1>1. RunInFunnel'
  BY FunnelStays DEF Inductive, RunInFunnel
<1>2. Fresh' /\ NoFunnel'
  BY DEF Fresh, NoFunnel, Early
<1>3. \A k \in Key :
        /\ run.known[k] # 0 => MeansIn(rows', run.known[k], k, run.funnel, run'.blind)
        /\ run.ids[k] # 0 => MeansIn(rows', run.ids[k], k, run.funnel, run'.blind)
  BY MeansStays DEF Inductive, RunTrue
<1> QED  BY <1>1, <1>2, <1>3

LEMMA StillMappedStep ==
  ASSUME Inductive, Evolves, UNCHANGED mapping, run'.funnel = run.funnel,
         \A k \in Key : Done(k)' /\ ~Unlisted(k)' /\ mapping.ids[k] \in LiveIn(rows, k, run.funnel) =>
           run'.ids[k] # 0
  PROVE  StillMapped'
<1> SUFFICES ASSUME NEW k \in Key, Done(k)', ~Unlisted(k)',
                    mapping'.ids[k] \in LiveIn(rows', k, run'.funnel)
             PROVE  run'.ids[k] # 0
  BY DEF StillMapped
<1>1. mapping.ids[k] \in LiveIn(rows, k, run.funnel)
  BY MappedBefore
<1> QED  BY <1>1

LEMMA ListedAllStep ==
  ASSUME Evolves, run'.funnel = run.funnel, run'.todo \subseteq Key,
         run'.pc = "ensure" /\ run'.part \notin run'.blind =>
           \A k \in run'.todo : run'.known[k] = 0 =>
             /\ LiveIn(rows, k, run.funnel) = {}
             /\ \A i \in DOMAIN rows' : i \notin DOMAIN rows =>
                  rows'[i].name # k \/ rows'[i].parent # Parent(k, run.funnel)
  PROVE  ListedAll'
<1> SUFFICES ASSUME run'.pc = "ensure", run'.part \notin run'.blind,
                    NEW k \in run'.todo, run'.known[k] = 0
             PROVE  LiveIn(rows', k, run'.funnel) = {}
  BY DEF ListedAll
<1> QED  BY MissingStays

LEMMA KeyCreated ==
  ASSUME Inductive, NEW k \in Key, rows' = Created(k, run.funnel)
  PROVE  /\ Evolves /\ AddsOnly(k, Parent(k, run.funnel)) /\ NewId \in Nat \ {0}
         /\ \A blind : MeansIn(rows', NewId, k, run.funnel, blind)
<1>1. rows \in Seq(Row) /\ k \in Name /\ run.funnel \in Nat
  BY DEF Inductive, TypeOK, Run, Name
<1>2. Evolves /\ AddsOnly(k, Parent(k, run.funnel)) /\ NewId \in DOMAIN rows'
       /\ rows'[NewId].name = k /\ rows'[NewId].parent = Parent(k, run.funnel)
  BY <1>1, CreatedEvolves
<1> QED  BY <1>1, <1>2 DEF MeansIn, NewId

LEMMA NothingCreated ==
  ASSUME Inductive, UNCHANGED rows
  PROVE  Evolves /\ AddsNone /\ rows' \in Seq(Row)
BY SameEvolves DEF Inductive, TypeOK

-----------------------------------------------------------------------------
\* The steps.

\* A run looks for the funnel, and knows nothing yet.
LEMMA LookingKeeps ==
  ASSUME Inductive, UNCHANGED <<rows, mapping, env>>, failures' \in Nat, run' \in Run,
         run'.pc \in {"funnel", "newfunnel"}, run'.ids = NoIds, run'.known = NoIds,
         run'.todo \subseteq Keys("stages"), run'.part = "stages",
         run'.pc = "newfunnel" /\ "funnel" \notin run'.blind => LiveIn(rows, Funnel, 0) = {}
  PROVE  Inductive'
<1>1. Evolves
  BY NothingCreated
<1>2. SavedTrue'
  BY <1>1, SavedStays
<1>3. \A k \in Key : run'.ids[k] = 0 /\ run'.known[k] = 0
  BY DEF NoIds
<1>4. TypeOK'
  BY DEF Inductive, TypeOK
<1> QED  BY <1>1, <1>2, <1>3, <1>4
     DEF Inductive, Fresh, NoFunnel, Early, RunInFunnel, RunTrue, TodoInPart, FieldsLast,
         ListedAll, StillMapped, Done

LEMMA StartKeeps == Inductive /\ Start => Inductive'
<1> SUFFICES ASSUME Inductive, Start PROVE Inductive'
  OBVIOUS
<1>1. /\ run' \in Run /\ run'.pc = "funnel" /\ run'.ids = NoIds /\ run'.known = NoIds
      /\ run'.todo = {} /\ run'.part = "stages"
  BY NoIdsTyped DEF Start, NoRun, Run
<1>2. failures' \in Nat
  BY DEF Inductive, TypeOK, Start
<1> QED  BY <1>1, <1>2, LookingKeeps DEF Start

\* A run that has looked for the funnel knows nothing else.
LEMMA EarlyRun ==
  ASSUME Inductive, run.pc \in Early
  PROVE  /\ run \in Run /\ rows \in Seq(Row) /\ run.ids = NoIds /\ run.known = NoIds
         /\ run.part = "stages"
         /\ run.todo \subseteq Keys("stages")
BY DEF Inductive, TypeOK, Fresh, TodoInPart

LEMMA LookedKeeps ==
  ASSUME Inductive, run.pc = "funnel", UNCHANGED <<rows, mapping, env>>, failures' \in Nat,
         NEW blind \in SUBSET Part, "funnel" \notin blind => LiveIn(rows, Funnel, 0) = {},
         run' = [run EXCEPT !.pc = "newfunnel", !.blind = blind]
  PROVE  Inductive'
<1>1. /\ run \in Run /\ run.ids = NoIds /\ run.known = NoIds /\ run.part = "stages"
      /\ run.todo \subseteq Keys("stages")
  BY EarlyRun DEF Early
<1>2. /\ run' \in Run /\ run'.pc = "newfunnel" /\ run'.ids = NoIds /\ run'.known = NoIds
      /\ run'.todo = run.todo /\ run'.part = "stages" /\ run'.blind = blind
  BY <1>1 DEF Run
<1> QED  BY <1>1, <1>2, LookingKeeps

\* The run has its funnel.
LEMMA InFunnelKeeps ==
  ASSUME Inductive, run.pc \in Early, Evolves, UNCHANGED <<mapping, env>>, failures' \in Nat,
         NEW f \in LiveIn(rows', Funnel, 0), run' = WithFunnel(f)
  PROVE  Inductive'
<1>1. /\ run \in Run /\ rows' \in Seq(Row) /\ run.ids = NoIds /\ run.known = NoIds
      /\ run.part = "stages" /\ run.todo \subseteq Keys("stages")
  BY EarlyRun DEF Evolves
<1>2. f \in Nat
  BY <1>1 DEF LiveIn
<1>3. /\ run' \in Run /\ run'.pc = "list" /\ run'.part = "stages" /\ run'.funnel = f
      /\ run'.todo = run.todo /\ run'.ids = NoIds /\ run'.known = NoIds
  BY <1>1, <1>2 DEF WithFunnel, Run
<1>4. SavedTrue'
  BY SavedStays
<1>5. TypeOK'
  BY <1>1, <1>3 DEF Inductive, TypeOK
<1>6. \A k \in Key : run'.ids[k] = 0 /\ run'.known[k] = 0
  BY <1>3 DEF NoIds
<1> QED  BY <1>1, <1>3, <1>4, <1>5, <1>6
     DEF Inductive, Fresh, NoFunnel, Early, RunInFunnel, RunTrue, TodoInPart, FieldsLast,
         ListedAll, StillMapped, Done

LEMMA EnsureFunnelKeeps == Inductive /\ EnsureFunnel => Inductive'
<1> SUFFICES ASSUME Inductive, EnsureFunnel PROVE Inductive'
  OBVIOUS
<1>1. /\ run.pc = "funnel" /\ UNCHANGED <<rows, mapping, env>> /\ failures' \in Nat
      /\ run \in Run
  BY DEF Inductive, TypeOK, EnsureFunnel
<1>2. ASSUME NEW f \in IdsOf(Funnel, 0), run' = WithFunnel(f)
      PROVE  Inductive'
  <2>1. Evolves /\ f \in LiveIn(rows', Funnel, 0)
    BY <1>1, <1>2, NothingCreated, IdsAreLive
  <2> QED  BY <1>1, <1>2, <2>1, InFunnelKeeps DEF Early
<1>3. CASE IdsOf(Funnel, 0) = {} /\ run' = [run EXCEPT !.pc = "newfunnel"]
  <2>1. run' = [run EXCEPT !.pc = "newfunnel", !.blind = run.blind] /\ run.blind \in SUBSET Part
    BY <1>1, <1>3 DEF Run
  <2> QED  BY <1>1, <1>3, <2>1, IdsAreLive, LookedKeeps
<1> QED  BY <1>2, <1>3 DEF EnsureFunnel

LEMMA FunnelNotListedKeeps == Inductive /\ FunnelNotListed => Inductive'
<1> SUFFICES ASSUME Inductive, FunnelNotListed PROVE Inductive'
  OBVIOUS
<1>1. failures' \in Nat /\ {"funnel"} \in SUBSET Part
  BY DEF Inductive, TypeOK, FunnelNotListed, Fails, Part
<1> QED  BY <1>1, LookedKeeps DEF FunnelNotListed

LEMMA FunnelCreated ==
  ASSUME Inductive, rows' = Created(Funnel, 0)
  PROVE  Evolves /\ AddsOnly(Funnel, 0) /\ NewId \in LiveIn(rows', Funnel, 0)
<1>1. Parent(Funnel, 0) = 0
  BY DEF Parent
<1>2. rows \in Seq(Row) /\ Funnel \in Name
  BY DEF Inductive, TypeOK, Name
<1> QED  BY <1>1, <1>2, CreatedEvolves DEF LiveIn

LEMMA NewFunnelKeeps == Inductive /\ NewFunnel => Inductive'
<1> SUFFICES ASSUME Inductive, NewFunnel PROVE Inductive'
  OBVIOUS
<1>1. Evolves /\ NewId \in LiveIn(rows', Funnel, 0)
  BY FunnelCreated DEF NewFunnel
<1>2. failures' \in Nat /\ run.pc \in Early
  BY DEF Inductive, TypeOK, NewFunnel, Early
<1> QED  BY <1>1, <1>2, InFunnelKeeps DEF NewFunnel

\* Between the funnel and the end a run's ids stay true.
LEMMA ListingKeeps ==
  ASSUME Inductive, UNCHANGED <<rows, mapping, env>>, failures' \in Nat, run' \in Run,
         run.pc \notin Early, run'.pc \notin Early,
         run'.funnel = run.funnel, run'.ids = run.ids, run.blind \subseteq run'.blind,
         run'.todo \subseteq Keys(run'.part),
         run'.pc \in {"listall", "save"} => run'.part = "fields",
         \A k \in Key : run'.known[k] # 0 => MeansIn(rows, run'.known[k], k, run.funnel, run'.blind),
         run'.pc = "ensure" /\ run'.part \notin run'.blind =>
           \A k \in run'.todo : run'.known[k] = 0 => LiveIn(rows, k, run.funnel) = {},
         \A k \in Key : Done(k)' /\ ~Unlisted(k)' => Done(k) /\ ~Unlisted(k)
  PROVE  Inductive'
<1>1. Evolves /\ AddsNone /\ rows' \in Seq(Row)
  BY NothingCreated
<1>2. SavedTrue'
  BY <1>1, SavedStays
<1>3. /\ Fresh' /\ NoFunnel' /\ RunInFunnel'
      /\ \A k \in Key : run.ids[k] # 0 => MeansIn(rows', run.ids[k], k, run.funnel, run'.blind)
  BY <1>1, RunGoesOn
<1>4. RunTrue'
  BY <1>3 DEF RunTrue
<1>5. run'.todo \subseteq Key
  BY KeysArePart DEF Run
<1>6. ListedAll'
  BY <1>1, <1>5, ListedAllStep DEF AddsNone
<1>7. StillMapped'
  BY <1>1, StillMappedStep DEF Inductive, StillMapped
<1>8. TypeOK'
  BY <1>1 DEF Inductive, TypeOK
<1> QED  BY <1>1, <1>2, <1>3, <1>4, <1>6, <1>7, <1>8 DEF Inductive, TodoInPart, FieldsLast

\* A reply has come, with these rows, or none.
LEMMA KnowsKeeps ==
  ASSUME Inductive, run.pc \in {"list", "listall"}, UNCHANGED <<rows, mapping, env>>,
         failures' \in Nat, NEW known \in Ids, NEW blind \in SUBSET Part, Knows(known, blind),
         run.blind \subseteq blind,
         \A k \in Key : known[k] # 0 => MeansIn(rows, known[k], k, run.funnel, blind),
         run.part \notin blind =>
           \A k \in Keys(run.part) : known[k] = 0 => LiveIn(rows, k, run.funnel) = {}
  PROVE  Inductive'
<1>1. run \in Run /\ run.part \in {"stages", "fields"}
  BY DEF Inductive, TypeOK, Run
<1>2. /\ run' \in Run /\ run'.pc = "ensure" /\ run'.part = run.part
      /\ run'.funnel = run.funnel /\ run'.todo = Keys(run.part) /\ run'.known = known
      /\ run'.ids = run.ids /\ run'.blind = blind
  BY <1>1, KnowsTyped
<1>3. \A k \in Key : Done(k)' /\ ~Unlisted(k)' => Done(k) /\ ~Unlisted(k)
  BY <1>2 DEF Done, Unlisted
<1>4. run.pc \notin Early /\ run'.pc \notin Early
  BY <1>2 DEF Early
<1> QED  BY <1>2, <1>3, <1>4, ListingKeeps

\* A reply with rows in it.
LEMMA ReplyKeeps ==
  ASSUME Inductive, run.pc \in {"list", "listall"}, UNCHANGED <<rows, mapping, env>>,
         failures' \in Nat, NEW listed \in SUBSET Keys(run.part),
         NEW known \in Listings(listed, Asked), NEW blind \in SUBSET Part, Knows(known, blind),
         run.blind \subseteq blind, run.pc = "listall" => "fields" \in blind,
         run.part \notin blind => listed = Keys(run.part)
  PROVE  Inductive'
<1>1. /\ rows \in Seq(Row) /\ run \in Run /\ run.part \in {"stages", "fields"} /\ FieldsLast
  BY DEF Inductive, TypeOK, Run
<1>2. /\ known \in Ids
      /\ \A k \in Key : known[k] # 0 => k \in listed /\ known[k] \in RowsOf(k, Asked)
      /\ \A k \in Key \cap listed : known[k] = 0 => RowsOf(k, Asked) = {}
  BY <1>1, ListingTyped
<1>3. \A k \in Key : known[k] # 0 => MeansIn(rows, known[k], k, run.funnel, blind)
  BY <1>1, <1>2, AskedMeans
<1>4. ASSUME run.part \notin blind, NEW k \in Keys(run.part), known[k] = 0
      PROVE  LiveIn(rows, k, run.funnel) = {}
  <2>1. run.pc = "list"
    BY <1>1, <1>4 DEF FieldsLast
  <2>2. k \in Key \cap listed
    BY <1>1, <1>4, KeysArePart
  <2> QED  BY <1>1, <1>2, <1>4, <2>1, <2>2, AskedMeans
<1> QED  BY <1>2, <1>3, <1>4, KnowsKeeps

LEMMA ListKeeps == Inductive /\ (List \/ ListAll) => Inductive'
<1> SUFFICES ASSUME Inductive, List \/ ListAll PROVE Inductive'
  OBVIOUS
<1>1. /\ run \in Run /\ failures' \in Nat /\ UNCHANGED <<rows, mapping, env>>
      /\ run.blind \in SUBSET Part /\ FieldsLast
  BY DEF Inductive, TypeOK, Run, List, ListAll
<1>2. CASE List
  <2>1. PICK known \in Listings(Keys(run.part), Asked) : Knows(known, run.blind)
    BY <1>2 DEF List
  <2>2. run.pc = "list"
    BY <1>2 DEF List
  <2> QED  BY <1>1, <2>1, <2>2, ReplyKeeps
<1>3. CASE ListAll
  <2>1. run.pc = "listall" /\ run.part = "fields" /\ Keys("fields") = Field
    BY <1>1, <1>3, KeysArePart DEF ListAll, FieldsLast
  <2>2. PICK known \in Listings(Keys(run.part), Asked) : Knows(known, run.blind \cup {"fields"})
    BY <1>3, <2>1 DEF ListAll
  <2>3. run.blind \cup {"fields"} \in SUBSET Part
    BY <1>1 DEF Part
  <2> QED  BY <1>1, <2>1, <2>2, <2>3, ReplyKeeps
<1> QED  BY <1>2, <1>3

LEMMA ListCutKeeps == Inductive /\ ListCut => Inductive'
<1> SUFFICES ASSUME Inductive, ListCut PROVE Inductive'
  OBVIOUS
<1>1. /\ run \in Run /\ failures' \in Nat /\ UNCHANGED <<rows, mapping, env>>
      /\ run.pc \in {"list", "listall"} /\ FieldsLast
  BY DEF Inductive, TypeOK, ListCut, Fails
<1>2. PICK listed \in SUBSET Keys(run.part) : \E known \in Listings(listed, Asked) :
        Knows(known, run.blind \cup {run.part})
  BY DEF ListCut
<1>3. PICK known \in Listings(listed, Asked) : Knows(known, run.blind \cup {run.part})
  BY <1>2
<1>4. run.blind \cup {run.part} \in SUBSET Part
  BY <1>1 DEF Run, Part
<1> QED  BY <1>1, <1>3, <1>4, ReplyKeeps DEF FieldsLast

LEMMA FieldsRefusedKeeps == Inductive /\ FieldsRefused => Inductive'
<1> SUFFICES ASSUME Inductive, FieldsRefused PROVE Inductive'
  OBVIOUS
<1>1. /\ run \in Run /\ failures' \in Nat /\ run.pc = "listall" /\ run.part = "fields"
      /\ UNCHANGED <<rows, mapping, env>> /\ Knows(NoIds, run.blind \cup {"fields"})
  BY DEF Inductive, TypeOK, FieldsRefused, Fails, FieldsLast
<1>2. NoIds \in Ids /\ run.blind \cup {"fields"} \in SUBSET Part /\ \A k \in Key : NoIds[k] = 0
  BY <1>1, NoIdsTyped DEF Run, Part, NoIds
<1> QED  BY <1>1, <1>2, KnowsKeeps

LEMMA AsksForAllKeeps == Inductive /\ AsksForAll => Inductive'
<1> SUFFICES ASSUME Inductive, AsksForAll PROVE Inductive'
  OBVIOUS
<1>1. /\ run \in Run /\ failures' \in Nat /\ run.pc = "list" /\ run.part = "fields"
      /\ UNCHANGED <<rows, mapping, env>> /\ RunTrue /\ TodoInPart
  BY DEF Inductive, TypeOK, AsksForAll
<1>2. /\ run' \in Run /\ run'.pc = "listall" /\ run'.part = run.part
      /\ run'.funnel = run.funnel /\ run'.todo = run.todo /\ run'.known = run.known
      /\ run'.ids = run.ids /\ run'.blind = run.blind
  BY <1>1 DEF AsksForAll, Run
<1>3. \A k \in Key : Done(k)' /\ ~Unlisted(k)' => Done(k) /\ ~Unlisted(k)
  BY <1>1, <1>2 DEF Done, Unlisted
<1>4. run.pc \notin Early /\ run'.pc \notin Early
  BY <1>1, <1>2 DEF Early
<1> QED  BY <1>1, <1>2, <1>3, <1>4, ListingKeeps DEF RunTrue, TodoInPart

LEMMA StagesRefusedKeeps == Inductive /\ StagesRefused => Inductive'
<1> SUFFICES ASSUME Inductive, StagesRefused PROVE Inductive'
  OBVIOUS
<1> DEFINE r == [run EXCEPT !.blind = run.blind \cup {"stages"}]
<1>1. run \in Run /\ failures' \in Nat
  BY DEF Inductive, TypeOK, StagesRefused, Fails
<1>2. /\ r \in Run /\ r.part = "stages" /\ r.funnel = run.funnel /\ r.ids = run.ids
      /\ r.blind = run.blind \cup {"stages"}
  BY <1>1 DEF Run, Part, StagesRefused
<1>3. run' = Onwards(r)
  BY DEF StagesRefused
<1> HIDE DEF r
<1>4. /\ run' \in Run /\ run'.pc = "list" /\ run'.part = "fields" /\ run'.funnel = run.funnel
      /\ run'.todo = {} /\ run'.known = NoIds /\ run'.ids = run.ids
      /\ run'.blind = run.blind \cup {"stages"}
  BY <1>2, <1>3, OnwardsTyped
<1>5. run.pc = "list" /\ UNCHANGED <<rows, mapping, env>>
  BY DEF StagesRefused
<1>6. \A k \in Key : Done(k)' /\ ~Unlisted(k)' => Done(k) /\ ~Unlisted(k)
  BY <1>4, KeysArePart DEF Done, Unlisted
<1>7. \A k \in Key : run'.known[k] = 0
  BY <1>4 DEF NoIds
<1>8. run.pc \notin Early /\ run'.pc \notin Early
  BY <1>4, <1>5 DEF Early
<1> QED  BY <1>1, <1>4, <1>5, <1>6, <1>7, <1>8, ListingKeeps

LEMMA AllEnsuredKeeps == Inductive /\ AllEnsured => Inductive'
<1> SUFFICES ASSUME Inductive, AllEnsured PROVE Inductive'
  OBVIOUS
<1>1. run \in Run /\ failures' \in Nat /\ run.part \in {"stages", "fields"}
  BY DEF Inductive, TypeOK, AllEnsured, Run
<1>2. run.pc = "ensure" /\ run.todo = {} /\ UNCHANGED <<rows, mapping, env>> /\ run' = Onwards(run)
  BY DEF AllEnsured
<1>3. /\ run' \in Run /\ run'.pc \in {"list", "save"} /\ run'.part = "fields" /\ run'.funnel = run.funnel
      /\ run'.todo = {} /\ run'.known = NoIds /\ run'.ids = run.ids /\ run'.blind = run.blind
      /\ run'.pc = "save" => run.part # "stages"
  BY <1>1, <1>2, OnwardsTyped
<1>4. ASSUME NEW k \in Key, Done(k)', ~Unlisted(k)'
      PROVE  Done(k) /\ ~Unlisted(k)
  <2>1. ~Unlisted(k)
    BY <1>3, <1>4 DEF Unlisted
  <2>2. CASE run.part = "stages"
    <3>1. run'.pc = "list"
      BY <1>1, <1>2, <2>2, OnwardsTyped
    <3>2. k \in Stage
      BY <1>3, <1>4, <3>1 DEF Done
    <3> QED  BY <1>2, <2>1, <2>2, <3>2, KeysArePart DEF Done
  <2>3. CASE run.part = "fields"
    <3>1. k \in Stage \/ k \in Keys("fields")
      BY KeysArePart
    <3> QED  BY <1>2, <2>1, <2>3, <3>1 DEF Done
  <2> QED  BY <1>1, <2>2, <2>3
<1>5. \A k \in Key : run'.known[k] = 0
  BY <1>3 DEF NoIds
<1>6. run.pc \notin Early /\ run'.pc \notin Early
  BY <1>2, <1>3 DEF Early
<1> QED  BY <1>1, <1>2, <1>3, <1>4, <1>5, <1>6, ListingKeeps

\* A run deals with the key k: its id is known, given, or left out.
LEMMA DealtWith ==
  ASSUME Inductive, NEW k \in run.todo, Evolves, UNCHANGED <<mapping, env>>,
         \A i \in DOMAIN rows' : i \notin DOMAIN rows => rows'[i].name = k,
         failures' \in Nat, run.pc = "ensure", run'.pc = "ensure", run' \in Run,
         run'.part = run.part, run'.funnel = run.funnel, run'.known = run.known,
         run'.blind = run.blind, run'.todo = run.todo \ {k},
         \A j \in Key \ {k} : run'.ids[j] = run.ids[j],
         run'.ids[k] # 0 => MeansIn(rows', run'.ids[k], k, run.funnel, run.blind),
         run'.ids[k] # 0 \/ run.known[k] = 0
  PROVE  Inductive'
<1>1. /\ rows' \in Seq(Row) /\ k \in Key /\ run.part \in {"stages", "fields"}
      /\ run.todo \subseteq Keys(run.part)
  BY DEF Evolves, Inductive, TypeOK, Run, TodoInPart
<1>2. SavedTrue'
  BY SavedStays
<1>3. /\ Fresh' /\ NoFunnel' /\ RunInFunnel'
      /\ \A j \in Key : /\ run.known[j] # 0 => MeansIn(rows', run.known[j], j, run.funnel, run.blind)
                        /\ run.ids[j] # 0 => MeansIn(rows', run.ids[j], j, run.funnel, run.blind)
  BY RunGoesOn DEF Early
<1>4. \A j \in Key : run'.ids[j] # 0 => MeansIn(rows', run'.ids[j], j, run.funnel, run.blind)
  BY <1>3
<1>5. RunTrue'
  BY <1>3, <1>4 DEF RunTrue
<1>6. run'.todo \subseteq Key
  BY DEF Run
<1>7. ListedAll'
  <2>1. ASSUME run.part \notin run.blind, NEW j \in run'.todo, run'.known[j] = 0
        PROVE  /\ LiveIn(rows, j, run.funnel) = {}
               /\ \A i \in DOMAIN rows' : i \notin DOMAIN rows => rows'[i].name # j
    BY <2>1 DEF Inductive, ListedAll
  <2> QED  BY <1>6, <2>1, ListedAllStep
<1>8. StillMapped'
  <2>1. ASSUME NEW j \in Key, Done(j)', ~Unlisted(j)', mapping.ids[j] \in LiveIn(rows, j, run.funnel)
        PROVE  run'.ids[j] # 0
    <3>1. ~Unlisted(j)
      BY <2>1 DEF Unlisted
    <3>2. CASE j # k
      <4>1. Done(j)
        BY <2>1, <3>2 DEF Done
      <4> QED  BY <2>1, <3>1, <3>2, <4>1 DEF Inductive, StillMapped
    <3>3. CASE j = k
      <4>1. run.part \notin run.blind
        BY <1>1, <3>1, <3>3 DEF Unlisted
      <4>2. run.known[k] = 0 => LiveIn(rows, k, run.funnel) = {}
        BY <4>1 DEF Inductive, ListedAll
      <4> QED  BY <2>1, <3>3, <4>2
    <3> QED  BY <3>2, <3>3
  <2> QED  BY <2>1, StillMappedStep
<1>9. TypeOK'
  BY <1>1 DEF Inductive, TypeOK
<1> QED  BY <1>1, <1>2, <1>3, <1>5, <1>7, <1>8, <1>9 DEF Inductive, TodoInPart, FieldsLast

LEMMA ExistsKeeps == ASSUME NEW k \in Key PROVE Inductive /\ Exists(k) => Inductive'
<1> SUFFICES ASSUME Inductive, Exists(k) PROVE Inductive'
  OBVIOUS
<1>1. run \in Run /\ run.known[k] \in Nat /\ failures' \in Nat
  BY DEF Inductive, TypeOK, Run, Ids, Exists
<1>2. /\ k \in run.todo /\ run.pc = "ensure" /\ run.known[k] # 0
      /\ UNCHANGED <<rows, mapping, env>> /\ run' = WithId(k, run.known[k])
  BY DEF Exists, Turn
<1>3. Evolves /\ \A i \in DOMAIN rows' : i \in DOMAIN rows
  BY <1>2, NothingCreated DEF AddsNone
<1>4. /\ run' \in Run /\ run'.ids[k] = run.known[k] /\ run'.pc = run.pc
      /\ \A j \in Key \ {k} : run'.ids[j] = run.ids[j]
      /\ run'.todo = run.todo \ {k} /\ run'.part = run.part /\ run'.funnel = run.funnel
      /\ run'.known = run.known /\ run'.blind = run.blind
  BY <1>1, <1>2, WithIdTyped
<1>5. MeansIn(rows', run.known[k], k, run.funnel, run.blind)
  BY <1>2, <1>3, <1>4, RunGoesOn DEF Early
<1> QED  BY <1>1, <1>2, <1>3, <1>4, <1>5, DealtWith

LEMMA CreateKeeps == ASSUME NEW k \in Key PROVE Inductive /\ Create(k) => Inductive'
<1> SUFFICES ASSUME Inductive, Create(k) PROVE Inductive'
  OBVIOUS
<1>1. run \in Run /\ failures' \in Nat
  BY DEF Inductive, TypeOK, Create
<1>2. /\ k \in run.todo /\ run.pc = "ensure" /\ run.known[k] = 0
      /\ UNCHANGED <<mapping, env>> /\ rows' = Created(k, run.funnel) /\ run' = WithId(k, NewId)
  BY DEF Create, Missing, Turn
<1>3. /\ Evolves /\ AddsOnly(k, Parent(k, run.funnel)) /\ NewId \in Nat \ {0}
      /\ MeansIn(rows', NewId, k, run.funnel, run.blind)
  BY <1>2, KeyCreated
<1>4. /\ run' \in Run /\ run'.ids[k] = NewId /\ run'.pc = run.pc
      /\ \A j \in Key \ {k} : run'.ids[j] = run.ids[j]
      /\ run'.todo = run.todo \ {k} /\ run'.part = run.part /\ run'.funnel = run.funnel
      /\ run'.known = run.known /\ run'.blind = run.blind
  BY <1>1, <1>2, <1>3, WithIdTyped
<1>5. \A i \in DOMAIN rows' : i \notin DOMAIN rows => rows'[i].name = k
  BY <1>3 DEF AddsOnly
<1> QED  BY <1>1, <1>2, <1>3, <1>4, <1>5, DealtWith

LEMMA LeftOutKeeps ==
  ASSUME NEW k \in Key
  PROVE  Inductive /\ (FieldRefused(k) \/ StageRefused(k) \/ NoIdInReply(k)) => Inductive'
<1> SUFFICES ASSUME Inductive, FieldRefused(k) \/ StageRefused(k) \/ NoIdInReply(k)
             PROVE  Inductive'
  OBVIOUS
<1>1. run \in Run /\ failures' \in Nat
  BY DEF Inductive, TypeOK, FieldRefused, StageRefused, NoIdInReply, Fails
<1>2. /\ k \in run.todo /\ run.pc = "ensure" /\ run.known[k] = 0
      /\ UNCHANGED <<mapping, env>> /\ run' = [run EXCEPT !.todo = run.todo \ {k}]
      /\ UNCHANGED rows \/ rows' = Created(k, run.funnel)
  BY DEF FieldRefused, StageRefused, NoIdInReply, LeftOut, Missing, Turn
<1>3. /\ Evolves
      /\ \A i \in DOMAIN rows' : i \notin DOMAIN rows => rows'[i].name = k
  BY <1>2, KeyCreated, NothingCreated DEF AddsOnly, AddsNone
<1>4. /\ run' \in Run /\ run'.ids = run.ids /\ run'.pc = run.pc
      /\ run'.todo = run.todo \ {k} /\ run'.part = run.part /\ run'.funnel = run.funnel
      /\ run'.known = run.known /\ run'.blind = run.blind
  BY <1>1, <1>2 DEF Run
<1>5. run.ids[k] # 0 => MeansIn(rows', run.ids[k], k, run.funnel, run.blind)
  BY <1>2, <1>3, <1>4, RunGoesOn DEF Early
<1> QED  BY <1>1, <1>2, <1>3, <1>4, <1>5, DealtWith

LEMMA SaveKeeps == Inductive /\ SaveMapping => Inductive'
<1> SUFFICES ASSUME Inductive, SaveMapping PROVE Inductive'
  OBVIOUS
<1>1. Evolves /\ rows' \in Seq(Row)
  BY NothingCreated DEF SaveMapping
<1>2. /\ run \in Run /\ run.pc = "save" /\ UNCHANGED <<rows, env, failures>>
      /\ run.part = "fields"
  BY DEF Inductive, TypeOK, SaveMapping, FieldsLast
<1>3. /\ run' \in Run /\ run'.pc = "patch" /\ run'.part = run.part /\ run'.funnel = run.funnel
      /\ run'.todo = run.todo /\ run'.known = run.known /\ run'.ids = run.ids
      /\ run'.blind = run.blind
  BY <1>2 DEF SaveMapping, Run
<1>4. /\ mapping'.funnel = run.funnel /\ mapping'.ids = run.ids /\ mapping'.blind = run.blind
      /\ mapping' \in Saved
  BY <1>2 DEF SaveMapping, Saved, Run
<1>5. /\ Fresh' /\ NoFunnel' /\ RunInFunnel'
      /\ \A k \in Key : /\ run.known[k] # 0 => MeansIn(rows', run.known[k], k, run.funnel, run.blind)
                        /\ run.ids[k] # 0 => MeansIn(rows', run.ids[k], k, run.funnel, run.blind)
  BY <1>1, <1>2, <1>3, RunGoesOn DEF Early
<1>6. RunTrue'
  BY <1>3, <1>5 DEF RunTrue
<1>7. run.funnel \in LiveIn(rows, Funnel, 0) /\ run.funnel # 0
  BY <1>2 DEF Inductive, TypeOK, RunInFunnel, LiveIn, Early
<1>8. SavedTrue'
  BY <1>2, <1>4, <1>5, <1>7 DEF Inductive, SavedTrue
<1>9. TypeOK'
  BY <1>1, <1>2, <1>3, <1>4 DEF Inductive, TypeOK
<1> QED  BY <1>1, <1>2, <1>3, <1>5, <1>6, <1>8, <1>9
     DEF Inductive, TodoInPart, FieldsLast, ListedAll, StillMapped, Done

\* A run ends, whatever it has created and written.
LEMMA EndKeeps ==
  ASSUME Inductive, run' = NoRun, Evolves, failures' \in Nat,
         UNCHANGED mapping \/ mapping' = NotSaved,
         env' \in {env, CutShort} \/ (env' = run.funnel /\ run.pc = "patch")
  PROVE  Inductive'
<1>1. rows' \in Seq(Row) /\ run.funnel \in Nat
  BY DEF Evolves, Inductive, TypeOK, Run
<1>2. \A i \in LiveIn(rows, Funnel, 0) : i \in LiveIn(rows', Funnel, 0)
  BY FunnelStays
<1>3. env' \notin {0, CutShort} => env' \in LiveIn(rows', Funnel, 0)
  <2>1. CASE env' = env
    BY <1>2, <2>1 DEF Inductive, SavedTrue
  <2>2. CASE env' = run.funnel /\ run.pc = "patch"
    BY <1>2, <2>2 DEF Inductive, RunInFunnel, Early
  <2> QED  BY <2>1, <2>2
<1>4. /\ mapping'.funnel # 0 => mapping'.funnel \in LiveIn(rows', Funnel, 0)
      /\ \A k \in Key : mapping'.ids[k] # 0 =>
           /\ mapping'.funnel # 0
           /\ MeansIn(rows', mapping'.ids[k], k, mapping'.funnel, mapping'.blind)
  <2>1. CASE UNCHANGED mapping
    BY <1>2, <2>1, MeansStays DEF Inductive, SavedTrue
  <2>2. CASE mapping' = NotSaved
    BY <2>2 DEF NotSaved, NoIds
  <2> QED  BY <2>1, <2>2
<1>5. SavedTrue'
  BY <1>3, <1>4 DEF SavedTrue
<1>6. TypeOK'
  BY <1>1, NoIdsTyped DEF Inductive, TypeOK
<1> QED  BY <1>5, <1>6, RunEnds DEF Inductive

LEMMA PatchKeeps == Inductive /\ PatchEnv => Inductive'
<1> SUFFICES ASSUME Inductive, PatchEnv PROVE Inductive'
  OBVIOUS
<1>1. Evolves /\ failures' \in Nat
  BY NothingCreated DEF PatchEnv, Inductive, TypeOK
<1> QED  BY <1>1, EndKeeps DEF PatchEnv

LEMMA DeathKeeps == Inductive /\ (Dies \/ DiesWriting \/ ReplyLost) => Inductive'
<1> SUFFICES ASSUME Inductive, Dies \/ DiesWriting \/ ReplyLost PROVE Inductive'
  OBVIOUS
<1>1. failures' \in Nat /\ run' = NoRun
  BY DEF Inductive, TypeOK, Dies, DiesWriting, ReplyLost, Fails
<1>2. Evolves
  <2>1. CASE UNCHANGED rows
    BY <2>1, NothingCreated
  <2>2. ASSUME NEW k \in Key, rows' = Created(k, run.funnel)
        PROVE  Evolves
    BY <2>2, KeyCreated
  <2>3. CASE rows' = Created(Funnel, 0)
    BY <2>3, FunnelCreated
  <2> QED  BY <2>1, <2>2, <2>3 DEF Dies, DiesWriting, ReplyLost
<1>3. /\ UNCHANGED mapping \/ mapping' = NotSaved
      /\ env' = env \/ env' = CutShort
  BY DEF Dies, DiesWriting, ReplyLost
<1> QED  BY <1>1, <1>2, <1>3, EndKeeps

\* What users do, or no step at all: no run makes its keys, and none reads what it made.
LEMMA RunUntouched ==
  ASSUME Inductive, UNCHANGED <<run, mapping, env>>, failures' \in Nat, Evolves,
         \A i \in DOMAIN rows' : i \notin DOMAIN rows =>
           rows'[i].name # Funnel /\ (run.pc = "off" \/ rows'[i].parent = Elsewhere)
  PROVE  Inductive'
<1>1. SavedTrue'
  BY SavedStays
<1>2. RunInFunnel'
  BY FunnelStays DEF Inductive, RunInFunnel
<1>3. NoFunnel'
  BY MissingStays DEF Inductive, NoFunnel
<1>4. RunTrue'
  <2>1. run.blind \subseteq run.blind
    OBVIOUS
  <2> QED  BY <2>1, MeansStays DEF Inductive, RunTrue
<1>5. ListedAll'
  <2>1. run'.todo \subseteq Key /\ run.funnel \in Nat
    BY DEF Inductive, TypeOK, Run
  <2>2. \A k \in Key : Parent(k, run.funnel) # Elsewhere
    BY <2>1 DEF Parent, Elsewhere
  <2> QED  BY <2>1, <2>2, ListedAllStep DEF Inductive, ListedAll
<1>6. StillMapped'
  BY StillMappedStep DEF Inductive, StillMapped, Done, Unlisted
<1>7. TypeOK'
  BY DEF Inductive, TypeOK, Evolves
<1> QED  BY <1>1, <1>2, <1>3, <1>4, <1>5, <1>6, <1>7
     DEF Inductive, Fresh, TodoInPart, FieldsLast

LEMMA DeleteKeeps == ASSUME NEW i \in DOMAIN rows PROVE Inductive /\ Delete(i) => Inductive'
<1> SUFFICES ASSUME Inductive, Delete(i) PROVE Inductive'
  OBVIOUS
<1>1. Evolves /\ AddsNone
  BY DeletedEvolves DEF Inductive, TypeOK
<1>2. failures' \in Nat
  BY DEF Inductive, TypeOK, Delete, Fails
<1> QED  BY <1>1, <1>2, RunUntouched DEF Delete, AddsNone

LEMMA UserAddsKeeps ==
  ASSUME NEW k \in Field, NEW parent \in {0, Elsewhere}
  PROVE  Inductive /\ UserAdds(k, parent) => Inductive'
<1> SUFFICES ASSUME Inductive, UserAdds(k, parent) PROVE Inductive'
  OBVIOUS
<1>1. rows \in Seq(Row) /\ failures' \in Nat /\ k \in Name /\ k # Funnel
  BY FunnelIsNoKey DEF Inductive, TypeOK, UserAdds, Fails, Name, Key
<1>2. Evolves /\ AddsOnly(k, parent)
  BY <1>1, AppendEvolves DEF UserAdds
<1> QED  BY <1>1, <1>2, RunUntouched DEF UserAdds, AddsOnly

LEMMA StutterKeeps == Inductive /\ UNCHANGED vars => Inductive'
<1> SUFFICES ASSUME Inductive, UNCHANGED vars PROVE Inductive'
  OBVIOUS
<1>1. Evolves /\ AddsNone
  BY SameEvolves DEF Inductive, TypeOK, vars
<1> QED  BY <1>1, RunUntouched DEF vars, Inductive, TypeOK, AddsNone

LEMMA InitInductive == Init => Inductive
<1> SUFFICES ASSUME Init PROVE Inductive
  OBVIOUS
<1>1. TypeOK
  BY NoIdsTyped DEF Init, TypeOK, CutShort
<1>2. /\ run.pc = "off" /\ run.ids = NoIds /\ run.known = NoIds /\ run.todo = {}
      /\ run.part = "stages"
  BY DEF Init, NoRun
<1>3. mapping.funnel = 0 /\ mapping.ids = NoIds /\ env = 0
  BY DEF Init, NotSaved, Shipped
<1>4. \A k \in Key : NoIds[k] = 0
  BY DEF NoIds
<1> QED  BY <1>1, <1>2, <1>3, <1>4
     DEF Inductive, Fresh, NoFunnel, Early, RunInFunnel, RunTrue, SavedTrue, TodoInPart,
         FieldsLast, ListedAll, StillMapped, Done

LEMMA NextKeeps == Inductive /\ [Next]_vars => Inductive'
<1> SUFFICES ASSUME Inductive, [Next]_vars PROVE Inductive'
  OBVIOUS
<1>1. CASE Step
  BY <1>1, StartKeeps, EnsureFunnelKeeps, NewFunnelKeeps, ListKeeps, AsksForAllKeeps, ExistsKeeps,
     CreateKeeps, LeftOutKeeps, AllEnsuredKeeps, SaveKeeps, PatchKeeps DEF Step
<1>2. CASE Failure
  BY <1>2, DeathKeeps, FunnelNotListedKeeps, StagesRefusedKeeps, FieldsRefusedKeeps, ListCutKeeps,
     LeftOutKeeps, DeleteKeeps, UserAddsKeeps DEF Failure
<1>3. CASE UNCHANGED vars
  BY <1>3, StutterKeeps
<1> QED  BY <1>1, <1>2, <1>3 DEF Next

LEMMA AlwaysInductive == Spec => []Inductive
BY InitInductive, NextKeeps, PTL DEF Spec

-----------------------------------------------------------------------------
\* Types are kept by every run and every failure.
THEOREM BootstrapTypes == Spec => []TypeOK
<1>1. Inductive => TypeOK
  BY DEF Inductive
<1> QED  BY <1>1, AlwaysInductive, PTL

\* The mapping names rows that are what it says, stages of its own funnel, and .env a
\* funnel of ours (write_mapping), for any stages, fields and failures, funnels that
\* were not listed and made again among them.
THEOREM MappingIsTrue == Spec => []MappingTrue
<1>1. Inductive => MappingTrue
  <2> SUFFICES ASSUME Inductive PROVE MappingTrue
    OBVIOUS
  <2>1. ASSUME NEW k \in Key, mapping.ids[k] # 0
        PROVE  \/ Denotes(mapping.ids[k], k, Parent(k, mapping.funnel))
               \/ /\ k \in Field /\ "fields" \in mapping.blind
                  /\ Denotes(mapping.ids[k], k, Elsewhere)
    BY <2>1 DEF Inductive, SavedTrue, MeansIn, Denotes
  <2>2. \A i \in LiveIn(rows, Funnel, 0) : Denotes(i, Funnel, 0)
    BY DEF LiveIn, Denotes, Parent
  <2> QED  BY <2>1, <2>2 DEF MappingTrue, Inductive, SavedTrue
<1> QED  BY <1>1, AlwaysInductive, PTL

\* A run repeats nothing it could list: no funnel, no field, and no stage of its funnel
\* (ensure_funnel, ensure_stages, ensure_custom_fields).
THEOREM NothingListedIsRepeated == Spec => DuplicatesOnlyBlind
<1> DEFINE Blindly ==
      \A k \in Key \cup {Funnel} : IdsOf(k, run.funnel) # {} /\ rows' = Created(k, run.funnel) => Unlisted(k)
<1>1. Inductive /\ [Next]_vars => [Blindly]_vars
  <2> SUFFICES ASSUME Inductive, Next, NEW k \in Key \cup {Funnel}, IdsOf(k, run.funnel) # {},
                      rows' = Created(k, run.funnel)
               PROVE  Unlisted(k)
    OBVIOUS
  <2>1. /\ rows \in Seq(Row) /\ run.funnel \in Nat /\ run.part \in {"stages", "fields"}
        /\ run.todo \subseteq Keys(run.part) /\ k \in Name
    BY DEF Inductive, TypeOK, Run, TodoInPart, Name
  <2>2. /\ NewId \in DOMAIN rows' /\ NewId \notin DOMAIN rows /\ rows'[NewId].name = k
        /\ rows'[NewId].parent = Parent(k, run.funnel)
    BY <2>1, CreatedEvolves
  <2>3. LiveIn(rows, k, run.funnel) # {}
    BY IdsAreLive
  <2>4. CASE run.pc = "newfunnel" /\ rows' = Created(Funnel, 0)
    <3>1. rows'[NewId].name = Funnel
      BY <2>1, <2>4, CreatedEvolves DEF Name
    <3>2. LiveIn(rows, Funnel, 0) # {}
      BY <2>2, <2>3, <3>1, FunnelIsNoKey DEF LiveIn, Parent, Key
    <3>3. "funnel" \in run.blind
      BY <2>4, <3>2 DEF Inductive, NoFunnel
    <3> QED  BY <2>2, <3>1, <3>3, KeysArePart DEF Unlisted
  <2>5. ASSUME NEW j \in Key, Missing(j), rows' = Created(j, run.funnel)
        PROVE  Unlisted(k)
    <3>1. rows'[NewId].name = j
      BY <2>1, <2>5, CreatedEvolves DEF Name
    <3>2. k = j /\ k \in run.todo /\ run.pc = "ensure" /\ run.known[k] = 0
      BY <2>2, <2>5, <3>1 DEF Missing, Turn
    <3>3. run.part \in run.blind
      BY <2>3, <3>2 DEF Inductive, ListedAll
    <3> QED  BY <2>1, <3>2, <3>3 DEF Unlisted
  <2>6. ASSUME NEW j \in Field, NEW parent \in {0, Elsewhere}, UserAdds(j, parent)
        PROVE  Unlisted(k)
    <3>1. /\ rows' = Append(rows, [name |-> j, parent |-> parent]) /\ j \in Name
          /\ RowsOf(j, {parent}) = {}
      BY <2>6 DEF UserAdds, Name, Key
    <3>2. rows'[NewId].name = j /\ rows'[NewId].parent = parent
      BY <2>1, <3>1, AppendEvolves
    <3>3. RowsOf(k, {Parent(k, run.funnel)}) = {}
      BY <2>2, <3>1, <3>2
    <3> QED  BY <3>3 DEF IdsOf
  <2>7. CASE DOMAIN rows' = DOMAIN rows
    BY <2>2, <2>7
  <2>8. \/ run.pc = "newfunnel" /\ rows' = Created(Funnel, 0)
        \/ \E j \in Key : Missing(j) /\ rows' = Created(j, run.funnel)
        \/ \E j \in Field, parent \in {0, Elsewhere} : UserAdds(j, parent)
        \/ DOMAIN rows' = DOMAIN rows
    <3>1. CASE Step
      BY <3>1 DEF Step, Start, EnsureFunnel, NewFunnel, List, AsksForAll, ListAll, Exists, Create,
         FieldRefused, AllEnsured, SaveMapping, PatchEnv
    <3>2. CASE Failure
      BY <2>1, <3>2, DeletedEvolves DEF Failure, Dies, ReplyLost, FunnelNotListed, StagesRefused,
         FieldsRefused, ListCut, StageRefused, NoIdInReply, DiesWriting, AddsNone
    <3> QED  BY <3>1, <3>2 DEF Next
  <2> QED  BY <2>4, <2>5, <2>6, <2>7, <2>8
<1> QED  BY <1>1, AlwaysInductive, PTL DEF Spec, DuplicatesOnlyBlind

\* What still holds in KeyCRM stays in the mapping unless a run could not list it, found
\* another of our funnels, or died while it wrote (write_mapping).
THEOREM ListedStaysMapped == Spec => MappingKept
<1> DEFINE Kept ==
      \A k \in Key :
        mapping.ids[k] \in IdsOf(k, mapping.funnel) /\ mapping'.ids[k] = 0 =>
          \/ Unlisted(k)
          \/ k \in Stage /\ run.funnel # mapping.funnel
          \/ run'.pc = "off"
<1>1. Inductive /\ [Next]_vars => [Kept]_vars
  <2> SUFFICES ASSUME Inductive, Next, NEW k \in Key, mapping'.ids[k] = 0,
                      mapping.ids[k] \in IdsOf(k, mapping.funnel), ~Unlisted(k),
                      ~(k \in Stage /\ run.funnel # mapping.funnel)
               PROVE  run'.pc = "off"
    OBVIOUS
  <2>1. mapping.ids[k] # 0
    BY DEF IdsOf, RowsOf, Inductive, TypeOK
  <2>2. CASE SaveMapping
    <3>1. run.pc = "save" /\ mapping'.ids = run.ids
      BY <2>2 DEF SaveMapping
    <3>2. Parent(k, run.funnel) = Parent(k, mapping.funnel)
      BY DEF Parent
    <3>3. mapping.ids[k] \in LiveIn(rows, k, run.funnel)
      BY <3>2 DEF IdsOf, RowsOf, LiveIn
    <3> QED  BY <3>1, <3>3 DEF Inductive, StillMapped, Done
  <2>3. CASE DiesWriting
    BY <2>3 DEF DiesWriting, NoRun
  <2>4. CASE UNCHANGED mapping
    BY <2>1, <2>4
  <2>5. SaveMapping \/ DiesWriting \/ UNCHANGED mapping
    BY DEF Next, Step, Failure, Start, EnsureFunnel, NewFunnel, List, AsksForAll, ListAll, Exists,
       Create, FieldRefused, AllEnsured, PatchEnv, Dies, ReplyLost, FunnelNotListed, StagesRefused,
       FieldsRefused, ListCut, StageRefused, NoIdInReply, Delete, UserAdds
  <2> QED  BY <2>2, <2>3, <2>4, <2>5
<1> QED  BY <1>1, AlwaysInductive, PTL DEF Spec, MappingKept
=============================================================================
