--------------------------- MODULE Workflow_proofs ---------------------------
(***************************************************************************)
(* The run mode of a workflow, its graph of docspecs and the documents it  *)
(* leaves, for any actions, docspecs, launchers and documents.             *)
(***************************************************************************)
EXTENDS Workflow, FiniteSetTheorems, WellFoundedInduction, TLAPS

\* The facts that the proofs take from the constants.
LEMMA Constants ==
  /\ None \notin Spec0 /\ None \notin Shape /\ None \notin Launcher
  /\ None \notin ActionConfig /\ None \notin Aims
  /\ Shape \subseteq ShapeType /\ Order \in Seq(Action) /\ First \in [Action -> Shape]
  /\ Edits \subseteq Action \X Shape /\ Retirable \subseteq Action /\ Breakable \subseteq Action
  /\ MaxRequests \in Nat /\ MaxIncidents \in Nat /\ IsFiniteSet(Spec0)
  BY ConstantsAssumption DEF ConstantsAssumption

USE Constants

-----------------------------------------------------------------------------
(* Types *)

\* A slot without a document is as it was at first.
FreeOK == \A d \in Doc : doc[d].spec = None => doc[d] = Free

TInv == TypeOK /\ FreeOK

LEMMA ShapeFields ==
  ASSUME NEW s \in Shape
  PROVE  s # None /\ s.input \in Spec0 /\ s.outputs \in SUBSET Spec0
  BY DEF ShapeType

LEMMA ConfigFields ==
  ASSUME NEW c \in Config, NEW a \in Action
  PROVE  /\ c[a].shape \in Shape /\ c[a].active \in BOOLEAN
         /\ c[a].retired \in BOOLEAN /\ c[a].valid \in BOOLEAN
  BY DEF Config, ActionConfig

\* The set of active actions.
LEMMA PointersType ==
  ASSUME NEW c \in Config
  PROVE  PointersTo(c) \in View
<1>1. \A a \in Action : c[a].shape \in Shape
  BY ConfigFields
<1>2. NoView \in View
  BY DEF NoView, View
<1>3. [a \in Action |-> IF a \in ValidActions(c) /\ c[a].active THEN c[a].shape
                        ELSE None] \in View
  BY <1>1 DEF View
<1> QED  BY <1>2, <1>3 DEF PointersTo

LEMMA FreeType == NoView \in View /\ Free \in DocType
<1>1. NoView \in View
  BY DEF NoView, View
<1> QED  BY <1>1 DEF Free, DocType

LEMMA HandlingType ==
  ASSUME NEW v, NEW spec
  PROVE  Handling(v, spec) \in SUBSET Action
  BY DEF Handling

LEMMA DocFields ==
  ASSUME NEW x \in DocType
  PROVE  /\ x.spec \in Spec0 \cup {None} /\ x.pub \in BOOLEAN
         /\ x.pending \in SUBSET Action /\ x.by \in Launcher \cup {None}
         /\ x.view \in View
  BY DEF DocType

\* Documents that are written: what else is to know of a step that does not write
\* one of no docspec.
LEMMA PutType ==
  ASSUME TInv, NEW d \in Doc, NEW x \in DocType, Put(d, x),
         x = Free \/ x.spec # None
  PROVE  /\ doc' \in [Doc -> DocType] /\ FreeOK'
         /\ doc'[d] = x /\ \A e \in Doc \ {d} : doc'[e] = doc[e]
<1>1. /\ doc' \in [Doc -> DocType] /\ doc'[d] = x
      /\ \A e \in Doc \ {d} : doc'[e] = doc[e]
  BY DEF TInv, TypeOK, Put
<1>2. FreeOK'
  BY <1>1 DEF TInv, FreeOK
<1> QED  BY <1>1, <1>2

\* Steps of documents alone.
LEMMA DocStep ==
  ASSUME TInv, doc' \in [Doc -> DocType], FreeOK', OnlyDocuments
  PROVE  TInv'
  BY DEF TInv, TypeOK, OnlyDocuments, database, ghosts

\* A document that an agent has, and its view of an action.
LEMMA HeldDoc ==
  ASSUME TInv, NEW d \in Doc, Held(d)
  PROVE  /\ doc[d] \in DocType /\ doc[d] # Free /\ doc[d].spec \in Spec0
         /\ \A a \in Action : doc[d].view[a] \in Shape \cup {None}
<1>1. doc[d] \in DocType /\ doc[d].by # None
  BY DEF TInv, TypeOK, Held
<1>2. doc[d] # Free
  BY <1>1 DEF Free
<1>3. doc[d].spec # None
  BY <1>2 DEF TInv, FreeOK
<1>4. \A a \in Action : doc[d].view[a] \in Shape \cup {None}
  BY <1>1, DocFields DEF View
<1> QED  BY <1>1, <1>2, <1>3, <1>4, DocFields

\* The document without the action that has been executed.
LEMMA WithoutType ==
  ASSUME TInv, NEW d \in Doc, NEW a \in Action, Held(d)
  PROVE  /\ Without(d, a) \in DocType
         /\ Without(d, a) = Free \/ Without(d, a).spec # None
         /\ Without(d, a) = Free \/ Without(d, a).by # None
<1>1. doc[d] \in DocType /\ doc[d].spec \in Spec0 /\ doc[d].by # None
  BY HeldDoc DEF Held
<1>2. CASE doc[d].pending = {a}
  BY <1>2, FreeType DEF Without
<1>3. CASE doc[d].pending # {a}
  <2> DEFINE q == doc[d].pending \ {a}
             x == doc[d]
  <2>1. Without(d, a) = [x EXCEPT !.pending = q]
    BY <1>3 DEF Without
  <2>2. q \in SUBSET Action
    BY <1>1, DocFields
  <2>3. x \in DocType /\ x.spec \in Spec0 /\ x.by # None
    BY <1>1
  <2> HIDE DEF q, x
  <2>4. [x EXCEPT !.pending = q] \in DocType
        /\ [x EXCEPT !.pending = q].spec = x.spec /\ [x EXCEPT !.pending = q].by = x.by
    BY <2>2, <2>3 DEF DocType
  <2> QED  BY <2>1, <2>3, <2>4
<1> QED  BY <1>2, <1>3

\* The document that a body creates.
LEMMA CreatedType ==
  ASSUME NEW d \in Doc, NEW a, NEW spec \in Spec0
  PROVE  /\ Created(d, a, spec) \in DocType
         /\ Created(d, a, spec).spec = spec
         /\ Created(d, a, spec).pending = Handling(doc[d].view, spec)
<1> DEFINE h == Handling(doc[d].view, spec)
           x == Free
           z == [x EXCEPT !.spec = spec, !.pending = h]
<1>1. h \in SUBSET Action /\ x \in DocType
  BY HandlingType, FreeType
<1>2. z \in DocType /\ z.spec = spec /\ z.pending = h
  <2> HIDE DEF h, x
  <2> QED  BY <1>1 DEF DocType
<1>3. Created(d, a, spec) = z
  BY DEF Created
<1> HIDE DEF z
<1> QED  BY <1>2, <1>3

\* A document that is put into a slot with one action to take it.
LEMMA PendingType ==
  ASSUME NEW spec \in Spec0, NEW p \in SUBSET Action, NEW b \in BOOLEAN
  PROVE  /\ [Free EXCEPT !.spec = spec, !.pending = p] \in DocType
         /\ [Free EXCEPT !.spec = spec, !.pending = p].spec = spec
         /\ [Free EXCEPT !.spec = spec, !.pub = b, !.pending = p] \in DocType
         /\ [Free EXCEPT !.spec = spec, !.pub = b, !.pending = p].spec = spec
<1> DEFINE y == Free
<1>1. y \in DocType
  BY FreeType
<1> HIDE DEF y
<1>2. /\ [y EXCEPT !.spec = spec, !.pending = p] \in DocType
      /\ [y EXCEPT !.spec = spec, !.pending = p].spec = spec
      /\ [y EXCEPT !.spec = spec, !.pub = b, !.pending = p] \in DocType
      /\ [y EXCEPT !.spec = spec, !.pub = b, !.pending = p].spec = spec
  BY <1>1 DEF DocType
<1> QED  BY <1>2 DEF y

LEMMA CollectType ==
  ASSUME TInv, NEW a \in Action, NEW spec \in Spec0, collect(a, spec)
  PROVE  doc' \in [Doc -> DocType] /\ FreeOK'
<1> DEFINE x == [Free EXCEPT !.spec = spec, !.pending = {a}]
<1>1. PICK d \in Doc : Put(d, x)
  BY DEF collect
<1>2. x \in DocType /\ x.spec # None
  BY PendingType
<1> HIDE DEF x
<1> QED  BY <1>1, <1>2, PutType

LEMMA TriggerType ==
  ASSUME TInv, NEW l \in Launcher, NEW a \in Action, Trigger(l, a)
  PROVE  TInv'
<1>1. launcher[l].view \in View /\ launcher[l].view[a] # None
  BY DEF TInv, TypeOK, Trigger, CollectsOf
<1>2. launcher[l].view[a].input \in Spec0
  BY <1>1, ShapeFields DEF View
<1>3. collect(a, launcher[l].view[a].input) /\ OnlyDocuments
  BY DEF Trigger
<1> QED  BY <1>2, <1>3, CollectType, DocStep

LEMMA LockType ==
  ASSUME TInv, NEW l \in Launcher, NEW d \in Doc, Lock(l, d)
  PROVE  TInv'
<1> DEFINE y == doc[d]
           w == launcher[l].view
           x == [y EXCEPT !.by = l, !.view = w]
<1>1. y \in DocType /\ w \in View /\ y.pending # {}
  BY DEF TInv, TypeOK, Lock
<1>2. y.spec # None
  BY <1>1 DEF TInv, FreeOK, Free
<1>3. x \in DocType /\ x.spec # None
  <2> HIDE DEF y, w
  <2> QED  BY <1>1, <1>2 DEF DocType
<1>4. Put(d, x)
  BY DEF Lock
<1> HIDE DEF x
<1>5. doc' \in [Doc -> DocType] /\ FreeOK'
  BY <1>3, <1>4, PutType
<1> QED  BY <1>5, DocStep DEF Lock

\* What remains of the document of an action that has been executed.
Remains(d, a) ==
    IF doc[d].view[a].kind \in {"collect", "split"} THEN Free ELSE Without(d, a)

\* A body that creates a document, or none.
LEMMA ExecuteCases ==
  ASSUME TInv, NEW d \in Doc, NEW a \in Action, Execute(d, a)
  PROVE  /\ Held(d) /\ doc[d].view[a] \in Shape
         /\ Remains(d, a) \in DocType
         /\ Remains(d, a) = Free \/ (Remains(d, a).spec # None /\ Remains(d, a).by # None)
         /\ \/ Put(d, Remains(d, a))
            \/ \E spec \in doc[d].view[a].outputs, e \in Doc :
                  doc' = [doc EXCEPT ![d] = Remains(d, a), ![e] = Created(d, a, spec)]
<1>1. Held(d) /\ doc[d].view[a] # None
  BY DEF Execute
<1>2. doc[d].view[a] \in Shape
  BY <1>1, HeldDoc
<1>3. /\ Remains(d, a) \in DocType
      /\ Remains(d, a) = Free \/ (Remains(d, a).spec # None /\ Remains(d, a).by # None)
  BY <1>1, WithoutType, FreeType DEF Remains
<1>4. \/ Put(d, Remains(d, a))
      \/ \E spec \in doc[d].view[a].outputs, e \in Doc :
            doc' = [doc EXCEPT ![d] = Remains(d, a), ![e] = Created(d, a, spec)]
  BY <1>1 DEF Execute, Remains
<1> QED  BY <1>1, <1>2, <1>3, <1>4

LEMMA ExecuteType ==
  ASSUME TInv, NEW d \in Doc, NEW a \in Action, Execute(d, a)
  PROVE  TInv'
<1>1. /\ Held(d) /\ doc[d].view[a] \in Shape
      /\ Remains(d, a) \in DocType
      /\ Remains(d, a) = Free \/ (Remains(d, a).spec # None /\ Remains(d, a).by # None)
  BY ExecuteCases
<1>2. CASE Put(d, Remains(d, a))
  BY <1>1, <1>2, PutType, DocStep DEF Execute
<1>3. CASE \E spec \in doc[d].view[a].outputs, e \in Doc :
              doc' = [doc EXCEPT ![d] = Remains(d, a), ![e] = Created(d, a, spec)]
  <2>1. PICK spec \in doc[d].view[a].outputs, e \in Doc :
              doc' = [doc EXCEPT ![d] = Remains(d, a), ![e] = Created(d, a, spec)]
    BY <1>3
  <2>2. spec \in Spec0
    BY <1>1, ShapeFields
  <2>3. Created(d, a, spec) \in DocType /\ Created(d, a, spec).spec # None
    BY <2>2, CreatedType
  <2>4. doc \in [Doc -> DocType]
    BY DEF TInv, TypeOK
  <2>5. doc' \in [Doc -> DocType]
    BY <1>1, <2>1, <2>3, <2>4
  <2>6. \A g \in Doc : doc'[g] = doc[g] \/ doc'[g] = Free \/ doc'[g].spec # None
    BY <1>1, <2>1, <2>3, <2>4
  <2>7. FreeOK'
    BY <2>6 DEF TInv, FreeOK
  <2> QED  BY <2>5, <2>7, DocStep DEF Execute
<1> QED  BY <1>2, <1>3, ExecuteCases

\* A document after its publish action: the docspec it is published as, and its actions.
LEMMA PublishCases ==
  ASSUME TInv, NEW d \in Doc, NEW a \in Action, Publish(d, a)
  PROVE  \E x \in DocType : Put(d, x) /\ (x = Free \/ (x.spec # None /\ x.by # None))
<1> DEFINE it == doc[d].view[a]
<1>1. PICK spec \in it.outputs :
         LET pending == (doc[d].pending \ {a}) \cup Handling(doc[d].view, spec)
         IN  Put(d, IF pending = {} THEN Free
                    ELSE [doc[d] EXCEPT !.spec = spec, !.pending = pending])
  BY DEF Publish
<1>2. it \in Shape /\ doc[d] \in DocType /\ Held(d)
  BY HeldDoc DEF Publish
<1> DEFINE pending == (doc[d].pending \ {a}) \cup Handling(doc[d].view, spec)
           x == IF pending = {} THEN Free
                ELSE [doc[d] EXCEPT !.spec = spec, !.pending = pending]
<1>3. pending \in SUBSET Action /\ spec \in Spec0
  BY <1>2, HandlingType, DocFields, ShapeFields
<1> DEFINE y == doc[d]
<1>4. x \in DocType /\ (x = Free \/ (x.spec # None /\ x.by # None))
  <2> DEFINE z == [y EXCEPT !.spec = spec, !.pending = pending]
  <2>1. y \in DocType /\ y.by # None
    BY <1>2 DEF Held
  <2>2. x = Free \/ x = z
    OBVIOUS
  <2> HIDE DEF pending, y, x
  <2>3. z \in DocType /\ z.spec = spec /\ z.by = y.by
    BY <1>3, <2>1 DEF DocType
  <2> HIDE DEF z
  <2> QED  BY <1>3, <2>1, <2>2, <2>3, FreeType
<1>5. Put(d, x)
  BY <1>1 DEF pending
<1> QED  BY <1>4, <1>5

LEMMA ProcessType ==
  ASSUME TInv, NEW d \in Doc, Process(d)
  PROVE  TInv'
<1>1. ASSUME NEW a \in Action, Publish(d, a) PROVE TInv'
  <2>1. PICK x \in DocType : Put(d, x) /\ (x = Free \/ (x.spec # None /\ x.by # None))
    BY <1>1, PublishCases
  <2>2. OnlyDocuments
    BY <1>1 DEF Publish
  <2> QED  BY <2>1, <2>2, PutType, DocStep
<1>2. ASSUME NEW a \in Action, Fail(d, a) \/ Undefined(d, a) PROVE TInv'
  <2>1. Put(d, Free) /\ OnlyDocuments
    BY <1>2 DEF Fail, Undefined, Failed
  <2> QED  BY <2>1, FreeType, PutType, DocStep
<1> QED  BY <1>1, <1>2, ExecuteType DEF Process

-----------------------------------------------------------------------------
(* Types: requests and launchers *)
LEMMA IdleType == Nothing \in [Action -> ActionConfig \cup {None}] /\ Idle \in RequestType
<1>1. Nothing \in [Action -> ActionConfig \cup {None}]
  BY DEF Nothing
<1> QED  BY <1>1 DEF Idle, RequestType

LEMMA RequestFields ==
  ASSUME TInv, NEW r \in Request
  PROVE  /\ request[r] \in RequestType /\ request[r].aim \in Aims \cup {None}
         /\ request[r].todo \in [Action -> ActionConfig \cup {None}]
         /\ request[r].check \in BOOLEAN /\ request[r].beside \in SUBSET {"move", "edit"}
  BY DEF TInv, TypeOK, RequestType

\* What is left to write.
LEMMA LeftFields ==
  ASSUME TInv, NEW r \in Request, NEW a \in Left(r)
  PROVE  /\ a \in Action /\ request[r].todo[a] \in ActionConfig
         /\ request[r].todo[a].shape \in Shape /\ request[r].todo[a].active \in BOOLEAN
         /\ request[r].todo[a].retired \in BOOLEAN /\ request[r].todo[a].valid \in BOOLEAN
<1>1. a \in Action /\ request[r].todo[a] \in ActionConfig
  BY RequestFields DEF Left
<1> QED  BY <1>1 DEF ActionConfig

\* A step that leaves the documents alone.
LEMMA NoDocuments ==
  ASSUME TInv, TypeOK', UNCHANGED doc
  PROVE  TInv'
  BY DEF TInv, FreeOK

LEMMA IncidentType ==
  ASSUME TInv, NEW b \in BOOLEAN, Incident(b)
  PROVE  incidents' \in 0..MaxIncidents
  BY DEF TInv, TypeOK, Incident

\* A request that loads.
LEMMA LoadFacts ==
  ASSUME TInv, NEW r \in Request, NEW aim \in Aims, NEW val \in BOOLEAN,
         NEW todo \in [Action -> ActionConfig \cup {None}], Load(r, aim, todo, val)
  PROVE  /\ request' \in [Request -> RequestType] /\ request[r] = Idle
         /\ request'[r].aim = aim /\ request'[r].todo = todo /\ request'[r].check = val
         /\ request'[r].beside = {}
         /\ \A q \in Request \ {r} : request'[q] = request[q]
         /\ UNCHANGED <<mode, check, config, counted, launcher, doc, torn, slipped>>
<1> DEFINE x == [aim |-> aim, todo |-> todo, check |-> val, beside |-> {}]
<1>1. x \in RequestType
  BY DEF RequestType
<1>2. request \in [Request -> RequestType]
  BY DEF TInv, TypeOK
<1>3. request' = [request EXCEPT ![r] = x] /\ request[r] = Idle
      /\ UNCHANGED <<mode, check, config, counted, launcher, doc, torn, slipped>>
  BY DEF Load, database
<1>4. request'[r] = x
  BY <1>2, <1>3
<1> QED  BY <1>1, <1>2, <1>3, <1>4

LEMMA ToSetType ==
  ASSUME TInv, NEW A, NEW b \in BOOLEAN
  PROVE  /\ ToSet(A, b) \in [Action -> ActionConfig \cup {None}]
         /\ \A a \in Action :
               /\ a \in A => /\ ToSet(A, b)[a] \in ActionConfig
                             /\ ToSet(A, b)[a].shape = config[a].shape
                             /\ ToSet(A, b)[a].retired = config[a].retired
                             /\ ToSet(A, b)[a].valid = config[a].valid
                             /\ ToSet(A, b)[a].active = b
               /\ a \notin A => ToSet(A, b)[a] = None
<1>1. ASSUME NEW a \in Action
      PROVE  LET x == [config[a] EXCEPT !.active = b] IN
             /\ x \in ActionConfig /\ x.shape = config[a].shape /\ x.active = b
             /\ x.retired = config[a].retired /\ x.valid = config[a].valid
  <2>1. config[a] \in ActionConfig
    BY DEF TInv, TypeOK, Config
  <2> QED  BY <2>1 DEF ActionConfig
<1> QED  BY <1>1 DEF ToSet

LEMMA OnlyType ==
  ASSUME NEW a \in Action, NEW x \in ActionConfig
  PROVE  /\ Only(a, x) \in [Action -> ActionConfig \cup {None}]
         /\ Only(a, x)[a] = x /\ \A b \in Action \ {a} : Only(a, x)[b] = None
  BY DEF Only, Nothing

\* The kinds of requests that load: to run, to stop, to count, to edit, for a document.
LoadsRun(r) ==
    /\ Load(r, "running", ToSet(ValidActions(config), TRUE), check)
    /\ mode = "stopped" /\ valid(config)
    /\ check => find_unused_output_docspecs(config) = {}

LoadsStop(r) ==
    /\ Load(r, "stopped", ToSet(ValidActions(config), FALSE), check)

LoadsCount(r, aim) ==
    /\ aim \in Stops /\ valid(config) /\ (aim = "stop" => mode = "running")
    /\ Load(r, aim, ToSet(ValidActions(config), FALSE), check)

LoadsEdit(r, aim, todo, val) ==
    /\ aim \in Edit /\ mode = "stopped" /\ val \in BOOLEAN
    /\ todo \in [Action -> ActionConfig \cup {None}]
    /\ \A a \in Action : todo[a] # None /\ todo[a].valid /\ todo[a].active =>
                           config[a].valid /\ config[a].active
    /\ Load(r, aim, todo, val)

LoadsOther(r, todo) ==
    /\ todo \in [Action -> ActionConfig \cup {None}]
    /\ Load(r, "document", todo, FALSE)

Loads(r) ==
    /\ \/ LoadsRun(r) \/ LoadsStop(r) \/ (\E aim \in Stops : LoadsCount(r, aim))
       \/ \E aim \in Edit, todo \in [Action -> ActionConfig \cup {None}], val \in BOOLEAN :
             LoadsEdit(r, aim, todo, val)
       \/ \E todo \in [Action -> ActionConfig \cup {None}] : LoadsOther(r, todo)
    /\ incidents' \in 0..MaxIncidents

LEMMA StopLoads ==
  ASSUME TInv, NEW r \in Request, stop(r) \/ clean_up(r)
  PROVE  Loads(r)
<1>1. incidents' \in 0..MaxIncidents
  BY IncidentType DEF stop, clean_up, Busy
<1>2. CASE stop(r) /\ ~valid(config)
  BY <1>1, <1>2 DEF stop, Loads, LoadsStop
<1>3. CASE clean_up(r) /\ ~valid(config)
  BY <1>1, <1>3 DEF clean_up, Loads, LoadsStop
<1>4. CASE stop(r) /\ valid(config)
  <2>1. CASE mode = "running"
    <3>1. LoadsCount(r, "stop")
      BY <1>4, <2>1 DEF stop, LoadsCount, Stops
    <3> QED  BY <1>1, <3>1 DEF Loads, Stops
  <2>2. CASE mode # "running"
    <3>1. LoadsCount(r, "end")
      BY <1>4, <2>2 DEF stop, LoadsCount, Stops
    <3> QED  BY <1>1, <3>1 DEF Loads, Stops
  <2> QED  BY <2>1, <2>2
<1>5. CASE clean_up(r) /\ valid(config)
  <2>1. LoadsCount(r, "clean")
    BY <1>5 DEF clean_up, LoadsCount, Stops
  <2> QED  BY <1>1, <2>1 DEF Loads, Stops
<1> QED  BY <1>2, <1>3, <1>4, <1>5

\* An edit of one configuration.
LEMMA EditLoads ==
  ASSUME TInv, NEW r \in Request, NEW a \in Action, NEW x \in ActionConfig, NEW aim \in Edit,
         Load(r, aim, Only(a, x), FALSE), mode = "stopped", incidents' \in 0..MaxIncidents,
         x.valid /\ x.active => config[a].valid /\ config[a].active
  PROVE  Loads(r)
<1>1. Only(a, x) \in [Action -> ActionConfig \cup {None}]
  BY OnlyType
<1>2. \A b \in Action : Only(a, x)[b] # None /\ Only(a, x)[b].valid /\ Only(a, x)[b].active =>
                          config[b].valid /\ config[b].active
  BY OnlyType
<1>3. LoadsEdit(r, aim, Only(a, x), FALSE)
  BY <1>1, <1>2 DEF LoadsEdit
<1> QED  BY <1>1, <1>3 DEF Loads

LEMMA AskLoads ==
  ASSUME TInv, NEW r \in Request, Ask(r)
  PROVE  Loads(r)
<1>0. /\ \A b \in BOOLEAN : Incident(b) => incidents' \in 0..MaxIncidents
      /\ \A a \in Action : config[a] \in ActionConfig
  BY IncidentType DEF TInv, TypeOK, Config
<1>1. CASE run(r)
  BY <1>0, <1>1 DEF run, Loads, LoadsRun, Busy
<1>2. CASE stop(r) \/ clean_up(r)
  BY <1>2, StopLoads
<1>3. ASSUME NEW e \in Edits, NEW ok \in BOOLEAN, update_action_config(r, e[1], e[2], ok)
      PROVE  Loads(r)
  <2> DEFINE y == config[e[1]]
             s == e[2]
             x == [y EXCEPT !.shape = s, !.valid = ok, !.active = FALSE]
  <2>1. e[1] \in Action /\ s \in Shape /\ y \in ActionConfig
    BY <1>0
  <2>2. Load(r, "update", Only(e[1], x), FALSE) /\ mode = "stopped" /\ incidents' \in 0..MaxIncidents
    BY <1>0, <1>3 DEF update_action_config
  <2> HIDE DEF y, s
  <2>3. x \in ActionConfig /\ ~x.active
    BY <2>1 DEF ActionConfig
  <2> QED  BY <2>1, <2>2, <2>3, EditLoads DEF Edit
<1>4. ASSUME NEW a \in Retirable, NEW b \in BOOLEAN, set_action_retired(r, a, b)
      PROVE  Loads(r)
  <2> DEFINE y == config[a]
             x == [y EXCEPT !.retired = b]
  <2>1. a \in Action /\ y \in ActionConfig
    BY <1>0
  <2>2. Load(r, "retire", Only(a, x), FALSE) /\ mode = "stopped" /\ incidents' \in 0..MaxIncidents
    BY <1>0, <1>4 DEF set_action_retired
  <2>3. x \in ActionConfig /\ x.active = y.active /\ x.valid = y.valid
    <3> HIDE DEF y
    <3> QED  BY <2>1 DEF ActionConfig
  <2> QED  BY <2>1, <2>2, <2>3, EditLoads DEF Edit
<1>5. ASSUME NEW b \in BOOLEAN, set_unused_output_docspec_check(r, b) PROVE Loads(r)
  <2>1. Nothing \in [Action -> ActionConfig \cup {None}] /\ \A a \in Action : Nothing[a] = None
    BY IdleType DEF Nothing
  <2>2. LoadsEdit(r, "check", Nothing, b)
    BY <1>5, <2>1 DEF LoadsEdit, set_unused_output_docspec_check, Edit
  <2> QED  BY <1>0, <1>5, <2>1, <2>2 DEF Loads, Edit, set_unused_output_docspec_check
<1>6. ASSUME NEW a \in Action, ask_for_document(r, a) PROVE Loads(r)
  <2>1. Only(a, config[a]) \in [Action -> ActionConfig \cup {None}]
    BY <1>0, OnlyType
  <2>2. LoadsOther(r, Only(a, config[a]))
    BY <1>6, <2>1 DEF LoadsOther, ask_for_document
  <2> QED  BY <1>0, <1>6, <2>1, <2>2 DEF Loads, ask_for_document
<1> QED  BY <1>1, <1>2, <1>3, <1>4, <1>5, <1>6 DEF Ask

LEMMA LoadsType ==
  ASSUME TInv, NEW r \in Request, Loads(r)
  PROVE  /\ TInv' /\ request[r] = Idle /\ request'[r].beside = {}
         /\ \A q \in Request \ {r} : request'[q] = request[q]
         /\ UNCHANGED <<mode, check, config, counted, launcher, doc, torn, slipped>>
<1> DEFINE Todos == [Action -> ActionConfig \cup {None}]
<1>1. \E aim \in Aims, todo \in Todos, val \in BOOLEAN :
         Load(r, aim, todo, val)
  <2>1. check \in BOOLEAN /\ \A b \in BOOLEAN : ToSet(ValidActions(config), b) \in
                                       Todos
    BY ToSetType DEF TInv, TypeOK
  <2>0. /\ "running" \in Aims /\ "stopped" \in Aims
        /\ \A aim \in Stops \cup Edit \cup {"document"} : aim \in Aims
    BY DEF Aims, Mode
  <2>2. CASE LoadsRun(r)
    <3>1. Load(r, "running", ToSet(ValidActions(config), TRUE), check)
      BY <2>2 DEF LoadsRun
    <3> QED  BY <2>0, <2>1, <3>1
  <2>3. CASE LoadsStop(r)
    <3>1. Load(r, "stopped", ToSet(ValidActions(config), FALSE), check)
      BY <2>3 DEF LoadsStop
    <3> QED  BY <2>0, <2>1, <3>1
  <2>4. ASSUME NEW aim \in Stops, LoadsCount(r, aim)
        PROVE  \E m \in Aims, todo \in Todos, val \in BOOLEAN :
                  Load(r, m, todo, val)
    <3>1. Load(r, aim, ToSet(ValidActions(config), FALSE), check)
      BY <2>4 DEF LoadsCount
    <3>2. aim \in Aims /\ ToSet(ValidActions(config), FALSE) \in Todos
      BY <2>0, <2>1
    <3> HIDE DEF Todos
    <3> QED  BY <2>1, <3>1, <3>2
  <2>5. ASSUME NEW aim \in Edit, NEW todo \in Todos,
               NEW val \in BOOLEAN, LoadsEdit(r, aim, todo, val)
        PROVE  \E m \in Aims, t \in Todos, v \in BOOLEAN :
                  Load(r, m, t, v)
    BY <2>0, <2>5 DEF LoadsEdit
  <2>6. ASSUME NEW todo \in Todos, LoadsOther(r, todo)
        PROVE  \E m \in Aims, t \in Todos, v \in BOOLEAN :
                  Load(r, m, t, v)
    BY <2>0, <2>6 DEF LoadsOther
  <2>7. \/ LoadsRun(r) \/ LoadsStop(r) \/ (\E aim \in Stops : LoadsCount(r, aim))
        \/ \E aim \in Edit, todo \in Todos, val \in BOOLEAN : LoadsEdit(r, aim, todo, val)
        \/ \E todo \in Todos : LoadsOther(r, todo)
    BY DEF Loads
  <2> HIDE DEF Todos
  <2> QED  BY <2>2, <2>3, <2>4, <2>5, <2>6, <2>7
<1>2. PICK aim \in Aims, todo \in Todos, val \in BOOLEAN :
         Load(r, aim, todo, val)
  BY <1>1
<1>3. /\ request' \in [Request -> RequestType] /\ request[r] = Idle
      /\ request'[r].beside = {}
      /\ \A q \in Request \ {r} : request'[q] = request[q]
      /\ UNCHANGED <<mode, check, config, counted, launcher, doc, torn, slipped>>
  BY <1>2, LoadFacts
<1>4. TypeOK'
  BY <1>3 DEF Loads, TInv, TypeOK
<1> QED  BY <1>3, <1>4, NoDocuments

\* What a writer does to the others: an edit, and what follows one, comes beside every
\* run and stop, a run or a stop beside the edits and those with another aim.
LEMMA AdvanceFacts ==
  ASSUME TInv, NEW r \in Request, NEW left \in RequestType, Advance(r, left)
  PROVE  /\ request' \in [Request -> RequestType] /\ request'[r] = left
         /\ \A q \in Request \ {r} :
               /\ request'[q].aim = request[q].aim /\ request'[q].todo = request[q].todo
               /\ request'[q].check = request[q].check
               /\ request[q].beside \subseteq request'[q].beside
               /\ request[q].aim \in {None, "document"} => request'[q] = request[q]
               /\ /\ request[q].aim \in Mode \cup Stops \cup Edit
                  /\ ~(request[q].aim \in Edit /\ request[r].aim \in Edit)
                  => request'[q].beside = request[q].beside \cup Trace(r, q)
<1> DEFINE x(q) == [request[q] EXCEPT !.beside = @ \cup Trace(r, q)]
           same(q) == \/ request[q].aim \in {None, "document"}
                      \/ request[q].aim \in Edit /\ request[r].aim \in Edit
<1>1. \A q \in Request : Trace(r, q) \in SUBSET {"move", "edit"}
  BY RequestFields DEF Trace
<1>2. ASSUME NEW q \in Request
      PROVE  /\ x(q) \in RequestType /\ x(q).aim = request[q].aim
             /\ x(q).todo = request[q].todo /\ x(q).check = request[q].check
             /\ x(q).beside = request[q].beside \cup Trace(r, q)
  <2> DEFINE y == request[q]
             t == Trace(r, q)
  <2>1. y \in RequestType /\ t \in SUBSET {"move", "edit"}
    BY <1>1, RequestFields
  <2> HIDE DEF y, t
  <2>2. LET z == [y EXCEPT !.beside = @ \cup t] IN
        /\ z \in RequestType /\ z.aim = y.aim /\ z.todo = y.todo /\ z.check = y.check
        /\ z.beside = y.beside \cup t
    BY <2>1 DEF RequestType
  <2> QED  BY <2>2 DEF y, t
<1>3. request' = [q \in Request |-> IF q = r THEN left
                                    ELSE IF same(q) THEN request[q] ELSE x(q)]
  BY DEF Advance
<1>4. \A q \in Request : request[q] \in RequestType
  BY RequestFields
<1>5. ASSUME NEW q \in Request, request[q].aim \in Mode \cup Stops \cup Edit,
             ~(request[q].aim \in Edit /\ request[r].aim \in Edit)
      PROVE  ~same(q)
  <2>1. request[q].aim \in Aims /\ request[q].aim # "document"
    BY <1>5 DEF Mode, Stops, Edit, Aims
  <2> QED  BY <1>5, <2>1
<1> HIDE DEF x, same
<1>6. request' \in [Request -> RequestType] /\ request'[r] = left
  BY <1>2, <1>3, <1>4
<1>7. ASSUME NEW q \in Request \ {r}
      PROVE  /\ request'[q].aim = request[q].aim /\ request'[q].todo = request[q].todo
             /\ request'[q].check = request[q].check
             /\ request[q].beside \subseteq request'[q].beside
             /\ ~same(q) => request'[q].beside = request[q].beside \cup Trace(r, q)
  <2>1. request'[q] = IF same(q) THEN request[q] ELSE x(q)
    BY <1>3
  <2> QED  BY <1>2, <2>1
<1>8. ASSUME NEW q \in Request \ {r}, request[q].aim \in {None, "document"}
      PROVE  request'[q] = request[q]
  BY <1>3, <1>8 DEF same
<1> QED  BY <1>5, <1>6, <1>7, <1>8

\* A configuration is written, as it was loaded or into what is stored; the request's own
\* list is one shorter.
WriteOf(r, a) ==
    LET loaded == request[r].todo[a] IN
    /\ request[r].aim \in Mode /\ a \in Left(r)
    /\ config' \in Config /\ config'[a].active = loaded.active
    /\ \/ config'[a] = loaded
       \/ /\ config'[a].shape = config[a].shape /\ config'[a].retired = config[a].retired
          /\ config'[a].valid = config[a].valid
    /\ \A b \in Action \ {a} : config'[b] = config[b]
    /\ request'[r].aim = request[r].aim /\ request'[r].check = request[r].check
    /\ request'[r].beside = request[r].beside /\ request'[r].todo[a] = None
    /\ \A b \in Action \ {a} : request'[r].todo[b] = request[r].todo[b]

LEMMA WriteFacts ==
  ASSUME TInv, NEW r \in Request, Write(r)
  PROVE  /\ \E a \in Action : WriteOf(r, a)
         /\ \E left \in RequestType : Advance(r, left)
         /\ request' \in [Request -> RequestType]
<1>1. PICK i \in 1..Len(Order) :
         /\ Order[i] \in Left(r)
         /\ \E new \in {request[r].todo[Order[i]],
                        [config[Order[i]] EXCEPT !.active = request[r].todo[Order[i]].active]} :
               config' = [config EXCEPT ![Order[i]] = new]
         /\ Advance(r, [request[r] EXCEPT !.todo[Order[i]] = None])
  BY DEF Write
<1> DEFINE a == Order[i]
           loaded == request[r].todo[a]
           y == request[r]
           left == [y EXCEPT !.todo[a] = None]
           c == config[a]
           merged == [c EXCEPT !.active = loaded.active]
<1>2. /\ a \in Action /\ loaded \in ActionConfig /\ loaded.active \in BOOLEAN
      /\ y \in RequestType /\ c \in ActionConfig /\ config \in Config
  BY <1>1, LeftFields, RequestFields DEF TInv, TypeOK, Config
<1>3. PICK new \in {loaded, merged} : config' = [config EXCEPT ![a] = new]
  BY <1>1
<1>4. Advance(r, left)
  BY <1>1
<1>5. /\ merged \in ActionConfig /\ merged.active = loaded.active /\ merged.shape = c.shape
      /\ merged.retired = c.retired /\ merged.valid = c.valid
  <2> HIDE DEF c, loaded
  <2> QED  BY <1>2 DEF ActionConfig
<1>6. /\ left \in RequestType /\ left.aim = y.aim /\ left.check = y.check
      /\ left.beside = y.beside /\ left.todo[a] = None
      /\ \A b \in Action \ {a} : left.todo[b] = y.todo[b]
  <2> HIDE DEF y, a
  <2> QED  BY <1>2 DEF RequestType
<1>7. request' \in [Request -> RequestType] /\ request'[r] = left
  BY <1>4, <1>6, AdvanceFacts
<1>8. /\ config' \in Config /\ config'[a] = new /\ \A b \in Action \ {a} : config'[b] = config[b]
  <2> HIDE DEF a, loaded, merged, c
  <2> QED  BY <1>2, <1>3, <1>5 DEF Config
<1>9. /\ config'[a].active = loaded.active
      /\ \/ config'[a] = loaded
         \/ /\ config'[a].shape = config[a].shape /\ config'[a].retired = config[a].retired
            /\ config'[a].valid = config[a].valid
  BY <1>3, <1>5, <1>8
<1>10. request[r].aim \in Mode /\ a \in Left(r)
  BY <1>1 DEF Write
<1> HIDE DEF a, left, loaded
<1>11. WriteOf(r, a)
  <2>1. /\ request'[r].aim = request[r].aim /\ request'[r].check = request[r].check
        /\ request'[r].beside = request[r].beside /\ request'[r].todo[a] = None
        /\ \A b \in Action \ {a} : request'[r].todo[b] = request[r].todo[b]
    BY <1>6, <1>7
  <2> QED  BY <1>8, <1>9, <1>10, <2>1 DEF WriteOf, loaded
<1> QED  BY <1>2, <1>4, <1>6, <1>7, <1>11

\* A configuration of an edit is stored.
StoreOf(r, a) ==
    LET new == request[r].todo[a] IN
    /\ a \in Left(r) /\ config' \in Config
    /\ \/ config'[a] = new
       \/ config'[a].valid = config[a].valid /\ config'[a].active = config[a].active
    /\ \A b \in Action \ {a} : config'[b] = config[b]

LEMMA StoreFacts ==
  ASSUME TInv, NEW r \in Request, Store(r)
  PROVE  /\ request[r].aim \in Edit /\ Advance(r, Idle)
         /\ mode' \in {mode, "stopped"} /\ check' \in BOOLEAN
         /\ UNCHANGED config \/ \E a \in Action : StoreOf(r, a)
         /\ torn' = (torn \/ request[r].beside # {})
         /\ slipped' = (slipped \/ request[r].beside # {})
         /\ launcher' \in [Launcher -> [view : View, changed : BOOLEAN, up : BOOLEAN]]
         /\ \A l \in Launcher : launcher'[l].view = launcher[l].view
         /\ UNCHANGED <<counted, doc, incidents>>
<1>0. /\ config \in Config /\ check \in BOOLEAN
      /\ launcher \in [Launcher -> [view : View, changed : BOOLEAN, up : BOOLEAN]]
  BY DEF TInv, TypeOK
<1>1. /\ request[r].aim \in Edit /\ Advance(r, Idle)
      /\ torn' = (torn \/ request[r].beside # {})
      /\ slipped' = (slipped \/ request[r].beside # {})
      /\ UNCHANGED <<counted, doc, incidents>>
  BY DEF Store
<1>2. CASE request[r].aim = "check"
  BY <1>0, <1>1, <1>2, RequestFields DEF Store
<1>3. CASE request[r].aim # "check"
  <2>1. PICK a \in Left(r) :
           \/ config' = [config EXCEPT ![a] = request[r].todo[a]]
           \/ config' = [config EXCEPT ![a] = [config[a] EXCEPT
                                                  !.retired = request[r].todo[a].retired]]
    BY <1>3 DEF Store
  <2> DEFINE new == request[r].todo[a]
             c == config[a]
             merged == [c EXCEPT !.retired = new.retired]
  <2>2. a \in Action /\ new \in ActionConfig /\ new.retired \in BOOLEAN /\ c \in ActionConfig
    BY <1>0, LeftFields DEF Config
  <2>3. merged \in ActionConfig /\ merged.valid = c.valid /\ merged.active = c.active
    <3> HIDE DEF c, new
    <3> QED  BY <2>2 DEF ActionConfig
  <2>4. PICK x \in {new, merged} : config' = [config EXCEPT ![a] = x]
    BY <2>1
  <2>5. config' \in Config /\ config'[a] = x /\ \A b \in Action \ {a} : config'[b] = config[b]
    <3> HIDE DEF merged, c, new
    <3> QED  BY <1>0, <2>2, <2>3, <2>4 DEF Config
  <2>6. config'[a] = new \/ (config'[a].valid = config[a].valid
                             /\ config'[a].active = config[a].active)
    BY <2>3, <2>4, <2>5
  <2>7. StoreOf(r, a)
    BY <2>5, <2>6 DEF StoreOf
  <2>8. Changed /\ UNCHANGED <<mode, check>>
    BY <1>3 DEF Store
  <2>9. /\ launcher' \in [Launcher -> [view : View, changed : BOOLEAN, up : BOOLEAN]]
        /\ \A l \in Launcher : launcher'[l].view = launcher[l].view
    BY <1>0, <2>8 DEF Changed
  <2> QED  BY <1>0, <1>1, <2>2, <2>7, <2>8, <2>9
<1> QED  BY <1>2, <1>3

\* A stop that has counted: it writes all or the collects, or waits.
LEMMA StopWithFacts ==
  ASSUME TInv, NEW r \in Request, request[r].aim \in Stops, NEW count, StopWith(r, count)
  PROVE  /\ request' \in [Request -> RequestType]
         /\ \A q \in Request \ {r} : request'[q] = request[q]
         /\ \/ request'[r] = Idle
            \/ /\ request'[r].check = request[r].check /\ request'[r].beside = request[r].beside
               /\ request'[r].aim = "stopped" /\ request'[r].todo = request[r].todo
            \/ /\ request'[r].check = request[r].check /\ request'[r].beside = request[r].beside
               /\ request'[r].aim = "stopping" /\ request[r].aim = "stop"
               /\ \A a \in Action :
                     request'[r].todo[a] =
                        IF a \in Left(r) /\ request[r].todo[a].shape.kind = "collect"
                        THEN request[r].todo[a] ELSE None
<1> DEFINE none == count \cap docspec_strings(r) = {}
           todo == request[r].todo
           y == request[r]
           later == [a \in Action |-> IF todo[a] # None /\ todo[a].shape.kind = "collect"
                                      THEN todo[a] ELSE None]
<1>1. y \in RequestType /\ todo \in [Action -> ActionConfig \cup {None}]
      /\ request \in [Request -> RequestType]
  BY RequestFields DEF TInv, TypeOK
<1>2. later \in [Action -> ActionConfig \cup {None}]
  BY <1>1
<1>3. ASSUME NEW m \in {"stopped", "stopping"}, NEW t \in [Action -> ActionConfig \cup {None}]
      PROVE  LET z == [y EXCEPT !.aim = m, !.todo = t] IN
             /\ z \in RequestType /\ z.aim = m /\ z.todo = t /\ z.check = y.check
             /\ z.beside = y.beside
  <2>1. m \in Aims
    BY DEF Aims, Mode
  <2> HIDE DEF y
  <2> QED  BY <1>1, <2>1 DEF RequestType
<1>4. \E x : /\ request' = [request EXCEPT ![r] = x]
             /\ \/ ~none /\ y.aim # "stop" /\ x = Idle
                \/ none /\ x = [y EXCEPT !.aim = "stopped", !.todo = todo]
                \/ ~none /\ y.aim = "stop" /\ x = [y EXCEPT !.aim = "stopping", !.todo = later]
  <2> DEFINE move == IF none THEN move_to_stopped(todo) ELSE move_to_stopping(todo)
  <2>1. request' = [request EXCEPT ![r] = IF ~none /\ @.aim # "stop" THEN Idle
                                          ELSE [@ EXCEPT !.aim = move.aim, !.todo = move.todo]]
    BY DEF StopWith
  <2>2. move_to_stopped(todo).aim = "stopped" /\ move_to_stopped(todo).todo = todo
    BY DEF move_to_stopped
  <2>3. move_to_stopping(todo).aim = "stopping" /\ move_to_stopping(todo).todo = later
    BY DEF move_to_stopping
  <2> HIDE DEF none, later, todo
  <2>4. CASE ~none /\ y.aim # "stop"
    BY <2>1, <2>4
  <2>5. CASE none
    BY <2>1, <2>2, <2>5
  <2>6. CASE ~none /\ y.aim = "stop"
    BY <2>1, <2>3, <2>6
  <2> QED  BY <2>4, <2>5, <2>6
<1>5. PICK x : /\ request' = [request EXCEPT ![r] = x]
               /\ \/ ~none /\ y.aim # "stop" /\ x = Idle
                  \/ none /\ x = [y EXCEPT !.aim = "stopped", !.todo = todo]
                  \/ ~none /\ y.aim = "stop" /\ x = [y EXCEPT !.aim = "stopping", !.todo = later]
  BY <1>4
<1>6. \/ x = Idle
      \/ x \in RequestType /\ x.aim = "stopped" /\ x.todo = todo /\ x.check = y.check
         /\ x.beside = y.beside
      \/ x \in RequestType /\ x.aim = "stopping" /\ x.todo = later /\ x.check = y.check
         /\ x.beside = y.beside /\ y.aim = "stop"
  <2> HIDE DEF none, later, todo, y
  <2>1. todo \in [Action -> ActionConfig \cup {None}]
    BY <1>1
  <2>2. CASE x = [y EXCEPT !.aim = "stopped", !.todo = todo]
    <3>1. LET z == [y EXCEPT !.aim = "stopped", !.todo = todo] IN
          /\ z \in RequestType /\ z.aim = "stopped" /\ z.todo = todo /\ z.check = y.check
          /\ z.beside = y.beside
      BY <1>3, <2>1
    <3> QED  BY <2>2, <3>1
  <2>3. CASE x = [y EXCEPT !.aim = "stopping", !.todo = later] /\ y.aim = "stop"
    <3>1. LET z == [y EXCEPT !.aim = "stopping", !.todo = later] IN
          /\ z \in RequestType /\ z.aim = "stopping" /\ z.todo = later /\ z.check = y.check
          /\ z.beside = y.beside
      BY <1>2, <1>3
    <3> QED  BY <2>3, <3>1
  <2> QED  BY <1>5, <2>2, <2>3
<1>7. x \in RequestType
  <2> HIDE DEF none, later, todo, y
  <2> QED  BY <1>6, IdleType
<1>8. request'[r] = x /\ request' \in [Request -> RequestType]
      /\ \A q \in Request \ {r} : request'[q] = request[q]
  BY <1>1, <1>5, <1>7
<1>9. \A a \in Action : later[a] = IF a \in Left(r) /\ todo[a].shape.kind = "collect"
                                   THEN todo[a] ELSE None
  BY DEF Left
<1> HIDE DEF none, later
<1> QED  BY <1>6, <1>8, <1>9

-----------------------------------------------------------------------------
(* Types: the steps *)

\* A document request is answered or refused.
Drops(r) ==
    /\ request[r].aim = "document"
    /\ request' = [request EXCEPT ![r] = Idle]
    /\ \/ UNCHANGED doc
       \/ \E a \in Action :
             /\ request[r].todo[a] # None
             /\ \/ collect(a, request[r].todo[a].shape.input)
                \/ \E d \in Doc :
                      Put(d, [Free EXCEPT !.spec = request[r].todo[a].shape.input,
                                          !.pub = TRUE, !.pending = doc[d].pending \cup {a}])
    /\ UNCHANGED <<mode, check, config, counted, launcher, torn, slipped, incidents>>

\* The steps that write to no request and no configuration.
Elsewhere ==
    \/ Count \/ CountExpires
    \/ \E l \in Launcher : refresh(l) \/ launch_agents(l)
    \/ \E l \in Launcher, a \in Action : Trigger(l, a)
    \/ \E l \in Launcher, d \in Doc : Lock(l, d)
    \/ \E d \in Doc : Process(d)

\* The kinds of steps.
LEMMA NextCases ==
  ASSUME TInv, Next
  PROVE  \/ \E r \in Request : Loads(r)
         \/ \E r \in Request : count_documents(r)
         \/ \E r \in Request : Write(r)
         \/ \E r \in Request : Finish(r)
         \/ \E r \in Request : Interrupt(r)
         \/ \E r \in Request : Store(r)
         \/ \E r \in Request : Drops(r)
         \/ \E a \in Action : ConfigurationInvalid(a)
         \/ Elsewhere
<1>1. ASSUME NEW r \in Request, NEW a \in Action, trigger_collect(r, a) PROVE Drops(r)
  <2>1. /\ request[r].aim = "document" /\ request[r].todo[a] # None
        /\ collect(a, request[r].todo[a].shape.input)
        /\ request' = [request EXCEPT ![r] = Idle]
        /\ UNCHANGED <<mode, check, config, counted, launcher, torn, slipped, incidents>>
    BY <1>1 DEF trigger_collect, Left, database, ghosts
  <2> QED  BY <2>1 DEF Drops
<1>2. ASSUME NEW r \in Request, NEW a \in Action, mark_consume(r, a) PROVE Drops(r)
  <2>1. PICK d \in Doc :
           Put(d, [Free EXCEPT !.spec = request[r].todo[a].shape.input,
                               !.pub = TRUE, !.pending = doc[d].pending \cup {a}])
    BY <1>2 DEF mark_consume
  <2>2. /\ request[r].aim = "document" /\ request[r].todo[a] # None
        /\ request' = [request EXCEPT ![r] = Idle]
        /\ UNCHANGED <<mode, check, config, counted, launcher, torn, slipped, incidents>>
    BY <1>2 DEF mark_consume, Left, database, ghosts
  <2> QED  BY <2>1, <2>2 DEF Drops
<1>3. ASSUME NEW r \in Request, refuse(r) PROVE Drops(r)
  BY <1>3 DEF refuse, Drops, database, ghosts
<1>4. ASSUME NEW r \in Request, Answer(r)
      PROVE  count_documents(r) \/ Write(r) \/ Finish(r) \/ Store(r) \/ Drops(r)
  BY <1>1, <1>2, <1>3, <1>4 DEF Answer
<1> QED  BY <1>4, AskLoads DEF Next, Elsewhere

LEMMA CountNowType ==
  ASSUME TInv
  PROVE  CountNow \in SUBSET Spec0
<1>1. \A d \in InProcess : doc[d].spec \in Spec0
  <2> SUFFICES ASSUME NEW d \in Doc, doc[d].spec # None PROVE doc[d].spec \in Spec0
    BY DEF InProcess
  <2>1. doc[d] \in DocType
    BY DEF TInv, TypeOK
  <2> QED  BY <2>1, DocFields
<1> QED  BY <1>1 DEF CountNow

LEMMA CountDocumentsType ==
  ASSUME TInv, NEW r \in Request, count_documents(r)
  PROVE  /\ TInv'
         /\ request[r].aim \in Stops /\ \E count : StopWith(r, count)
         /\ UNCHANGED <<mode, check, config, launcher, doc, torn, slipped, incidents>>
<1> DEFINE clean == request[r].aim = "clean"
           count == IF counted = None \/ clean THEN CountNow ELSE counted
<1>1. /\ request[r].aim \in Stops /\ StopWith(r, count)
      /\ counted' = IF clean THEN counted ELSE count
      /\ UNCHANGED <<mode, check, config, launcher, doc, torn, slipped, incidents>>
  BY DEF count_documents, database, ghosts
<1>2. CountNow \in SUBSET Spec0
  BY CountNowType
<1>3. counted' \in (SUBSET Spec0) \cup {None}
  BY <1>1, <1>2 DEF TInv, TypeOK
<1>4. request' \in [Request -> RequestType]
  <2> HIDE DEF count
  <2> QED  BY <1>1, StopWithFacts
<1>5. TypeOK'
  BY <1>1, <1>3, <1>4 DEF TInv, TypeOK
<1> HIDE DEF count
<1> QED  BY <1>1, <1>5, NoDocuments

LEMMA ChangedType ==
  ASSUME TInv, Changed
  PROVE  /\ launcher' \in [Launcher -> [view : View, changed : BOOLEAN, up : BOOLEAN]]
         /\ \A l \in Launcher : launcher'[l].view = launcher[l].view
  BY DEF TInv, TypeOK, Changed

LEMMA WriteType ==
  ASSUME TInv, NEW r \in Request, Write(r)
  PROVE  TInv'
<1>1. config' \in Config /\ request' \in [Request -> RequestType]
  BY WriteFacts DEF WriteOf
<1>2. /\ Changed /\ torn' \in BOOLEAN /\ slipped' \in BOOLEAN
      /\ UNCHANGED <<mode, check, counted, doc, incidents>>
  BY DEF Write, TInv, TypeOK
<1>3. TypeOK'
  BY <1>1, <1>2, ChangedType DEF TInv, TypeOK
<1> QED  BY <1>2, <1>3, NoDocuments

LEMMA FinishFacts ==
  ASSUME TInv, NEW r \in Request, Finish(r)
  PROVE  /\ request[r].aim \in Mode /\ Left(r) = {} /\ mode' = request[r].aim
         /\ check' \in {check, request[r].check} /\ check' \in BOOLEAN
         /\ Advance(r, Idle)
         /\ torn' = \/ request[r].beside # {}
                    \/ torn /\ (request[r].aim = "stopping" \/ ValidActions(config) # Action)
         /\ slipped' = ("edit" \in request[r].beside)
         /\ UNCHANGED <<config, counted, launcher, doc, incidents>>
<1>1. check \in BOOLEAN /\ request[r].check \in BOOLEAN
  BY RequestFields DEF TInv, TypeOK
<1> QED  BY <1>1 DEF Finish

LEMMA FinishType ==
  ASSUME TInv, NEW r \in Request, Finish(r)
  PROVE  TInv'
<1>1. request' \in [Request -> RequestType]
  BY FinishFacts, AdvanceFacts, IdleType
<1>2. mode' \in Mode /\ check' \in BOOLEAN
  BY FinishFacts
<1>3. torn' \in BOOLEAN /\ slipped' \in BOOLEAN
  BY DEF Finish, TInv, TypeOK
<1>4. TypeOK'
  BY <1>1, <1>2, <1>3, FinishFacts DEF TInv, TypeOK
<1> QED  BY <1>4, FinishFacts, NoDocuments

\* A request becomes idle.
LEMMA IdleFacts ==
  ASSUME TInv, NEW r \in Request, request' = [request EXCEPT ![r] = Idle]
  PROVE  /\ request' \in [Request -> RequestType] /\ request'[r] = Idle
         /\ \A q \in Request \ {r} : request'[q] = request[q]
<1>1. request \in [Request -> RequestType]
  BY DEF TInv, TypeOK
<1> QED  BY <1>1, IdleType

LEMMA InterruptType ==
  ASSUME TInv, NEW r \in Request, Interrupt(r)
  PROVE  TInv'
<1>1. request' \in [Request -> RequestType]
  BY IdleFacts DEF Interrupt
<1>2. incidents' \in 0..MaxIncidents
  BY IncidentType DEF Interrupt
<1>3. TypeOK'
  BY <1>1, <1>2 DEF TInv, TypeOK, Interrupt, database
<1> QED  BY <1>3, NoDocuments DEF Interrupt

LEMMA StoreType ==
  ASSUME TInv, NEW r \in Request, Store(r)
  PROVE  TInv'
<1>1. request' \in [Request -> RequestType]
  BY StoreFacts, AdvanceFacts, IdleType
<1>2. config' \in Config
  BY StoreFacts DEF StoreOf, TInv, TypeOK
<1>3. mode' \in Mode /\ torn' \in BOOLEAN /\ slipped' \in BOOLEAN
  BY StoreFacts DEF TInv, TypeOK, Mode
<1>4. TypeOK'
  BY <1>1, <1>2, <1>3, StoreFacts DEF TInv, TypeOK
<1> QED  BY <1>4, StoreFacts, NoDocuments

\* The document for a request: to be collected, or one to be consumed (once more).
LEMMA DropsType ==
  ASSUME TInv, NEW r \in Request, Drops(r)
  PROVE  TInv'
<1>1. request' \in [Request -> RequestType]
  BY IdleFacts DEF Drops
<1>2. TypeOK' <=> doc' \in [Doc -> DocType]
  BY <1>1 DEF Drops, TInv, TypeOK
<1>3. CASE UNCHANGED doc
  BY <1>2, <1>3, NoDocuments DEF TInv, TypeOK
<1>4. ASSUME NEW a \in Action, request[r].todo[a] # None
      PROVE  request[r].todo[a].shape.input \in Spec0
  BY <1>4, LeftFields, ShapeFields DEF Left
<1>5. ASSUME NEW a \in Action, request[r].todo[a] # None,
             collect(a, request[r].todo[a].shape.input)
      PROVE  TInv'
  BY <1>2, <1>4, <1>5, CollectType DEF TInv
<1>6. ASSUME NEW a \in Action, request[r].todo[a] # None, NEW d \in Doc,
             Put(d, [Free EXCEPT !.spec = request[r].todo[a].shape.input,
                                 !.pub = TRUE, !.pending = doc[d].pending \cup {a}])
      PROVE  TInv'
  <2> DEFINE spec == request[r].todo[a].shape.input
             p == doc[d].pending \cup {a}
             x == [Free EXCEPT !.spec = spec, !.pub = TRUE, !.pending = p]
  <2>1. spec \in Spec0 /\ p \in SUBSET Action
    BY <1>4, <1>6, DocFields DEF TInv, TypeOK
  <2>2. x \in DocType /\ x.spec # None
    <3> HIDE DEF spec, p
    <3>1. x \in DocType /\ x.spec = spec
      BY <2>1, PendingType
    <3> QED  BY <2>1, <3>1
  <2>3. Put(d, x)
    BY <1>6
  <2> HIDE DEF x
  <2> QED  BY <1>2, <2>2, <2>3, PutType DEF TInv
<1> QED  BY <1>3, <1>5, <1>6 DEF Drops

LEMMA InvalidType ==
  ASSUME TInv, NEW a \in Action, ConfigurationInvalid(a)
  PROVE  /\ TInv'
         /\ config'[a].shape = config[a].shape /\ config'[a].active = config[a].active
         /\ config'[a].retired = config[a].retired /\ ~config'[a].valid
         /\ \A b \in Action \ {a} : config'[b] = config[b]
         /\ \A l \in Launcher : launcher'[l].view = launcher[l].view
         /\ UNCHANGED <<mode, check, request, counted, doc, torn, slipped>>
         /\ \A r \in Request : request[r] = Idle
<1>1. /\ config' = [config EXCEPT ![a].valid = FALSE] /\ config \in Config
      /\ UNCHANGED <<mode, check, request, counted, doc, torn, slipped>>
      /\ Changed /\ \A r \in Request : request[r] = Idle
  BY DEF ConfigurationInvalid, TInv, TypeOK, Busy
<1>2. /\ config' \in Config
      /\ config'[a].shape = config[a].shape /\ config'[a].active = config[a].active
      /\ config'[a].retired = config[a].retired /\ ~config'[a].valid
      /\ \A b \in Action \ {a} : config'[b] = config[b]
  BY <1>1 DEF Config, ActionConfig
<1>3. incidents' \in 0..MaxIncidents
  BY IncidentType DEF ConfigurationInvalid
<1>4. TypeOK'
  BY <1>1, <1>2, <1>3, ChangedType DEF TInv, TypeOK
<1> QED  BY <1>1, <1>2, <1>4, ChangedType, NoDocuments

LEMMA CountType ==
  ASSUME TInv, Count \/ CountExpires
  PROVE  TInv'
<1>1. CountNow \in SUBSET Spec0
  BY CountNowType
<1>2. counted' \in (SUBSET Spec0) \cup {None}
  BY <1>1 DEF Count, CountExpires
<1>3. UNCHANGED <<database, request, launcher, doc, ghosts>>
  BY DEF Count, CountExpires
<1>4. TypeOK'
  BY <1>2, <1>3 DEF TInv, TypeOK, database, ghosts
<1> QED  BY <1>3, <1>4, NoDocuments

LEMMA LauncherType ==
  ASSUME TInv, NEW l \in Launcher, refresh(l) \/ launch_agents(l)
  PROVE  TInv'
<1> DEFINE LType == [Launcher -> [view : View, changed : BOOLEAN, up : BOOLEAN]]
<1>1. launcher' \in LType
  <2>1. PointersTo(config) \in View /\ launcher \in LType
    BY PointersType DEF TInv, TypeOK
  <2>2. CASE refresh(l)
    BY <2>1, <2>2 DEF refresh
  <2>3. CASE launch_agents(l)
    BY <2>1, <2>3 DEF launch_agents
  <2> QED  BY <2>2, <2>3
<1>2. UNCHANGED <<database, request, counted, doc, ghosts>>
  BY DEF refresh, launch_agents
<1>3. TypeOK'
  BY <1>1, <1>2 DEF TInv, TypeOK, database, ghosts
<1> QED  BY <1>2, <1>3, NoDocuments

\* A step elsewhere changes nothing in the database and no request.
LEMMA ElsewhereFrame ==
  ASSUME Elsewhere
  PROVE  UNCHANGED <<mode, check, config, request, torn, slipped>>
<1>1. ASSUME NEW d \in Doc, Process(d) PROVE UNCHANGED <<database, request, ghosts>>
  BY <1>1 DEF Process, Execute, Publish, Fail, Undefined, OnlyDocuments
<1>2. CASE \E l \in Launcher : refresh(l) \/ launch_agents(l)
  BY <1>2 DEF refresh, launch_agents, ghosts, database
<1>3. CASE \/ \E l \in Launcher, a \in Action : Trigger(l, a)
           \/ \E l \in Launcher, d \in Doc : Lock(l, d)
  BY <1>3 DEF Trigger, Lock, OnlyDocuments, ghosts, database
<1>4. CASE Count \/ CountExpires
  BY <1>4 DEF Count, CountExpires, ghosts, database
<1> QED  BY <1>1, <1>2, <1>3, <1>4 DEF Elsewhere, ghosts, database

LEMMA ElsewhereType ==
  ASSUME TInv, Elsewhere
  PROVE  TInv'
  BY CountType, LauncherType, TriggerType, LockType, ProcessType DEF Elsewhere

LEMMA InitType == Init => TInv
<1> SUFFICES ASSUME Init PROVE TInv
  OBVIOUS
<1>1. config \in Config /\ request \in [Request -> RequestType]
  <2>1. \A a \in Action : First[a] \in Shape
    OBVIOUS
  <2>2. config \in Config
    BY <2>1 DEF Init, Config, ActionConfig
  <2>3. request \in [Request -> RequestType]
    BY IdleType DEF Init
  <2> QED  BY <2>2, <2>3
<1>2. /\ doc \in [Doc -> DocType] /\ counted = None /\ incidents \in 0..MaxIncidents
      /\ launcher \in [Launcher -> [view : View, changed : BOOLEAN, up : BOOLEAN]]
  <2>1. MaxIncidents \in Nat /\ 0 \in 0..MaxIncidents
    OBVIOUS
  <2> QED  BY <2>1, FreeType DEF Init
<1>3. mode \in Mode /\ check \in BOOLEAN /\ torn \in BOOLEAN /\ slipped \in BOOLEAN
  BY DEF Init, Mode
<1>4. FreeOK
  BY DEF Init, FreeOK
<1> QED  BY <1>1, <1>2, <1>3, <1>4 DEF TInv, TypeOK

LEMMA StepTypes ==
  ASSUME TInv, Next
  PROVE  TInv'
<1>1. \A r \in Request : /\ Loads(r) => TInv'
                         /\ count_documents(r) => TInv'
                         /\ Write(r) => TInv'
                         /\ Finish(r) => TInv'
                         /\ Interrupt(r) => TInv'
                         /\ Store(r) => TInv'
                         /\ Drops(r) => TInv'
  BY LoadsType, CountDocumentsType, WriteType, FinishType, InterruptType, StoreType, DropsType
<1>2. \A a \in Action : ConfigurationInvalid(a) => TInv'
  BY InvalidType
<1>3. Elsewhere => TInv'
  BY ElsewhereType
<1>4. \/ \E r \in Request : \/ Loads(r) \/ count_documents(r) \/ Write(r)
                           \/ Finish(r) \/ Interrupt(r) \/ Store(r) \/ Drops(r)
      \/ \E a \in Action : ConfigurationInvalid(a)
      \/ Elsewhere
  BY NextCases
<1> QED  BY <1>1, <1>2, <1>3, <1>4

\* The state keeps its types, and a slot without a document is free.
THEOREM TypeInvariant == Spec => []TInv
<1>1. TInv /\ [Next]_vars => TInv'
  <2> SUFFICES ASSUME TInv, [Next]_vars PROVE TInv'
    OBVIOUS
  <2>1. CASE UNCHANGED vars
    BY <2>1 DEF vars, TInv, TypeOK, FreeOK
  <2> QED  BY <2>1, StepTypes
<1> QED  BY InitType, <1>1, PTL DEF Spec

\* The type invariant that the run checks.
THEOREM TypeCorrect == Spec => []TypeOK
<1>1. TInv => TypeOK
  BY DEF TInv
<1> QED  BY <1>1, TypeInvariant, PTL

-----------------------------------------------------------------------------
(* The invariant *)

\* A request sets the mode: it writes the flags.
Moving(r) == request[r].aim \in Mode

\* Nobody has written beside the request what it did not know of.
Orderly(r) == request[r].beside = {}

\* What a request to run or to stop has loaded is still stored but for the flags.
Kept(r) == request[r].aim \in Mode \cup Stops /\ "edit" \notin request[r].beside

\* Every docspec that an action makes is taken by one.
Handled(c) ==
    \A a \in Action : ~c[a].retired =>
        \A s \in c[a].shape.outputs : \E b \in Action : ~c[b].retired /\ c[b].shape.input = s

\* What such a request has checked holds, and it has left to write, of actions that it is
\* to write, what is stored with the new flag.
TodoOK(r) == Kept(r) =>
    /\ request[r].check = check
    /\ request[r].aim # "stopped" => actions_have_no_cycles(config)
    /\ request[r].aim = "running" /\ check => Handled(config)
    /\ \A a \in Left(r) :
          /\ a \in ValidActions(config)
          /\ request[r].todo[a].shape = config[a].shape
          /\ ~request[r].todo[a].retired /\ request[r].todo[a].valid
          /\ request[r].todo[a].active = (request[r].aim = "running")
          /\ request[r].aim = "stopping" => config[a].shape.kind = "collect"
    /\ request[r].aim \in Stops => ValidActions(config) \subseteq Left(r)

InRange(r, a) ==
    /\ a \in ValidActions(config)
    /\ request[r].aim = "stopping" => config[a].shape.kind = "collect"

\* What it does not have left has the new flag.
DoneOK(r) == Moving(r) /\ Orderly(r) =>
    \A a \in Action : InRange(r, a) /\ a \notin Left(r) =>
                         config[a].active = (request[r].aim = "running")

\* The mode from which an undisturbed request leads.
FromOK(r) == Orderly(r) =>
    /\ request[r].aim = "stop" => mode = "running"
    /\ request[r].aim = "stopping" => mode \in {"running", "stopping"}
    /\ request[r].aim \in Edit => mode = "stopped"

\* The image that an undisturbed edit has is that of a stopped workflow.
ImageOK(r) ==
    /\ request[r].aim \in Edit /\ Orderly(r) /\ ~torn
    /\ \A q \in Request : ~Moving(q)
    => \A a \in Left(r) : request[r].todo[a].valid => ~request[r].todo[a].active

RequestOK(r) == TodoOK(r) /\ DoneOK(r) /\ FromOK(r) /\ ImageOK(r)

\* The flags are those of the run mode, or of a request that has written them.
ModeOK ==
    ~torn /\ (\A r \in Request : Moving(r) => Orderly(r)) =>
        \A a \in Action :
           /\ a \in ValidActions(config) =>
                 \/ config[a].active = ActiveIn(mode, a)
                 \/ \E r \in Request : Moving(r) /\ InRange(r, a) /\ a \notin Left(r)
           /\ config[a].retired /\ config[a].valid => ~config[a].active

NoUnused == mode = "running" /\ check /\ ~slipped => Handled(config)
NoCycle  == mode # "stopped" /\ ~slipped => actions_have_no_cycles(config)

\* A set of docspecs, each made from another one of them, is not among the edges.
Acyclic(edges) ==
    ~ \E S \in (SUBSET Spec0) \ {{}} :
          \A s \in S : \E e \in edges : e[1] # e[2] /\ e[1] \in S /\ e[2] = s

Views ==
    /\ \A l \in Launcher : Acyclic(EdgesOf(launcher[l].view))
    /\ \A d \in Doc : Acyclic(EdgesOf(doc[d].view))

WInv ==
    /\ TInv
    /\ \A r \in Request : RequestOK(r)
    /\ ModeOK /\ NoUnused /\ NoCycle /\ Views

-----------------------------------------------------------------------------
(* The graph of docspecs *)

LEMMA AcyclicSubset ==
  ASSUME NEW F, NEW E \in SUBSET F, Acyclic(F)
  PROVE  Acyclic(E)
<1> SUFFICES ASSUME NEW S \in (SUBSET Spec0) \ {{}},
                    \A s \in S : \E e \in E : e[1] # e[2] /\ e[1] \in S /\ e[2] = s
             PROVE  FALSE
  BY DEF Acyclic
<1>1. \A s \in S : \E e \in F : e[1] # e[2] /\ e[1] \in S /\ e[2] = s
  OBVIOUS
<1> QED  BY <1>1 DEF Acyclic

LEMMA CyclesAcyclic ==
  ASSUME NEW c
  PROVE  actions_have_no_cycles(c) <=> Acyclic(Edges(c))
<1> DEFINE E == Edges(c)
           L == {e \in E : e[1] # e[2]}
<1>1. ASSUME NEW S, NEW s PROVE (\E e \in L : e[1] \in S /\ e[2] = s)
                                <=> (\E e \in E : e[1] # e[2] /\ e[1] \in S /\ e[2] = s)
  OBVIOUS
<1>2. actions_have_no_cycles(c) <=>
         ~ \E S \in (SUBSET Spec0) \ {{}} : \A s \in S : \E e \in L : e[1] \in S /\ e[2] = s
  BY DEF actions_have_no_cycles
<1> HIDE DEF L, E
<1>3. (~ \E S \in (SUBSET Spec0) \ {{}} : \A s \in S : \E e \in L : e[1] \in S /\ e[2] = s)
      <=> Acyclic(E)
  <2>1. Acyclic(E) <=>
           ~ \E S \in (SUBSET Spec0) \ {{}} :
                \A s \in S : \E e \in E : e[1] # e[2] /\ e[1] \in S /\ e[2] = s
    BY DEF Acyclic
  <2>2. \A S : (\A s \in S : \E e \in L : e[1] \in S /\ e[2] = s)
               <=> (\A s \in S : \E e \in E : e[1] # e[2] /\ e[1] \in S /\ e[2] = s)
    BY <1>1
  <2> QED  BY <2>1, <2>2
<1> QED  BY <1>2, <1>3 DEF E

\* Configurations with the same shapes, of which no more are valid.
LEMMA FewerEdges ==
  ASSUME NEW c \in Config, NEW n \in Config, ValidActions(n) \subseteq ValidActions(c),
         \A a \in Action : n[a].shape = c[a].shape, actions_have_no_cycles(c)
  PROVE  actions_have_no_cycles(n)
<1>1. Edges(n) \subseteq Edges(c)
  <2> SUFFICES ASSUME NEW e \in Edges(n) PROVE e \in Edges(c)
    OBVIOUS
  <2>1. PICK a \in ValidActions(n) : e \in {n[a].shape.input} \X n[a].shape.outputs
    BY DEF Edges
  <2>2. a \in ValidActions(c) /\ n[a].shape = c[a].shape
    BY <2>1 DEF ValidActions
  <2>3. e \in {c[a].shape.input} \X c[a].shape.outputs
    BY <2>1, <2>2
  <2> QED  BY <2>2, <2>3 DEF Edges
<1> QED  BY <1>1, CyclesAcyclic, AcyclicSubset

\* Nothing but flags differs.
LEMMA FlagsOnly ==
  ASSUME NEW c \in Config, NEW n \in Config,
         \A a \in Action : /\ n[a].shape = c[a].shape /\ n[a].retired = c[a].retired
                           /\ n[a].valid = c[a].valid
  PROVE  /\ ValidActions(n) = ValidActions(c)
         /\ actions_have_no_cycles(c) => actions_have_no_cycles(n)
         /\ Handled(c) => Handled(n)
<1>1. ValidActions(n) = ValidActions(c)
  BY DEF ValidActions
<1>2. Handled(c) => Handled(n)
  BY DEF Handled
<1> QED  BY <1>1, <1>2, FewerEdges

\* What run has checked.
LEMMA RunChecks ==
  ASSUME NEW c \in Config, valid(c)
  PROVE  /\ actions_have_no_cycles(c)
         /\ find_unused_output_docspecs(c) = {} => Handled(c)
<1>1. actions_have_no_cycles(c) /\ InvalidActions(c) = {}
  BY DEF valid
<1>2. ASSUME NEW a \in Action, ~c[a].retired PROVE a \in ValidActions(c)
  BY <1>1, <1>2 DEF InvalidActions, ValidActions
<1>3. ASSUME find_unused_output_docspecs(c) = {} PROVE Handled(c)
  <2> SUFFICES ASSUME NEW a \in Action, ~c[a].retired, NEW s \in c[a].shape.outputs
               PROVE  \E b \in Action : ~c[b].retired /\ c[b].shape.input = s
    BY DEF Handled
  <2>1. a \in ValidActions(c)
    BY <1>2
  <2>2. s \in Outputs(c)
    BY <2>1 DEF Outputs
  <2>3. s \in Inputs(c)
    BY <1>3, <2>2 DEF find_unused_output_docspecs
  <2> QED  BY <2>3 DEF Inputs, ValidActions
<1> QED  BY <1>1, <1>3

\* The set of active actions of a valid workflow has edges of the workflow only.
LEMMA PointersAcyclic ==
  ASSUME NEW c \in Config
  PROVE  Acyclic(EdgesOf(PointersTo(c))) /\ Acyclic(EdgesOf(NoView))
<1>1. Acyclic(EdgesOf(NoView))
  <2>1. EdgesOf(NoView) = {}
    BY DEF EdgesOf, NoView
  <2>2. ASSUME NEW S \in (SUBSET Spec0) \ {{}}
        PROVE  ~ \A s \in S : \E e \in {} : e[1] # e[2] /\ e[1] \in S /\ e[2] = s
    <3>1. PICK s \in S : TRUE
      OBVIOUS
    <3> QED  BY <3>1
  <2>3. Acyclic({})
    BY <2>2 DEF Acyclic
  <2> QED  BY <2>1, <2>3
<1>2. CASE ~valid(c)
  BY <1>1, <1>2 DEF PointersTo
<1>3. CASE valid(c)
  <2> DEFINE v == [a \in Action |-> IF a \in ValidActions(c) /\ c[a].active THEN c[a].shape
                                    ELSE None]
  <2>1. PointersTo(c) = v
    BY <1>3 DEF PointersTo
  <2>2. ASSUME NEW a \in Action, v[a] # None PROVE a \in ValidActions(c) /\ v[a] = c[a].shape
    BY <2>2
  <2>3. EdgesOf(v) \subseteq Edges(c)
    <3> SUFFICES ASSUME NEW e \in EdgesOf(v) PROVE e \in Edges(c)
      OBVIOUS
    <3> HIDE DEF v
    <3>1. PICK a \in Action : v[a] # None /\ e[1] = v[a].input /\ e[2] \in v[a].outputs
      BY DEF EdgesOf
    <3>2. e = <<e[1], e[2]>>
      BY DEF EdgesOf
    <3>3. a \in ValidActions(c) /\ e \in {c[a].shape.input} \X c[a].shape.outputs
      BY <2>2, <3>1, <3>2
    <3> QED  BY <3>3 DEF Edges
  <2>4. Acyclic(Edges(c))
    BY <1>3, CyclesAcyclic DEF valid
  <2> HIDE DEF v
  <2> QED  BY <1>1, <2>1, <2>3, <2>4, AcyclicSubset
<1> QED  BY <1>2, <1>3

-----------------------------------------------------------------------------
(* The sets that launchers and agents work with *)

LEMMA DocViews ==
  ASSUME TInv, Next, NEW d \in Doc
  PROVE  \/ doc'[d].view = doc[d].view \/ doc'[d].view = NoView
         \/ \E l \in Launcher : doc'[d].view = launcher[l].view
<1> DEFINE Same(e) == doc'[e] = doc[e]
           Kin(x) == \/ x.view = doc[d].view \/ x.view = NoView
                     \/ \E l \in Launcher : x.view = launcher[l].view
<1>0. Free.view = NoView /\ doc \in [Doc -> DocType] /\ doc[d] \in DocType
  BY DEF Free, TInv, TypeOK
<1>1. ASSUME NEW o \in Doc, NEW x, Put(o, x), o = d => Kin(x) PROVE Kin(doc'[d])
  <2>1. doc' = [doc EXCEPT ![o] = x]
    BY <1>1 DEF Put
  <2>2. CASE o = d
    <3>1. doc'[d] = x
      BY <1>0, <2>1, <2>2
    <3> QED  BY <1>1, <2>2, <3>1
  <2>3. CASE o # d
    <3>1. doc'[d] = doc[d]
      BY <1>0, <2>1, <2>3
    <3> QED  BY <3>1
  <2> QED  BY <2>2, <2>3
<1>2. ASSUME UNCHANGED doc PROVE Kin(doc'[d])
  BY <1>2
<1>3. ASSUME NEW spec, NEW p, NEW b
      PROVE  /\ [Free EXCEPT !.spec = spec, !.pending = p].view = NoView
             /\ [Free EXCEPT !.spec = spec, !.pub = b, !.pending = p].view = NoView
  BY DEF Free
<1>4. ASSUME NEW a, NEW spec, collect(a, spec) PROVE Kin(doc'[d])
  <2>1. PICK o \in Doc : Put(o, [Free EXCEPT !.spec = spec, !.pending = {a}])
    BY <1>4 DEF collect
  <2> QED  BY <1>1, <1>3, <2>1
<1>5. ASSUME NEW r \in Request, Drops(r) PROVE Kin(doc'[d])
  <2>1. ASSUME NEW a \in Action, NEW o \in Doc,
               Put(o, [Free EXCEPT !.spec = request[r].todo[a].shape.input,
                                   !.pub = TRUE, !.pending = doc[o].pending \cup {a}])
        PROVE  Kin(doc'[d])
    BY <1>1, <1>3, <2>1
  <2> HIDE DEF Kin
  <2> QED  BY <1>2, <1>4, <1>5, <2>1 DEF Drops
<1>6. ASSUME NEW l \in Launcher, NEW a \in Action, Trigger(l, a) PROVE Kin(doc'[d])
  <2>1. collect(a, launcher[l].view[a].input)
    BY <1>6 DEF Trigger
  <2> QED  BY <1>4, <2>1
<1>7. ASSUME NEW l \in Launcher, NEW o \in Doc, Lock(l, o) PROVE Kin(doc'[d])
  <2> DEFINE y == doc[o]
             w == launcher[l].view
             x == [y EXCEPT !.by = l, !.view = w]
  <2>1. Put(o, x) /\ y \in DocType
    BY <1>0, <1>7 DEF Lock
  <2>2. x.view = w
    <3> HIDE DEF y, w
    <3> QED  BY <2>1 DEF DocType
  <2>3. Kin(x)
    BY <2>2
  <2> HIDE DEF x, Kin
  <2> QED  BY <1>1, <2>1, <2>3
<1>8. ASSUME NEW o \in Doc, NEW a \in Action, Fail(o, a) \/ Undefined(o, a) PROVE Kin(doc'[d])
  <2>1. Put(o, Free)
    BY <1>8 DEF Fail, Undefined, Failed
  <2> QED  BY <1>0, <1>1, <2>1
<1>9. ASSUME NEW o \in Doc, NEW a \in Action, Publish(o, a) PROVE Kin(doc'[d])
  <2>1. PICK spec, p : Put(o, IF p = {} THEN Free
                              ELSE [doc[o] EXCEPT !.spec = spec, !.pending = p])
    BY <1>9 DEF Publish
  <2> DEFINE y == doc[o]
             z == [y EXCEPT !.spec = spec, !.pending = p]
             x == IF p = {} THEN Free ELSE z
  <2>2. y \in DocType
    BY <1>0
  <2>3. z.view = y.view
    <3> HIDE DEF y
    <3> QED  BY <2>2 DEF DocType
  <2>4. o = d => Kin(x)
    <3> HIDE DEF z
    <3> QED  BY <1>0, <2>3
  <2>5. Put(o, x)
    BY <2>1
  <2> HIDE DEF x, Kin
  <2> QED  BY <1>1, <2>4, <2>5
<1>10. ASSUME NEW o \in Doc, NEW a \in Action, Execute(o, a) PROVE Kin(doc'[d])
  <2>1. Remains(o, a).view = doc[o].view \/ Remains(o, a).view = NoView
    <3> DEFINE y == doc[o]
               q == y.pending \ {a}
    <3>1. y \in DocType
      BY <1>0
    <3>2. [y EXCEPT !.pending = q].view = y.view
      <4> HIDE DEF q, y
      <4> QED  BY <3>1 DEF DocType
    <3>3. Without(o, a) = Free \/ Without(o, a) = [y EXCEPT !.pending = q]
      BY DEF Without
    <3> HIDE DEF q, y
    <3>4. Without(o, a).view = y.view \/ Without(o, a).view = NoView
      BY <1>0, <3>2, <3>3
    <3> QED  BY <1>0, <3>4 DEF Remains, y
  <2>2. CASE Put(o, Remains(o, a))
    BY <1>1, <2>1, <2>2
  <2>3. ASSUME NEW spec \in doc[o].view[a].outputs, NEW e \in Doc,
               doc' = [doc EXCEPT ![o] = Remains(o, a), ![e] = Created(o, a, spec)]
        PROVE  Kin(doc'[d])
    <3>1. Created(o, a, spec).view = NoView
      BY <1>3 DEF Created
    <3>2. \/ doc'[d] = doc[d] \/ (o = d /\ doc'[d] = Remains(o, a))
          \/ doc'[d] = Created(o, a, spec)
      BY <1>0, <2>3
    <3> QED  BY <2>1, <3>1, <3>2
  <2> HIDE DEF Kin
  <2> QED  BY <1>10, <2>2, <2>3, ExecuteCases
<1>11. ASSUME NEW o \in Doc, Process(o) PROVE Kin(doc'[d])
  <2> HIDE DEF Kin
  <2> QED  BY <1>8, <1>9, <1>10, <1>11 DEF Process
<1>12. ASSUME Elsewhere PROVE Kin(doc'[d])
  <2>1. CASE \/ Count \/ CountExpires \/ \E l \in Launcher : refresh(l) \/ launch_agents(l)
    BY <1>2, <2>1 DEF Count, CountExpires, refresh, launch_agents
  <2> HIDE DEF Kin
  <2> QED  BY <1>6, <1>7, <1>11, <1>12, <2>1 DEF Elsewhere
<1>13. ASSUME NEW r \in Request,
              Loads(r) \/ count_documents(r) \/ Write(r) \/ Finish(r) \/ Interrupt(r) \/ Store(r)
       PROVE  UNCHANGED doc
  <2>1. CASE Loads(r)
    BY <2>1, LoadsType
  <2>2. CASE count_documents(r)
    BY <2>2, CountDocumentsType
  <2>3. CASE Write(r) \/ Finish(r) \/ Interrupt(r) \/ Store(r)
    BY <2>3 DEF Write, Finish, Interrupt, Store
  <2> QED  BY <1>13, <2>1, <2>2, <2>3
<1>14. ASSUME NEW a \in Action, ConfigurationInvalid(a) PROVE UNCHANGED doc
  BY <1>14 DEF ConfigurationInvalid
<1>15. Kin(doc'[d])
  <2> HIDE DEF Kin
  <2> QED  BY <1>2, <1>5, <1>12, <1>13, <1>14, NextCases
<1> QED  BY <1>15

LEMMA LauncherViews ==
  ASSUME TInv, Next, NEW l \in Launcher
  PROVE  launcher'[l].view = launcher[l].view \/ launcher'[l].view = PointersTo(config)
<1> DEFINE Kin == launcher'[l].view = launcher[l].view
                  \/ launcher'[l].view = PointersTo(config)
<1>0. launcher \in [Launcher -> [view : View, changed : BOOLEAN, up : BOOLEAN]]
  BY DEF TInv, TypeOK
<1>1. ASSUME UNCHANGED launcher PROVE Kin
  BY <1>1
<1>2. ASSUME NEW k \in Launcher, refresh(k) \/ launch_agents(k) PROVE Kin
  <2>1. CASE refresh(k)
    BY <1>0, <2>1 DEF refresh
  <2>2. CASE launch_agents(k)
    BY <1>0, <2>2 DEF launch_agents
  <2> QED  BY <1>2, <2>1, <2>2
<1>3. ASSUME NEW r \in Request,
             Loads(r) \/ count_documents(r) \/ Finish(r) \/ Interrupt(r) \/ Drops(r)
      PROVE  UNCHANGED launcher
  <2>1. CASE Loads(r)
    BY <2>1, LoadsType
  <2>2. CASE count_documents(r)
    BY <2>2, CountDocumentsType
  <2>3. CASE Finish(r) \/ Interrupt(r) \/ Drops(r)
    BY <2>3 DEF Drops, Finish, Interrupt
  <2> QED  BY <1>3, <2>1, <2>2, <2>3
<1>4. ASSUME NEW r \in Request, Write(r) \/ Store(r) PROVE Kin
  <2>1. CASE Write(r)
    BY <2>1, ChangedType DEF Write
  <2>2. CASE Store(r)
    BY <2>2, StoreFacts
  <2> QED  BY <1>4, <2>1, <2>2
<1>5. ASSUME NEW a \in Action, ConfigurationInvalid(a) PROVE Kin
  BY <1>5, InvalidType
<1>6. ASSUME Elsewhere PROVE Kin
  <2>1. ASSUME Count \/ CountExpires PROVE UNCHANGED launcher
    BY <2>1 DEF Count, CountExpires
  <2>2. ASSUME \/ \E k \in Launcher, a \in Action : Trigger(k, a)
               \/ \E k \in Launcher, d \in Doc : Lock(k, d)
               \/ \E d \in Doc : Process(d)
        PROVE  UNCHANGED launcher
    BY <2>2 DEF Trigger, Lock, Process, Execute, Publish, Fail, Undefined, OnlyDocuments
  <2> HIDE DEF Kin
  <2> QED  BY <1>1, <1>2, <1>6, <2>1, <2>2 DEF Elsewhere
<1>7. Kin
  <2> HIDE DEF Kin
  <2> QED  BY <1>1, <1>3, <1>4, <1>5, <1>6, NextCases
<1> QED  BY <1>7

LEMMA ViewsStep ==
  ASSUME TInv, Views, Next
  PROVE  Views'
<1>1. \A c \in Config : Acyclic(EdgesOf(PointersTo(c))) /\ Acyclic(EdgesOf(NoView))
  BY PointersAcyclic
<1>2. ASSUME NEW l \in Launcher PROVE Acyclic(EdgesOf(launcher'[l].view))
  <2>1. Acyclic(EdgesOf(launcher[l].view)) /\ config \in Config
    BY DEF Views, TInv, TypeOK
  <2> QED  BY <1>1, <2>1, LauncherViews
<1>3. ASSUME NEW d \in Doc PROVE Acyclic(EdgesOf(doc'[d].view))
  <2>1. /\ Acyclic(EdgesOf(doc[d].view)) /\ config \in Config
        /\ \A l \in Launcher : Acyclic(EdgesOf(launcher[l].view))
    BY DEF Views, TInv, TypeOK
  <2> QED  BY <1>1, <2>1, DocViews
<1> QED  BY <1>2, <1>3 DEF Views, EdgesOf, Acyclic

-----------------------------------------------------------------------------
(* A step and the requests that do not take it *)

\* The requests are as they were, and so is what they go by.
LEMMA SameRequest ==
  ASSUME NEW q \in Request, RequestOK(q), request'[q] = request[q],
         UNCHANGED <<mode, check, config, torn>>,
         (\A r \in Request : ~Moving(r)') => \A r \in Request : ~Moving(r)
  PROVE  RequestOK(q)'
<1>1. Left(q)' = Left(q) /\ Kept(q)' = Kept(q) /\ Moving(q)' = Moving(q)
      /\ Orderly(q)' = Orderly(q)
  BY DEF Left, Kept, Moving, Orderly
<1>2. TodoOK(q)'
  BY <1>1 DEF RequestOK, TodoOK
<1>3. DoneOK(q)'
  BY <1>1 DEF RequestOK, DoneOK, InRange
<1>4. FromOK(q)'
  BY <1>1 DEF RequestOK, FromOK
<1>5. ImageOK(q)'
  BY <1>1 DEF RequestOK, ImageOK
<1> QED  BY <1>2, <1>3, <1>4, <1>5 DEF RequestOK

\* A request that is idle, or about a document, has nothing to write.
LEMMA RestOK ==
  ASSUME NEW r \in Request, request[r].aim \in {None, "document"}
  PROVE  RequestOK(r) /\ ~Moving(r)
<1>1. /\ request[r].aim \notin Mode \cup Stops /\ request[r].aim \notin Edit
      /\ request[r].aim # "stop" /\ request[r].aim # "stopping"
  BY DEF Aims, Mode, Stops, Edit
<1> QED  BY <1>1 DEF RequestOK, TodoOK, DoneOK, FromOK, ImageOK, Kept, Moving

LEMMA IdleRest ==
  ASSUME NEW r \in Request, request[r] = Idle
  PROVE  RequestOK(r) /\ ~Moving(r)
<1>1. request[r].aim = None
  BY DEF Idle
<1> QED  BY <1>1, RestOK

LEMMA IdleRestNext ==
  ASSUME NEW r \in Request, request'[r] = Idle
  PROVE  RequestOK(r)' /\ ~Moving(r)'
<1>1. request'[r].aim \notin Mode \cup Stops \cup Edit
  BY DEF Idle, Aims
<1>2. /\ request'[r].aim \notin Mode \cup Stops /\ request'[r].aim \notin Edit
      /\ request'[r].aim # "stop" /\ request'[r].aim # "stopping"
  BY <1>1 DEF Mode, Stops
<1> QED  BY <1>2 DEF RequestOK, TodoOK, DoneOK, FromOK, ImageOK, Kept, Moving

\* The others when r writes: one that stays undisturbed has the same aim, or both edit.
LEMMA Others ==
  ASSUME TInv, NEW r \in Request, NEW left \in RequestType, Advance(r, left),
         request[r].aim \in Mode \cup Edit, NEW q \in Request \ {r}
  PROVE  /\ request'[q].aim = request[q].aim /\ request'[q].todo = request[q].todo
         /\ request'[q].check = request[q].check
         /\ Left(q)' = Left(q) /\ Moving(q)' = Moving(q)
         /\ Kept(q)' => Kept(q) /\ Kept(r) /\ request[r].aim \in Mode
         /\ Orderly(q)' => Orderly(q)
         /\ Moving(q) /\ Orderly(q)' => /\ request[r].aim \in Mode /\ Kept(r)
                                        /\ request[q].aim = request[r].aim
         /\ request[q].aim \in Stops => ~Orderly(q)'
         /\ request[q].aim \in Edit /\ Orderly(q)' => request[r].aim \in Edit
<1>1. /\ request'[q].aim = request[q].aim /\ request'[q].todo = request[q].todo
      /\ request'[q].check = request[q].check
      /\ request[q].beside \subseteq request'[q].beside
      /\ /\ request[q].aim \in Mode \cup Stops \cup Edit
         /\ ~(request[q].aim \in Edit /\ request[r].aim \in Edit)
         => request'[q].beside = request[q].beside \cup Trace(r, q)
  BY AdvanceFacts
<1>2. Left(q)' = Left(q) /\ Moving(q)' = Moving(q)
  BY <1>1 DEF Left, Moving
<1>3. Mode \cap Stops = {} /\ Mode \cap Edit = {} /\ Stops \cap Edit = {}
  BY DEF Mode, Stops, Edit
<1>4. Orderly(q)' => Orderly(q)
  BY <1>1 DEF Orderly
<1>5. CASE request[r].aim \in Edit
  <2>1. Trace(r, q) = {"edit"}
    BY <1>5 DEF Trace
  <2>2. request[q].aim \in Mode \cup Stops => "edit" \in request'[q].beside
    BY <1>1, <1>3, <2>1
  <2>3. ~Kept(q)'
    BY <1>1, <2>2 DEF Kept
  <2>4. request[q].aim \in Mode \cup Stops => ~Orderly(q)'
    BY <2>2 DEF Orderly
  <2> QED  BY <1>1, <1>2, <1>4, <1>5, <2>3, <2>4 DEF Moving
<1>6. CASE request[r].aim \in Mode
  <2>1. Trace(r, q) = (request[r].beside \cap {"edit"})
                      \cup (IF request[q].aim = request[r].aim THEN {} ELSE {"move"})
    BY <1>3, <1>6 DEF Trace
  <2>2. request[q].aim \in Mode \cup Stops \cup Edit =>
           request'[q].beside = request[q].beside \cup Trace(r, q)
    BY <1>1, <1>3, <1>6
  <2>3. Kept(q)' => Kept(q) /\ Kept(r)
    BY <1>1, <1>6, <2>1, <2>2 DEF Kept
  <2>4. request[q].aim \in Mode \cup Stops \cup Edit /\ Orderly(q)' =>
           request[q].aim = request[r].aim /\ "edit" \notin request[r].beside
    BY <2>1, <2>2 DEF Orderly
  <2> QED  BY <1>1, <1>2, <1>3, <1>4, <1>6, <2>3, <2>4 DEF Moving, Kept
<1> QED  BY <1>5, <1>6

-----------------------------------------------------------------------------
(* Each step keeps what is known of the requests and of the flags *)

\* Everything but the types and the views.
Rest == (\A r \in Request : RequestOK(r)) /\ ModeOK /\ NoUnused /\ NoCycle

\* Steps after which all that goes by the configurations is as it was.
LEMMA NothingWritten ==
  ASSUME Rest, UNCHANGED <<mode, check, config, torn, slipped>>,
         NEW r \in Request, RequestOK(r)', ~Moving(r),
         \A q \in Request \ {r} : request'[q] = request[q]
  PROVE  Rest'
<1>1. \A q \in Request \ {r} : Moving(q)' = Moving(q) /\ Orderly(q)' = Orderly(q)
                               /\ Left(q)' = Left(q)
  BY DEF Moving, Orderly, Left
<1>2. (\A q \in Request : ~Moving(q)') => \A q \in Request : ~Moving(q)
  BY <1>1
<1>3. \A q \in Request : RequestOK(q)'
  BY <1>2, SameRequest DEF Rest
<1>4. ModeOK'
  <2> SUFFICES ASSUME ~torn', \A q \in Request : Moving(q)' => Orderly(q)', NEW a \in Action
               PROVE  /\ (a \in ValidActions(config))' =>
                            \/ (config[a].active = ActiveIn(mode, a))'
                            \/ \E q \in Request : Moving(q)' /\ InRange(q, a)' /\ a \notin Left(q)'
                      /\ (config[a].retired /\ config[a].valid => ~config[a].active)'
    BY DEF ModeOK
  <2>1. \A q \in Request : Moving(q) => Orderly(q)
    BY <1>1
  <2>2. /\ a \in ValidActions(config) =>
             \/ config[a].active = ActiveIn(mode, a)
             \/ \E q \in Request : Moving(q) /\ InRange(q, a) /\ a \notin Left(q)
        /\ config[a].retired /\ config[a].valid => ~config[a].active
    BY <2>1 DEF Rest, ModeOK
  <2>3. ActiveIn(mode, a)' = ActiveIn(mode, a)
    BY DEF ActiveIn
  <2>4. ASSUME NEW q \in Request, Moving(q), InRange(q, a), a \notin Left(q)
        PROVE  Moving(q)' /\ InRange(q, a)' /\ a \notin Left(q)'
    BY <1>1, <2>4 DEF InRange
  <2> QED  BY <2>2, <2>3, <2>4
<1>5. NoUnused' /\ NoCycle'
  BY DEF Rest, NoUnused, NoCycle
<1> QED  BY <1>3, <1>4, <1>5 DEF Rest

LEMMA LoadedFacts ==
  ASSUME TInv, NEW r \in Request, NEW b \in BOOLEAN,
         request'[r].todo = ToSet(ValidActions(config), b), UNCHANGED config
  PROVE  /\ Left(r)' = ValidActions(config)
         /\ \A a \in Left(r)' :
               /\ a \in ValidActions(config)
               /\ request'[r].todo[a].shape = config[a].shape
               /\ ~request'[r].todo[a].retired /\ request'[r].todo[a].valid
               /\ request'[r].todo[a].active = b
<1>1. \A a \in Action :
         /\ a \in ValidActions(config) =>
               /\ request'[r].todo[a] \in ActionConfig
               /\ request'[r].todo[a].shape = config[a].shape
               /\ request'[r].todo[a].retired = config[a].retired
               /\ request'[r].todo[a].valid = config[a].valid
               /\ request'[r].todo[a].active = b
         /\ a \notin ValidActions(config) => request'[r].todo[a] = None
  BY ToSetType
<1>2. Left(r)' = ValidActions(config)
  BY <1>1 DEF Left, ValidActions
<1> QED  BY <1>1, <1>2 DEF ValidActions

\* A request that has loaded is as it should be.
LEMMA LoadsOK ==
  ASSUME TInv, Rest, NEW r \in Request, Loads(r)
  PROVE  RequestOK(r)'
<1>1. /\ request[r] = Idle /\ request'[r].beside = {} /\ config \in Config
      /\ \A q \in Request \ {r} : request'[q] = request[q]
      /\ UNCHANGED <<mode, check, config, counted, launcher, doc, torn, slipped>>
  BY LoadsType DEF TInv, TypeOK
<1>2. check \in BOOLEAN /\ \A b \in BOOLEAN : ToSet(ValidActions(config), b) \in
                                     [Action -> ActionConfig \cup {None}]
  BY ToSetType DEF TInv, TypeOK
<1>3. CASE LoadsRun(r)
  <2>1. "running" \in Aims
    BY DEF Aims, Mode
  <2>2. /\ request'[r].aim = "running" /\ request'[r].check = check
        /\ request'[r].todo = ToSet(ValidActions(config), TRUE)
    <3>1. Load(r, "running", ToSet(ValidActions(config), TRUE), check)
      BY <1>3 DEF LoadsRun
    <3>2. PICK todo \in [Action -> ActionConfig \cup {None}], val \in BOOLEAN :
             /\ todo = ToSet(ValidActions(config), TRUE) /\ val = check
             /\ Load(r, "running", todo, val)
      BY <1>2, <3>1
    <3>3. Load(r, "running", todo, val)
      BY <3>2
    <3>4. request'[r].aim = "running" /\ request'[r].todo = todo /\ request'[r].check = val
      BY <2>1, <3>3, LoadFacts
    <3> QED  BY <3>2, <3>4
  <2>3. actions_have_no_cycles(config) /\ (check => Handled(config))
    BY <1>1, <1>3, RunChecks DEF LoadsRun
  <2>4. TodoOK(r)'
    BY <1>1, <2>2, <2>3, LoadedFacts DEF TodoOK, Stops
  <2>5. DoneOK(r)'
    BY <1>1, <2>2, LoadedFacts DEF DoneOK, InRange
  <2> QED  BY <2>2, <2>4, <2>5 DEF RequestOK, FromOK, ImageOK, Edit
<1>4. CASE LoadsStop(r)
  <2>1. "stopped" \in Aims
    BY DEF Aims, Mode
  <2>2. /\ request'[r].aim = "stopped" /\ request'[r].check = check
        /\ request'[r].todo = ToSet(ValidActions(config), FALSE)
    <3>1. Load(r, "stopped", ToSet(ValidActions(config), FALSE), check)
      BY <1>4 DEF LoadsStop
    <3>2. PICK todo \in [Action -> ActionConfig \cup {None}], val \in BOOLEAN :
             /\ todo = ToSet(ValidActions(config), FALSE) /\ val = check
             /\ Load(r, "stopped", todo, val)
      BY <1>2, <3>1
    <3>3. Load(r, "stopped", todo, val)
      BY <3>2
    <3>4. request'[r].aim = "stopped" /\ request'[r].todo = todo /\ request'[r].check = val
      BY <2>1, <3>3, LoadFacts
    <3> QED  BY <3>2, <3>4
  <2>4. TodoOK(r)'
    BY <1>1, <2>2, LoadedFacts DEF TodoOK, Stops
  <2>5. DoneOK(r)'
    BY <1>1, <2>2, LoadedFacts DEF DoneOK, InRange
  <2> QED  BY <2>2, <2>4, <2>5 DEF RequestOK, FromOK, ImageOK, Edit
<1>5. ASSUME NEW aim \in Stops, LoadsCount(r, aim) PROVE RequestOK(r)'
  <2>1. aim \in Aims
    BY DEF Aims
  <2>2. /\ request'[r].aim = aim /\ request'[r].check = check
        /\ request'[r].todo = ToSet(ValidActions(config), FALSE)
    <3>1. Load(r, aim, ToSet(ValidActions(config), FALSE), check)
      BY <1>5 DEF LoadsCount
    <3>2. PICK todo \in [Action -> ActionConfig \cup {None}], val \in BOOLEAN :
             /\ todo = ToSet(ValidActions(config), FALSE) /\ val = check
             /\ Load(r, aim, todo, val)
      BY <1>2, <3>1
    <3>3. Load(r, aim, todo, val)
      BY <3>2
    <3>4. request'[r].aim = aim /\ request'[r].todo = todo /\ request'[r].check = val
      BY <2>1, <3>3, LoadFacts
    <3> QED  BY <3>2, <3>4
  <2>3. actions_have_no_cycles(config)
    BY <1>1, <1>5, RunChecks DEF LoadsCount
  <2>4. aim # "running" /\ aim # "stopping" /\ aim # "stopped" /\ aim \notin Mode /\ aim \notin Edit
    BY DEF Stops, Mode, Edit
  <2>5. TodoOK(r)'
    BY <1>1, <2>2, <2>3, <2>4, LoadedFacts DEF TodoOK
  <2>6. DoneOK(r)' /\ ImageOK(r)'
    BY <2>2, <2>4 DEF DoneOK, ImageOK, Moving
  <2>7. FromOK(r)'
    BY <1>1, <1>5, <2>2, <2>4 DEF FromOK, LoadsCount
  <2> QED  BY <2>5, <2>6, <2>7 DEF RequestOK
<1>6. ASSUME NEW aim \in Edit, NEW todo \in [Action -> ActionConfig \cup {None}],
             NEW val \in BOOLEAN, LoadsEdit(r, aim, todo, val)
      PROVE  RequestOK(r)'
  <2>1. aim \in Aims
    BY DEF Aims
  <2>2. request'[r].aim = aim /\ request'[r].todo = todo
    BY <1>6, <2>1, LoadFacts DEF LoadsEdit
  <2>3. aim \notin Mode \cup Stops /\ aim # "stop" /\ aim # "stopping"
    BY DEF Stops, Mode, Edit
  <2>4. TodoOK(r)' /\ DoneOK(r)'
    BY <2>2, <2>3 DEF TodoOK, DoneOK, Moving, Kept
  <2>5. FromOK(r)'
    BY <1>1, <1>6, <2>2, <2>3 DEF FromOK, LoadsEdit
  <2>6. ImageOK(r)'
    <3> SUFFICES ASSUME ~torn, \A q \in Request : ~Moving(q)', NEW a \in Action,
                        todo[a] # None, todo[a].valid
                 PROVE  ~todo[a].active
      BY <1>1, <2>2 DEF ImageOK, Left
    <3>1. \A q \in Request : ~Moving(q)
      BY <1>1, IdleRest DEF Moving
    <3>2. mode = "stopped" /\ (todo[a].active => config[a].valid /\ config[a].active)
      BY <1>6 DEF LoadsEdit
    <3>3. ~ActiveIn(mode, a)
      BY <3>2 DEF ActiveIn
    <3>4. /\ a \in ValidActions(config) => config[a].active = ActiveIn(mode, a)
          /\ config[a].retired /\ config[a].valid => ~config[a].active
      BY <3>1 DEF Rest, ModeOK
    <3> QED  BY <3>2, <3>3, <3>4 DEF ValidActions
  <2> QED  BY <2>4, <2>5, <2>6 DEF RequestOK
<1>7. ASSUME NEW todo \in [Action -> ActionConfig \cup {None}], LoadsOther(r, todo)
      PROVE  RequestOK(r)'
  <2>1. "document" \in Aims
    BY DEF Aims
  <2>2. request'[r].aim = "document"
    BY <1>7, <2>1, LoadFacts DEF LoadsOther
  <2> QED  BY <2>2 DEF RequestOK, TodoOK, DoneOK, FromOK, ImageOK, Kept, Moving, Mode, Stops, Edit
<1> QED  BY <1>3, <1>4, <1>5, <1>6, <1>7 DEF Loads

LEMMA LoadsStep ==
  ASSUME TInv, Rest, NEW r \in Request, Loads(r)
  PROVE  Rest'
<1>1. ~Moving(r)
  BY LoadsType, IdleRest
<1> QED  BY <1>1, LoadsType, LoadsOK, NothingWritten

\* A stop has counted.
LEMMA CountedStep ==
  ASSUME TInv, Rest, NEW r \in Request, count_documents(r)
  PROVE  Rest'
<1>1. /\ request[r].aim \in Stops
      /\ UNCHANGED <<mode, check, config, launcher, doc, torn, slipped, incidents>>
  BY CountDocumentsType
<1>2. PICK count : StopWith(r, count)
  BY CountDocumentsType
<1>3. /\ \A q \in Request \ {r} : request'[q] = request[q]
      /\ \/ request'[r] = Idle
         \/ /\ request'[r].check = request[r].check /\ request'[r].beside = request[r].beside
            /\ request'[r].aim = "stopped" /\ request'[r].todo = request[r].todo
         \/ /\ request'[r].check = request[r].check /\ request'[r].beside = request[r].beside
            /\ request'[r].aim = "stopping" /\ request[r].aim = "stop"
            /\ \A a \in Action :
                  request'[r].todo[a] =
                     IF a \in Left(r) /\ request[r].todo[a].shape.kind = "collect"
                     THEN request[r].todo[a] ELSE None
  BY <1>1, <1>2, StopWithFacts
<1>4. /\ request[r].aim \notin Mode /\ request[r].aim # "stopped" /\ request[r].aim # "running"
      /\ request[r].aim # "stopping"
  BY <1>1 DEF Stops, Mode
<1>5. ~Moving(r) /\ TodoOK(r) /\ FromOK(r)
  BY <1>4 DEF Moving, Rest, RequestOK
<1>6. CASE request'[r] = Idle
  BY <1>1, <1>3, <1>5, <1>6, IdleRestNext, NothingWritten
<1>7. CASE /\ request'[r].check = request[r].check /\ request'[r].beside = request[r].beside
           /\ request'[r].aim = "stopped" /\ request'[r].todo = request[r].todo
  <2>1. Left(r)' = Left(r) /\ (Kept(r)' => Kept(r)) /\ (Orderly(r)' => Orderly(r) /\ Kept(r))
    BY <1>1, <1>7 DEF Left, Kept, Orderly
  <2>2. TodoOK(r)'
    BY <1>1, <1>4, <1>5, <1>7, <2>1 DEF TodoOK, Stops
  <2>3. DoneOK(r)'
    BY <1>1, <1>4, <1>5, <1>7, <2>1 DEF TodoOK, DoneOK, InRange
  <2>4. FromOK(r)' /\ ImageOK(r)'
    BY <1>7 DEF FromOK, ImageOK, Edit
  <2> QED  BY <1>1, <1>3, <1>5, <2>2, <2>3, <2>4, NothingWritten DEF RequestOK
<1>8. CASE /\ request'[r].check = request[r].check /\ request'[r].beside = request[r].beside
           /\ request'[r].aim = "stopping" /\ request[r].aim = "stop"
           /\ \A a \in Action :
                 request'[r].todo[a] =
                    IF a \in Left(r) /\ request[r].todo[a].shape.kind = "collect"
                    THEN request[r].todo[a] ELSE None
  <2>1. (Kept(r)' => Kept(r)) /\ (Orderly(r)' => Orderly(r) /\ Kept(r))
    BY <1>1, <1>8 DEF Kept, Orderly
  <2>2. \A a \in Action : a \in Left(r)' <=> a \in Left(r) /\ request[r].todo[a].shape.kind = "collect"
    BY <1>8 DEF Left
  <2>3. Left(r)' \subseteq Action /\ \A a \in Left(r)' : request'[r].todo[a] = request[r].todo[a]
    BY <1>8, <2>2 DEF Left
  <2>4. ASSUME Kept(r)'
        PROVE  /\ request'[r].check = check'
               /\ actions_have_no_cycles(config)'
               /\ \A a \in Left(r)' :
                     /\ a \in ValidActions(config)
                     /\ request'[r].todo[a].shape = config[a].shape
                     /\ ~request'[r].todo[a].retired /\ request'[r].todo[a].valid
                     /\ ~request'[r].todo[a].active
                     /\ config[a].shape.kind = "collect"
    <3>1. /\ request[r].check = check /\ actions_have_no_cycles(config)
          /\ \A a \in Left(r) :
                /\ a \in ValidActions(config)
                /\ request[r].todo[a].shape = config[a].shape
                /\ ~request[r].todo[a].retired /\ request[r].todo[a].valid
                /\ request[r].todo[a].active = (request[r].aim = "running")
      BY <1>4, <1>5, <2>1, <2>4 DEF TodoOK
    <3>2. actions_have_no_cycles(config)'
      BY <1>1, <3>1
    <3> QED  BY <1>1, <1>4, <1>8, <2>2, <2>3, <3>1, <3>2
  <2>5. TodoOK(r)'
    <3>1. ASSUME NEW a \in Left(r)', Kept(r)'
          PROVE  request'[r].todo[a].active = (request'[r].aim = "running")
      <4>1. ~request'[r].todo[a].active /\ request'[r].todo[a] \in ActionConfig
        BY <2>2, <2>3, <2>4, <3>1, LeftFields
      <4>2. request'[r].todo[a].active \in BOOLEAN
        BY <4>1 DEF ActionConfig
      <4> QED  BY <1>8, <4>1, <4>2
    <3> QED  BY <1>1, <1>8, <2>4, <3>1 DEF TodoOK, Stops
  <2>6. DoneOK(r)'
    <3> SUFFICES ASSUME Orderly(r)', NEW a \in Action, InRange(r, a)', a \notin Left(r)'
                 PROVE  FALSE
      BY DEF DoneOK
    <3>1. a \in ValidActions(config) /\ config[a].shape.kind = "collect"
      BY <1>1, <1>8 DEF InRange
    <3>2. a \in Left(r) /\ request[r].todo[a].shape = config[a].shape
      BY <1>1, <1>5, <2>1, <3>1 DEF TodoOK
    <3> QED  BY <2>2, <3>1, <3>2
  <2>7. FromOK(r)' /\ ImageOK(r)'
    BY <1>1, <1>5, <1>8, <2>1 DEF FromOK, ImageOK, Edit
  <2> QED  BY <1>1, <1>3, <1>5, <2>5, <2>6, <2>7, NothingWritten DEF RequestOK
<1> QED  BY <1>3, <1>6, <1>7, <1>8

\* What a writer that has not been edited under writes: flags only.
LEMMA WriteKept ==
  ASSUME TInv, NEW r \in Request, NEW a \in Action, WriteOf(r, a), TodoOK(r), Kept(r)
  PROVE  /\ a \in ValidActions(config) /\ config'[a].active = (request[r].aim = "running")
         /\ request[r].aim = "stopping" => config[a].shape.kind = "collect"
         /\ ValidActions(config)' = ValidActions(config)
         /\ actions_have_no_cycles(config) => actions_have_no_cycles(config)'
         /\ Handled(config) => Handled(config)'
         /\ \A b \in Action : /\ config'[b].shape = config[b].shape
                              /\ config'[b].retired = config[b].retired
                              /\ config'[b].valid = config[b].valid
<1> DEFINE loaded == request[r].todo[a]
<1>1. /\ config \in Config /\ config' \in Config /\ a \in Left(r)
      /\ config'[a].active = loaded.active
      /\ \/ config'[a] = loaded
         \/ /\ config'[a].shape = config[a].shape /\ config'[a].retired = config[a].retired
            /\ config'[a].valid = config[a].valid
      /\ \A b \in Action \ {a} : config'[b] = config[b]
  BY DEF WriteOf, TInv, TypeOK
<1>2. /\ a \in ValidActions(config) /\ loaded.shape = config[a].shape
      /\ ~loaded.retired /\ loaded.valid /\ loaded.active = (request[r].aim = "running")
      /\ request[r].aim = "stopping" => config[a].shape.kind = "collect"
  BY <1>1 DEF TodoOK
<1>3. ~config[a].retired /\ config[a].valid /\ loaded \in ActionConfig
      /\ config[a] \in ActionConfig
  BY <1>1, <1>2, LeftFields DEF ValidActions, Config
<1>4. loaded.retired = config[a].retired /\ loaded.valid = config[a].valid
  BY <1>2, <1>3 DEF ActionConfig
<1> HIDE DEF loaded
<1>5. \A b \in Action : /\ config'[b].shape = config[b].shape
                        /\ config'[b].retired = config[b].retired
                        /\ config'[b].valid = config[b].valid
  BY <1>1, <1>2, <1>4
<1>6. /\ ValidActions(config') = ValidActions(config)
      /\ actions_have_no_cycles(config) => actions_have_no_cycles(config')
      /\ Handled(config) => Handled(config')
  BY <1>1, <1>5, FlagsOnly
<1> QED  BY <1>1, <1>2, <1>5, <1>6

\* A configuration is written.
LEMMA WriteStep ==
  ASSUME TInv, Rest, NEW r \in Request, Write(r)
  PROVE  Rest'
<1>1. PICK a \in Action : WriteOf(r, a)
  BY WriteFacts
<1>2. PICK left \in RequestType : Advance(r, left)
  BY WriteFacts
<1>3. /\ request[r].aim \in Mode /\ a \in Left(r)
      /\ \A b \in Action \ {a} : config'[b] = config[b]
      /\ request'[r].aim = request[r].aim /\ request'[r].check = request[r].check
      /\ request'[r].beside = request[r].beside /\ request'[r].todo[a] = None
      /\ \A b \in Action \ {a} : request'[r].todo[b] = request[r].todo[b]
  BY <1>1 DEF WriteOf
<1>4. /\ mode' = mode /\ check' = check /\ torn' = (torn \/ request[r].beside # {})
      /\ slipped' = (slipped \/ "edit" \in request[r].beside)
  BY DEF Write
<1>5. Moving(r) /\ Moving(r)' /\ (Kept(r)' <=> Kept(r)) /\ (Orderly(r)' <=> Orderly(r))
      /\ Left(r)' = Left(r) \ {a} /\ (Orderly(r) => Kept(r))
      /\ request[r].aim \notin Stops /\ request[r].aim \notin Edit /\ request[r].aim # "stop"
  BY <1>3 DEF Moving, Kept, Orderly, Left, Mode, Stops, Edit
<1>6. \A q \in Request : RequestOK(q)
  BY DEF Rest
<1>7. ASSUME Kept(r)
      PROVE  /\ a \in ValidActions(config) /\ config'[a].active = (request[r].aim = "running")
             /\ request[r].aim = "stopping" => config[a].shape.kind = "collect"
             /\ ValidActions(config)' = ValidActions(config)
             /\ actions_have_no_cycles(config) => actions_have_no_cycles(config)'
             /\ Handled(config) => Handled(config)'
             /\ \A b \in Action : /\ config'[b].shape = config[b].shape
                                  /\ config'[b].retired = config[b].retired
                                  /\ config'[b].valid = config[b].valid
  BY <1>1, <1>6, <1>7, WriteKept DEF RequestOK
<1>8. ASSUME NEW q \in Request \ {r}
      PROVE  /\ request'[q].aim = request[q].aim /\ request'[q].todo = request[q].todo
             /\ request'[q].check = request[q].check
             /\ Left(q)' = Left(q) /\ Moving(q)' = Moving(q)
             /\ Kept(q)' => Kept(q) /\ Kept(r)
             /\ Orderly(q)' => Orderly(q)
             /\ Moving(q) /\ Orderly(q)' => Kept(r) /\ request[q].aim = request[r].aim
             /\ request[q].aim \in Stops => ~Orderly(q)'
             /\ request[q].aim \in Edit => ~Orderly(q)'
  BY <1>2, <1>3, <1>5, Others
<1>9. \A q \in Request : InRange(q, a)' /\ Kept(r) => InRange(q, a)
  BY <1>3, <1>7, <1>8 DEF InRange
<1>10. \A q \in Request, b \in Action : Kept(r) => (InRange(q, b)' <=> InRange(q, b))
  BY <1>3, <1>7, <1>8 DEF InRange
<1>11. RequestOK(r)'
  <2>1. TodoOK(r) /\ DoneOK(r) /\ FromOK(r)
    BY <1>6 DEF RequestOK
  <2>2. TodoOK(r)'
    <3> SUFFICES ASSUME Kept(r)
                 PROVE  /\ request'[r].check = check'
                        /\ request'[r].aim # "stopped" => actions_have_no_cycles(config)'
                        /\ request'[r].aim = "running" /\ check' => Handled(config)'
                        /\ \A b \in Left(r)' :
                              /\ b \in ValidActions(config)'
                              /\ request'[r].todo[b].shape = config'[b].shape
                              /\ ~request'[r].todo[b].retired /\ request'[r].todo[b].valid
                              /\ request'[r].todo[b].active = (request'[r].aim = "running")
                              /\ request'[r].aim = "stopping" => config'[b].shape.kind = "collect"
                        /\ request'[r].aim \in Stops => ValidActions(config)' \subseteq Left(r)'
      BY <1>5 DEF TodoOK
    <3>1. /\ request[r].check = check
          /\ request[r].aim # "stopped" => actions_have_no_cycles(config)
          /\ request[r].aim = "running" /\ check => Handled(config)
          /\ \A b \in Left(r) :
                /\ b \in ValidActions(config)
                /\ request[r].todo[b].shape = config[b].shape
                /\ ~request[r].todo[b].retired /\ request[r].todo[b].valid
                /\ request[r].todo[b].active = (request[r].aim = "running")
                /\ request[r].aim = "stopping" => config[b].shape.kind = "collect"
      BY <2>1 DEF TodoOK
    <3>2. ASSUME NEW b \in Left(r)'
          PROVE  b \in Left(r) /\ b \in Action \ {a}
      BY <1>5 DEF Left
    <3> QED  BY <1>3, <1>4, <1>5, <1>7, <3>1, <3>2
  <2>3. DoneOK(r)'
    <3> SUFFICES ASSUME Orderly(r), NEW b \in Action, InRange(r, b), b \notin Left(r)'
                 PROVE  config'[b].active = (request[r].aim = "running")
      BY <1>3, <1>5, <1>10 DEF DoneOK
    <3>1. CASE b = a
      BY <1>5, <1>7, <3>1
    <3>2. CASE b # a
      BY <1>3, <1>5, <2>1, <3>2 DEF DoneOK
    <3> QED  BY <3>1, <3>2
  <2>4. FromOK(r)'
    BY <1>3, <1>4, <1>5, <2>1 DEF FromOK
  <2>5. ImageOK(r)'
    BY <1>3, <1>5 DEF ImageOK
  <2> QED  BY <2>2, <2>3, <2>4, <2>5 DEF RequestOK
<1>12. ASSUME NEW q \in Request \ {r} PROVE RequestOK(q)'
  <2>1. TodoOK(q) /\ DoneOK(q) /\ FromOK(q)
    BY <1>6 DEF RequestOK
  <2>2. TodoOK(q)'
    <3> SUFFICES ASSUME Kept(q)'
                 PROVE  /\ request'[q].check = check'
                        /\ request'[q].aim # "stopped" => actions_have_no_cycles(config)'
                        /\ request'[q].aim = "running" /\ check' => Handled(config)'
                        /\ \A b \in Left(q)' :
                              /\ b \in ValidActions(config)'
                              /\ request'[q].todo[b].shape = config'[b].shape
                              /\ ~request'[q].todo[b].retired /\ request'[q].todo[b].valid
                              /\ request'[q].todo[b].active = (request'[q].aim = "running")
                              /\ request'[q].aim = "stopping" => config'[b].shape.kind = "collect"
                        /\ request'[q].aim \in Stops => ValidActions(config)' \subseteq Left(q)'
      BY DEF TodoOK
    <3>1. Kept(q) /\ Kept(r)
      BY <1>8
    <3>2. \A b \in Left(q) : b \in Action
      BY DEF Left
    <3>3. /\ request[q].check = check
          /\ request[q].aim # "stopped" => actions_have_no_cycles(config)
          /\ request[q].aim = "running" /\ check => Handled(config)
          /\ \A b \in Left(q) :
                /\ b \in ValidActions(config)
                /\ request[q].todo[b].shape = config[b].shape
                /\ ~request[q].todo[b].retired /\ request[q].todo[b].valid
                /\ request[q].todo[b].active = (request[q].aim = "running")
                /\ request[q].aim = "stopping" => config[b].shape.kind = "collect"
          /\ request[q].aim \in Stops => ValidActions(config) \subseteq Left(q)
      BY <2>1, <3>1 DEF TodoOK
    <3>4. /\ ValidActions(config)' = ValidActions(config)
          /\ actions_have_no_cycles(config) => actions_have_no_cycles(config)'
          /\ Handled(config) => Handled(config)'
          /\ \A b \in Action : config'[b].shape = config[b].shape
      BY <1>7, <3>1
    <3>5. /\ request'[q].aim = request[q].aim /\ request'[q].todo = request[q].todo
          /\ request'[q].check = request[q].check /\ Left(q)' = Left(q)
      BY <1>8
    <3> QED  BY <1>4, <3>2, <3>3, <3>4, <3>5
  <2>3. DoneOK(q)'
    <3> SUFFICES ASSUME Moving(q), Orderly(q)', NEW b \in Action, InRange(q, b)', b \notin Left(q)
                 PROVE  config'[b].active = (request[q].aim = "running")
      BY <1>8 DEF DoneOK
    <3>1. Kept(r) /\ request[q].aim = request[r].aim /\ Orderly(q) /\ InRange(q, b)
      BY <1>8, <1>10
    <3>2. CASE b = a
      BY <1>7, <3>1, <3>2
    <3>3. CASE b # a
      BY <1>3, <2>1, <3>1, <3>3 DEF DoneOK
    <3> QED  BY <3>2, <3>3
  <2>4. FromOK(q)'
    <3>1. "stop" \in Stops
      BY DEF Stops
    <3> QED  BY <1>4, <1>8, <2>1, <3>1 DEF FromOK
  <2>5. ImageOK(q)'
    BY <1>8 DEF ImageOK
  <2> QED  BY <2>2, <2>3, <2>4, <2>5 DEF RequestOK
<1>13. ModeOK'
  <2> SUFFICES ASSUME ~torn', \A q \in Request : Moving(q)' => Orderly(q)', NEW b \in Action
               PROVE  /\ (b \in ValidActions(config))' =>
                            \/ (config[b].active = ActiveIn(mode, b))'
                            \/ \E q \in Request : Moving(q)' /\ InRange(q, b)' /\ b \notin Left(q)'
                      /\ (config[b].retired /\ config[b].valid => ~config[b].active)'
    BY DEF ModeOK
  <2>1. ~torn /\ Orderly(r) /\ Kept(r)
    BY <1>4, <1>5 DEF Orderly
  <2>2. \A q \in Request : Moving(q) => Orderly(q)
    BY <1>8, <2>1
  <2>3. /\ b \in ValidActions(config) =>
             \/ config[b].active = ActiveIn(mode, b)
             \/ \E q \in Request : Moving(q) /\ InRange(q, b) /\ b \notin Left(q)
        /\ config[b].retired /\ config[b].valid => ~config[b].active
    BY <2>1, <2>2 DEF Rest, ModeOK
  <2>4. CASE b = a
    <3>1. InRange(r, a) /\ a \notin Left(r)'
      BY <1>5, <1>7, <2>1 DEF InRange
    <3>2. ~config[a].retired
      BY <1>7, <2>1 DEF ValidActions
    <3> QED  BY <1>5, <1>7, <1>10, <2>1, <2>4, <3>1, <3>2
  <2>5. CASE b # a
    <3>1. config'[b] = config[b] /\ ActiveIn(mode, b)' = ActiveIn(mode, b)
      BY <1>3, <1>4, <2>5 DEF ActiveIn
    <3>2. ASSUME NEW q \in Request, Moving(q), InRange(q, b), b \notin Left(q)
          PROVE  Moving(q)' /\ InRange(q, b)' /\ b \notin Left(q)'
      BY <1>5, <1>8, <1>10, <2>1, <3>2
    <3> QED  BY <1>7, <2>1, <2>3, <3>1, <3>2
  <2> QED  BY <2>4, <2>5
<1>14. NoUnused' /\ NoCycle'
  <2>1. ~slipped' => ~slipped /\ Kept(r)
    BY <1>3, <1>4 DEF Kept
  <2> QED  BY <1>4, <1>7, <2>1 DEF Rest, NoUnused, NoCycle
<1> QED  BY <1>11, <1>12, <1>13, <1>14 DEF Rest

\* A request sets the mode.
LEMMA FinishStep ==
  ASSUME TInv, Rest, NEW r \in Request, Finish(r)
  PROVE  Rest'
<1>1. /\ request[r].aim \in Mode /\ Left(r) = {} /\ mode' = request[r].aim
      /\ check' \in {check, request[r].check} /\ Advance(r, Idle)
      /\ torn' = \/ request[r].beside # {}
                 \/ torn /\ (request[r].aim = "stopping" \/ ValidActions(config) # Action)
      /\ slipped' = ("edit" \in request[r].beside)
      /\ UNCHANGED config
  BY FinishFacts
<1>2. /\ Moving(r) /\ (Orderly(r) => Kept(r)) /\ (Kept(r) <=> "edit" \notin request[r].beside)
      /\ TodoOK(r) /\ DoneOK(r) /\ FromOK(r)
      /\ request[r].aim \notin Edit
  BY <1>1 DEF Moving, Orderly, Kept, Rest, RequestOK, Mode, Edit
<1>3. request'[r] = Idle
  BY <1>1, AdvanceFacts, IdleType
<1>4. ASSUME NEW q \in Request \ {r}
      PROVE  /\ request'[q].aim = request[q].aim /\ request'[q].todo = request[q].todo
             /\ request'[q].check = request[q].check
             /\ Left(q)' = Left(q) /\ Moving(q)' = Moving(q)
             /\ Kept(q)' => Kept(q) /\ Kept(r)
             /\ Orderly(q)' => Orderly(q)
             /\ Moving(q) /\ Orderly(q)' => Kept(r) /\ request[q].aim = request[r].aim
             /\ request[q].aim \in Stops => ~Orderly(q)'
             /\ request[q].aim \in Edit => ~Orderly(q)'
  BY <1>1, <1>2, Others, IdleType
<1>5. Kept(r) => check' = check
  BY <1>1, <1>2 DEF TodoOK
<1>6. ASSUME NEW q \in Request \ {r} PROVE RequestOK(q)'
  <2>1. TodoOK(q) /\ DoneOK(q) /\ FromOK(q)
    BY DEF Rest, RequestOK
  <2>2. TodoOK(q)'
    <3>1. Kept(q)' => Kept(q) /\ check' = check
      BY <1>4, <1>5
    <3> QED  BY <1>1, <1>4, <2>1, <3>1 DEF TodoOK
  <2>3. DoneOK(q)'
    BY <1>1, <1>4, <2>1 DEF DoneOK, InRange
  <2>4. FromOK(q)'
    <3>1. "stop" \in Stops /\ (request[q].aim = "stopping" => Moving(q))
      BY DEF Stops, Moving, Mode
    <3> QED  BY <1>1, <1>4, <3>1 DEF FromOK
  <2>5. ImageOK(q)'
    BY <1>4 DEF ImageOK
  <2> QED  BY <2>2, <2>3, <2>4, <2>5 DEF RequestOK
<1>7. ModeOK'
  <2> SUFFICES ASSUME ~torn', \A q \in Request : Moving(q)' => Orderly(q)', NEW b \in Action
               PROVE  /\ (b \in ValidActions(config))' =>
                            \/ (config[b].active = ActiveIn(mode, b))'
                            \/ \E q \in Request : Moving(q)' /\ InRange(q, b)' /\ b \notin Left(q)'
                      /\ (config[b].retired /\ config[b].valid => ~config[b].active)'
    BY DEF ModeOK
  <2>1. Orderly(r) /\ (torn => request[r].aim # "stopping" /\ ValidActions(config) = Action)
    BY <1>1 DEF Orderly
  <2>2. \A q \in Request : Moving(q) => Orderly(q)
    BY <1>4, <2>1
  <2>3. ~torn => /\ b \in ValidActions(config) =>
                      \/ config[b].active = ActiveIn(mode, b)
                      \/ \E q \in Request : Moving(q) /\ InRange(q, b) /\ b \notin Left(q)
                 /\ config[b].retired /\ config[b].valid => ~config[b].active
    BY <2>2 DEF Rest, ModeOK
  <2>4. config[b].retired => b \notin ValidActions(config)
    BY DEF ValidActions
  <2>5. (config[b].retired /\ config[b].valid => ~config[b].active)'
    BY <1>1, <2>1, <2>3, <2>4
  <2>6. ASSUME b \in ValidActions(config)
        PROVE  config[b].active = (request[r].aim = "running"
                                   \/ (request[r].aim = "stopping"
                                       /\ config[b].shape.kind # "collect"))
    <3>1. InRange(r, b) => config[b].active = (request[r].aim = "running")
      BY <1>1, <1>2, <2>1 DEF DoneOK
    <3>2. InRange(r, b) <=> (request[r].aim = "stopping" => config[b].shape.kind = "collect")
      BY <2>6 DEF InRange
    <3>3. CASE request[r].aim # "stopping" \/ config[b].shape.kind = "collect"
      BY <3>1, <3>2, <3>3
    <3>4. CASE request[r].aim = "stopping" /\ config[b].shape.kind # "collect"
      <4>1. mode \in {"running", "stopping"} /\ ~torn
        BY <1>2, <2>1, <3>4 DEF FromOK
      <4>2. ActiveIn(mode, b)
        BY <3>4, <4>1 DEF ActiveIn
      <4>3. ASSUME NEW q \in Request, Moving(q), InRange(q, b) PROVE FALSE
        <5>1. q # r
          BY <3>2, <3>4, <4>3
        <5>2. request[q].aim = "stopping"
          BY <1>4, <3>4, <4>3, <5>1
        <5> QED  BY <3>4, <4>3, <5>2 DEF InRange
      <4>4. config[b].active = ActiveIn(mode, b)
        BY <2>3, <2>6, <4>1, <4>3
      <4> QED  BY <3>4, <4>2, <4>4
    <3> QED  BY <3>3, <3>4
  <2>7. ActiveIn(mode, b)' <=> (request[r].aim = "running"
                                \/ (request[r].aim = "stopping"
                                    /\ config[b].shape.kind # "collect"))
    BY <1>1 DEF ActiveIn
  <2>8. ValidActions(config)' = ValidActions(config) /\ config' = config
    BY <1>1
  <2>9. b \in ValidActions(config) => (config[b].active = ActiveIn(mode, b))'
    BY <2>6, <2>7, <2>8 DEF ActiveIn
  <2> QED  BY <2>5, <2>8, <2>9
<1>8. NoUnused'
  <2> SUFFICES ASSUME mode' = "running", check', ~slipped' PROVE Handled(config)
    BY <1>1 DEF NoUnused
  <2>1. Kept(r) /\ request[r].aim = "running" /\ check
    BY <1>1, <1>2, <1>5
  <2> QED  BY <1>2, <2>1 DEF TodoOK
<1>9. NoCycle'
  <2> SUFFICES ASSUME mode' # "stopped", ~slipped' PROVE actions_have_no_cycles(config)
    BY <1>1 DEF NoCycle
  <2>1. Kept(r) /\ request[r].aim # "stopped"
    BY <1>1, <1>2
  <2> QED  BY <1>2, <2>1 DEF TodoOK
<1> QED  BY <1>3, <1>6, <1>7, <1>8, <1>9, IdleRestNext DEF Rest

\* A request ends half-way.
LEMMA InterruptStep ==
  ASSUME TInv, Rest, NEW r \in Request, Interrupt(r)
  PROVE  Rest'
<1>1. /\ request'[r] = Idle /\ \A q \in Request \ {r} : request'[q] = request[q]
      /\ UNCHANGED <<mode, check, config, slipped>> /\ torn'
  BY IdleFacts DEF Interrupt, database
<1>2. ASSUME NEW q \in Request \ {r} PROVE RequestOK(q)'
  <2>1. Left(q)' = Left(q) /\ Kept(q)' = Kept(q) /\ Moving(q)' = Moving(q)
        /\ Orderly(q)' = Orderly(q)
    BY <1>1 DEF Left, Kept, Moving, Orderly
  <2>2. TodoOK(q) /\ DoneOK(q) /\ FromOK(q)
    BY DEF Rest, RequestOK
  <2>3. TodoOK(q)'
    BY <1>1, <2>1, <2>2 DEF TodoOK
  <2>4. DoneOK(q)'
    BY <1>1, <2>1, <2>2 DEF DoneOK, InRange
  <2>5. FromOK(q)' /\ ImageOK(q)'
    BY <1>1, <2>1, <2>2 DEF FromOK, ImageOK
  <2> QED  BY <2>3, <2>4, <2>5 DEF RequestOK
<1>3. ModeOK' /\ NoUnused' /\ NoCycle'
  BY <1>1 DEF Rest, ModeOK, NoUnused, NoCycle
<1> QED  BY <1>1, <1>2, <1>3, IdleRestNext DEF Rest

\* An edit is written.
LEMMA StoreStep ==
  ASSUME TInv, Rest, NEW r \in Request, Store(r)
  PROVE  Rest'
<1>1. /\ request[r].aim \in Edit /\ Advance(r, Idle) /\ mode' \in {mode, "stopped"}
      /\ UNCHANGED config \/ \E a \in Action : StoreOf(r, a)
      /\ torn' = (torn \/ request[r].beside # {})
      /\ slipped' = (slipped \/ request[r].beside # {})
  BY StoreFacts
<1>2. request[r].aim \notin Mode /\ FromOK(r) /\ ImageOK(r)
  BY <1>1 DEF Rest, RequestOK, Mode, Edit
<1>3. request'[r] = Idle
  BY <1>1, AdvanceFacts, IdleType
<1>4. ASSUME NEW q \in Request \ {r}
      PROVE  /\ request'[q].aim = request[q].aim /\ request'[q].todo = request[q].todo
             /\ Left(q)' = Left(q) /\ Moving(q)' = Moving(q)
             /\ ~Kept(q)'
             /\ Orderly(q)' => Orderly(q)
             /\ Moving(q) => ~Orderly(q)'
             /\ request[q].aim \in Stops => ~Orderly(q)'
  BY <1>1, <1>2, Others, IdleType
<1>5. ASSUME \A q \in Request : Moving(q)' => Orderly(q)'
      PROVE  \A q \in Request : ~Moving(q) /\ ~Moving(q)'
  BY <1>2, <1>3, <1>4, <1>5, IdleRestNext DEF Moving
<1>6. ASSUME NEW q \in Request \ {r} PROVE RequestOK(q)'
  <2>1. FromOK(q) /\ ImageOK(q)
    BY DEF Rest, RequestOK
  <2>2. TodoOK(q)' /\ DoneOK(q)'
    BY <1>4 DEF TodoOK, DoneOK
  <2>3. FromOK(q)'
    <3>1. "stop" \in Stops /\ (request[q].aim = "stopping" => Moving(q))
      BY DEF Stops, Moving, Mode
    <3> QED  BY <1>1, <1>4, <2>1, <3>1 DEF FromOK
  <2>4. ImageOK(q)'
    <3> SUFFICES ASSUME request[q].aim \in Edit, Orderly(q)', ~torn',
                        \A p \in Request : ~Moving(p)', NEW a \in Left(q), request[q].todo[a].valid
                 PROVE  ~request[q].todo[a].active
      BY <1>4 DEF ImageOK
    <3>1. Orderly(q) /\ ~torn /\ \A p \in Request : ~Moving(p)
      BY <1>1, <1>4, <1>5
    <3> QED  BY <2>1, <3>1 DEF ImageOK
  <2> QED  BY <2>2, <2>3, <2>4 DEF RequestOK
<1>7. ModeOK'
  <2> SUFFICES ASSUME ~torn', \A q \in Request : Moving(q)' => Orderly(q)', NEW b \in Action
               PROVE  /\ (b \in ValidActions(config))' => (config[b].active = ActiveIn(mode, b))'
                      /\ (config[b].retired /\ config[b].valid => ~config[b].active)'
    BY DEF ModeOK
  <2>1. ~torn /\ Orderly(r) /\ \A q \in Request : ~Moving(q)
    BY <1>1, <1>5 DEF Orderly
  <2>2. mode = "stopped" /\ mode' = "stopped"
    BY <1>1, <1>2, <2>1 DEF FromOK
  <2>3. ~ActiveIn(mode, b) /\ ~ActiveIn(mode, b)'
    BY <2>2 DEF ActiveIn
  <2>4. /\ b \in ValidActions(config) => config[b].active = ActiveIn(mode, b)
        /\ config[b].retired /\ config[b].valid => ~config[b].active
    BY <2>1 DEF Rest, ModeOK
  <2>5. /\ config[b].active \in BOOLEAN /\ config'[b].active \in BOOLEAN
        /\ config[b].retired \in BOOLEAN /\ config' \in Config
    BY StoreType, ConfigFields DEF TInv, TypeOK
  <2>6. config[b].valid => ~config[b].active
    BY <2>3, <2>4, <2>5 DEF ValidActions
  <2>7. config'[b].valid => ~config'[b].active
    <3>1. CASE UNCHANGED config
      BY <2>6, <3>1
    <3>2. ASSUME NEW a \in Action, StoreOf(r, a) PROVE config'[b].valid => ~config'[b].active
      <4>1. CASE a # b
        BY <2>6, <3>2, <4>1 DEF StoreOf
      <4>2. CASE a = b
        <5>1. a \in Left(r) /\ (request[r].todo[a].valid => ~request[r].todo[a].active)
          BY <1>1, <1>2, <2>1, <3>2 DEF ImageOK, StoreOf
        <5> QED  BY <2>6, <3>2, <4>2, <5>1 DEF StoreOf
      <4> QED  BY <4>1, <4>2
    <3> QED  BY <1>1, <3>1, <3>2
  <2>8. (b \in ValidActions(config))' => config'[b].valid
    BY DEF ValidActions
  <2>9. (config[b].active = ActiveIn(mode, b))' <=> (config'[b].active = ActiveIn(mode, b)')
    OBVIOUS
  <2>10. (b \in ValidActions(config))' => (config[b].active = ActiveIn(mode, b))'
    <3>1. ActiveIn(mode, b)' = FALSE
      BY <2>2 DEF ActiveIn
    <3> QED  BY <2>5, <2>7, <2>8, <3>1
  <2> QED  BY <2>7, <2>10
<1>8. NoUnused' /\ NoCycle'
  <2>1. ~slipped' => mode' = "stopped"
    BY <1>1, <1>2 DEF FromOK, Orderly
  <2> QED  BY <2>1 DEF NoUnused, NoCycle
<1> QED  BY <1>3, <1>6, <1>7, <1>8, IdleRestNext DEF Rest

\* A configuration becomes invalid.
LEMMA InvalidStep ==
  ASSUME TInv, Rest, NEW a \in Action, ConfigurationInvalid(a)
  PROVE  Rest'
<1>1. /\ config \in Config /\ config' \in Config
      /\ config'[a].shape = config[a].shape /\ config'[a].active = config[a].active
      /\ config'[a].retired = config[a].retired /\ ~config'[a].valid
      /\ \A b \in Action \ {a} : config'[b] = config[b]
      /\ UNCHANGED <<mode, check, request, torn, slipped>>
      /\ \A r \in Request : request[r] = Idle
  BY InvalidType DEF TInv, TypeOK
<1>2. \A r \in Request : RequestOK(r)' /\ ~Moving(r)
  BY <1>1, IdleRest, IdleRestNext
<1>3. ValidActions(config') \subseteq ValidActions(config) \ {a}
  BY <1>1 DEF ValidActions
<1>4. ModeOK'
  <2> SUFFICES ASSUME ~torn, NEW b \in Action
               PROVE  /\ b \in ValidActions(config') => (config[b].active = ActiveIn(mode, b))'
                      /\ (config[b].retired /\ config[b].valid => ~config[b].active)'
    BY <1>1 DEF ModeOK
  <2>1. /\ b \in ValidActions(config) => config[b].active = ActiveIn(mode, b)
        /\ config[b].retired /\ config[b].valid => ~config[b].active
    BY <1>2 DEF Rest, ModeOK
  <2>2. CASE b = a
    BY <1>1, <1>3, <2>2
  <2>3. CASE b # a
    BY <1>1, <1>3, <2>1, <2>3 DEF ActiveIn
  <2> QED  BY <2>2, <2>3
<1>5. NoUnused'
  <2>1. Handled(config) => Handled(config')
    BY <1>1 DEF Handled
  <2> QED  BY <1>1, <2>1 DEF Rest, NoUnused
<1>6. NoCycle'
  <2>1. \A b \in Action : config'[b].shape = config[b].shape
    BY <1>1
  <2>2. actions_have_no_cycles(config) => actions_have_no_cycles(config')
    BY <1>1, <1>3, <2>1, FewerEdges
  <2> QED  BY <1>1, <2>2 DEF Rest, NoCycle
<1> QED  BY <1>2, <1>4, <1>5, <1>6 DEF Rest

\* A request about a document ends.
LEMMA DropsStep ==
  ASSUME TInv, Rest, NEW r \in Request, Drops(r)
  PROVE  Rest'
<1>1. /\ request'[r] = Idle /\ \A q \in Request \ {r} : request'[q] = request[q]
      /\ UNCHANGED <<mode, check, config, torn, slipped>> /\ request[r].aim = "document"
  BY IdleFacts DEF Drops
<1>2. ~Moving(r) /\ RequestOK(r)'
  BY <1>1, RestOK, IdleRestNext
<1> QED  BY <1>1, <1>2, NothingWritten

LEMMA UnchangedStep ==
  ASSUME Rest, UNCHANGED <<mode, check, config, request, torn, slipped>>
  PROVE  Rest'
<1>1. \A q \in Request : RequestOK(q)'
  <2>1. ASSUME NEW q \in Request PROVE RequestOK(q)'
    <3>1. request'[q] = request[q] /\ RequestOK(q)
      BY DEF Rest
    <3>2. (\A r \in Request : ~Moving(r)') => \A r \in Request : ~Moving(r)
      BY DEF Moving
    <3> QED  BY <3>1, <3>2, SameRequest
  <2> QED  BY <2>1
<1>2. ModeOK' /\ NoUnused' /\ NoCycle'
  BY DEF Rest, ModeOK, NoUnused, NoCycle, ActiveIn, Moving, Orderly, InRange, Left
<1> QED  BY <1>1, <1>2 DEF Rest

LEMMA InitRest == Init => Rest /\ Views
<1> SUFFICES ASSUME Init PROVE Rest /\ Views
  OBVIOUS
<1>1. \A r \in Request : RequestOK(r)
  BY IdleRest DEF Init
<1>2. ModeOK
  <2>1. \A a \in Action : ~config[a].active /\ ~ActiveIn(mode, a)
    BY DEF Init, ActiveIn
  <2>2. ASSUME NEW a \in Action PROVE config[a].active = FALSE /\ ActiveIn(mode, a) = FALSE
    BY DEF Init, ActiveIn
  <2> QED  BY <2>2 DEF ModeOK
<1>3. NoUnused /\ NoCycle
  BY DEF Init, NoUnused, NoCycle
<1>4. Views
  <2>1. \A c \in Config : Acyclic(EdgesOf(NoView))
    BY PointersAcyclic
  <2>2. config \in Config
    BY InitType DEF TInv, TypeOK
  <2>3. Free.view = NoView
    BY DEF Free
  <2> QED  BY <2>1, <2>2, <2>3 DEF Init, Views
<1> QED  BY <1>1, <1>2, <1>3, <1>4 DEF Rest

\* The invariant holds, whatever requests and clean-ups overlap.
THEOREM WorkflowInvariant == Spec => []WInv
<1>1. Init => WInv
  BY InitType, InitRest DEF WInv, Rest
<1>2. WInv /\ [Next]_vars => WInv'
  <2> SUFFICES ASSUME WInv, [Next]_vars PROVE WInv'
    OBVIOUS
  <2>1. TInv /\ Rest /\ Views
    BY DEF WInv, Rest
  <2>2. CASE UNCHANGED vars
    <3>1. Rest'
      BY <2>1, <2>2, UnchangedStep DEF vars
    <3>2. TInv'
      BY <2>1, <2>2 DEF vars, TInv, TypeOK, FreeOK
    <3>3. Views'
      BY <2>1, <2>2 DEF vars, Views
    <3> QED  BY <3>1, <3>2, <3>3 DEF WInv, Rest
  <2>3. CASE Next
    <3>1. TInv'
      BY <2>1, <2>3, StepTypes
    <3>2. Views'
      BY <2>1, <2>3, ViewsStep
    <3>3. Rest'
      <4>1. ASSUME NEW r \in Request,
                   \/ Loads(r) \/ count_documents(r) \/ Write(r) \/ Finish(r)
                   \/ Interrupt(r) \/ Store(r) \/ Drops(r)
            PROVE  Rest'
        BY <2>1, <4>1, LoadsStep, CountedStep, WriteStep, FinishStep, InterruptStep, StoreStep,
           DropsStep
      <4>2. ASSUME NEW a \in Action, ConfigurationInvalid(a) PROVE Rest'
        BY <2>1, <4>2, InvalidStep
      <4>3. ASSUME Elsewhere PROVE Rest'
        BY <2>1, <4>3, ElsewhereFrame, UnchangedStep
      <4> QED  BY <2>1, <2>3, <4>1, <4>2, <4>3, NextCases
    <3> QED  BY <3>1, <3>2, <3>3 DEF WInv, Rest
  <2> QED  BY <2>2, <2>3
<1> QED  BY <1>1, <1>2, PTL DEF Spec

\* While no request runs or stops the workflow, its flags are those of the run mode, after
\* any runs, stops, clean-ups and edits that overlapped, unless one of them ended half-way
\* or wrote on top of what it did not know of.
THEOREM ModeAgreesAlways == Spec => []ModeAgrees
<1>1. WInv => ModeAgrees
  <2> SUFFICES ASSUME WInv, \A r \in Request : request[r].aim \notin Mode, ~torn,
                      NEW a \in ValidActions(config)
               PROVE  config[a].active = ActiveIn(mode, a)
    BY DEF ModeAgrees
  <2>1. \A r \in Request : ~Moving(r)
    BY DEF Moving
  <2>2. a \in Action
    BY DEF ValidActions
  <2> QED  BY <2>1, <2>2 DEF WInv, ModeOK
<1> QED  BY <1>1, WorkflowInvariant, PTL

-----------------------------------------------------------------------------
(* The order of the docspecs *)

\* A finite relation in which every non-empty set has an element without predecessor in
\* it can be put in order: a largest set of elements that is closed under predecessors
\* and can be ordered by numbers up to its size leaves none outside.
LEMMA HasOrder ==
  ASSUME NEW S, IsFiniteSet(S), NEW E, E \subseteq S \X S,
         \A T \in (SUBSET S) \ {{}} : \E s \in T : \A e \in E : e[1] \in T => e[2] # s
  PROVE  \E order \in [S -> 1..Cardinality(S)] : \A e \in E : order[e[1]] < order[e[2]]
<1> DEFINE n == Cardinality(S)
           Orders(T, f) ==
              /\ \A s \in S \ T : f[s] <= Cardinality(S \ T)
              /\ \A e \in E : e[2] \in S \ T => e[1] \in S \ T /\ f[e[1]] < f[e[2]]
           Unordered == {T \in SUBSET S : \E f \in [S -> 1..n] : Orders(T, f)}
<1>1. n \in Nat /\ \A T \in SUBSET S : IsFiniteSet(T) /\ Cardinality(T) \in Nat
                                       /\ Cardinality(T) <= n
  BY FS_Subset, FS_CardinalityType
<1>2. S \in Unordered
  <2> DEFINE one == [s \in S |-> 1]
  <2>1. ASSUME NEW s \in S PROVE n >= 1
    <3>1. n # 0
      BY FS_EmptySet
    <3> QED  BY <1>1, <3>1
  <2>2. one \in [S -> 1..n]
    BY <1>1, <2>1
  <2>3. Orders(S, one)
    OBVIOUS
  <2> QED  BY <2>2, <2>3
<1>3. PICK T \in Unordered : \A U \in Unordered : ~(<<U, T>> \in StrictSubsetOrdering(S))
  <2>1. Unordered \subseteq FiniteSubsetsOf(S)
    BY <1>1 DEF FiniteSubsetsOf
  <2> HIDE DEF Unordered
  <2> QED  BY <1>2, <2>1, FS_StrictSubsetOrderingWellFounded, WFMin
<1>4. PICK f \in [S -> 1..n] : Orders(T, f)
  OBVIOUS
<1>5. CASE T = {}
  <2>1. \A e \in E : e[1] \in S /\ e[2] \in S /\ f[e[1]] < f[e[2]]
    BY <1>4, <1>5
  <2> QED  BY <2>1
<1>6. CASE T # {}
  <2>1. PICK s \in T : \A e \in E : e[1] \in T => e[2] # s
    BY <1>6
  <2> DEFINE U == T \ {s}
             k == Cardinality(S \ T)
             g == [f EXCEPT ![s] = k + 1]
  <2>2. S \ U = (S \ T) \cup {s} /\ s \notin S \ T /\ s \in S
    BY <2>1
  <2>3. k \in Nat /\ Cardinality(S \ U) = k + 1 /\ k + 1 <= n
    <3>1. IsFiniteSet(S \ T) /\ k \in Nat
      BY <1>1
    <3>2. Cardinality((S \ T) \cup {s}) = k + 1
      <4> DEFINE R == S \ T
      <4>1. IsFiniteSet(R) /\ s \notin R /\ k = Cardinality(R)
        BY <2>2, <3>1
      <4> HIDE DEF R
      <4>2. Cardinality(R \cup {s}) = Cardinality(R) + 1
        BY <4>1, FS_AddElement
      <4> QED  BY <4>1, <4>2 DEF R
    <3>3. Cardinality(S \ U) <= n
      BY <1>1
    <3> QED  BY <2>2, <3>1, <3>2, <3>3
  <2>4. g \in [S -> 1..n] /\ g[s] = k + 1 /\ \A t \in S \ {s} : g[t] = f[t]
    BY <2>2, <2>3
  <2> HIDE DEF g
  <2>5. \A t \in S \ U : g[t] <= Cardinality(S \ U)
    <3> SUFFICES ASSUME NEW t \in S \ U PROVE g[t] <= k + 1
      BY <2>3
    <3>1. CASE t = s
      BY <2>3, <2>4, <3>1
    <3>2. CASE t # s
      <4>1. t \in S \ T /\ g[t] = f[t] /\ f[t] <= k
        BY <1>4, <2>2, <2>4, <3>2
      <4>2. f[t] \in 1..n
        BY <4>1
      <4> QED  BY <2>3, <4>1, <4>2
    <3> QED  BY <3>1, <3>2
  <2>6. ASSUME NEW e \in E, e[2] \in S \ U PROVE e[1] \in S \ U /\ g[e[1]] < g[e[2]]
    <3>0. e[1] \in S /\ e[2] \in S
      OBVIOUS
    <3>1. CASE e[2] = s
      <4>1. e[1] \in S \ T
        BY <2>1, <3>0, <3>1
      <4>2. g[e[1]] = f[e[1]] /\ f[e[1]] <= k /\ f[e[1]] \in 1..n
        BY <1>4, <2>2, <2>4, <4>1
      <4> QED  BY <2>2, <2>3, <2>4, <3>1, <4>1, <4>2
    <3>2. CASE e[2] # s
      <4>1. e[2] \in S \ T
        BY <2>2, <2>6, <3>2
      <4>2. e[1] \in S \ T /\ f[e[1]] < f[e[2]]
        BY <1>4, <4>1
      <4> QED  BY <2>2, <2>4, <4>1, <4>2
    <3> QED  BY <3>1, <3>2
  <2>7. U \in Unordered
    <3>1. Orders(U, g)
      BY <2>5, <2>6
    <3> HIDE DEF Orders
    <3> QED  BY <2>4, <3>1
  <2>8. <<U, T>> \in StrictSubsetOrdering(S)
    BY <2>1 DEF StrictSubsetOrdering
  <2> QED  BY <1>3, <2>7, <2>8
<1> QED  BY <1>5, <1>6

\* What tsort accepts, with the docspecs that are made from themselves left out, can be
\* put in order.
LEMMA AcyclicOrdered ==
  ASSUME NEW edges \in SUBSET (Spec0 \X Spec0), Acyclic(edges)
  PROVE  Ordered(edges)
<1> DEFINE E == {e \in edges : e[1] # e[2]}
<1>1. E \subseteq Spec0 \X Spec0
  OBVIOUS
<1>2. ASSUME NEW T \in (SUBSET Spec0) \ {{}}
      PROVE  \E s \in T : \A e \in E : e[1] \in T => e[2] # s
  <2>1. ~ \A s \in T : \E e \in edges : e[1] # e[2] /\ e[1] \in T /\ e[2] = s
    BY DEF Acyclic
  <2> QED  BY <2>1
<1> HIDE DEF E
<1>3. PICK order \in [Spec0 -> 1..Cardinality(Spec0)] : \A e \in E : order[e[1]] < order[e[2]]
  BY <1>1, <1>2, HasOrder
<1>4. \A e \in edges : e[1] # e[2] => order[e[1]] < order[e[2]]
  BY <1>3 DEF E
<1> QED  BY <1>4 DEF Ordered

LEMMA EdgesType ==
  /\ \A c \in Config : Edges(c) \subseteq Spec0 \X Spec0
  /\ \A v : EdgesOf(v) \subseteq Spec0 \X Spec0
<1>1. ASSUME NEW c \in Config, NEW e \in Edges(c) PROVE e \in Spec0 \X Spec0
  <2>1. PICK a \in ValidActions(c) : e \in {c[a].shape.input} \X c[a].shape.outputs
    BY DEF Edges
  <2>2. a \in Action
    BY <2>1 DEF ValidActions
  <2>3. c[a].shape.input \in Spec0 /\ c[a].shape.outputs \subseteq Spec0
    BY <2>2, ConfigFields, ShapeFields
  <2> QED  BY <2>1, <2>3
<1>2. \A v : EdgesOf(v) \subseteq Spec0 \X Spec0
  BY DEF EdgesOf
<1> QED  BY <1>1, <1>2

\* A workflow that is not stopped, unless an edit was written between the checks of a run
\* and its last update or a run between those of an edit, and every launcher and agent at
\* any time, has docspecs that can be put in an order in which every action goes forward
\* but those that make what they take: with any requests, edits and clean-ups that overlap
\* or end half-way and configurations that become invalid.
THEOREM RunningHasNoCycleAlways == Spec => []RunningHasNoCycle
<1>1. WInv => RunningHasNoCycle
  <2> SUFFICES ASSUME WInv PROVE RunningHasNoCycle
    OBVIOUS
  <2>1. config \in Config
    BY DEF WInv, TInv, TypeOK
  <2>2. mode # "stopped" /\ ~slipped => Ordered(Edges(config))
    BY <2>1, EdgesType, CyclesAcyclic, AcyclicOrdered DEF WInv, NoCycle
  <2>3. \A l \in Launcher : Ordered(EdgesOf(launcher[l].view))
    BY EdgesType, AcyclicOrdered DEF WInv, Views
  <2>4. \A d \in Doc : Ordered(EdgesOf(doc[d].view))
    BY EdgesType, AcyclicOrdered DEF WInv, Views
  <2> QED  BY <2>2, <2>3, <2>4 DEF RunningHasNoCycle
<1> QED  BY <1>1, WorkflowInvariant, PTL

-----------------------------------------------------------------------------
(* Documents that no action takes *)

\* The one step that leaves a document without an action, unlocked and not published,
\* is that of an agent that creates it: with a docspec none of the agent's actions takes.
LEMMA OrphanIsCreated ==
  ASSUME TInv, Next, NEW d \in Doc, Orphan(d)', ~Orphan(d)
  PROVE  \E e \in Doc, a \in Action : \E spec \in doc[e].view[a].outputs :
            /\ Held(e) /\ doc[e].view[a] # None
            /\ Handling(doc[e].view, spec) = {}
<1>1. /\ doc'[d].spec # None /\ ~doc'[d].pub /\ doc'[d].pending = {} /\ doc'[d].by = None
  BY DEF Orphan, Held
<1>2. doc'[d] # doc[d] /\ doc'[d] # Free /\ doc \in [Doc -> DocType]
  <2>1. doc'[d] # Free
    BY <1>1 DEF Free
  <2>2. doc'[d] # doc[d]
    BY <1>1 DEF Orphan, Held
  <2> QED  BY <2>1, <2>2 DEF TInv, TypeOK
<1>3. ASSUME NEW o \in Doc, NEW x, Put(o, x) PROVE o = d /\ x = doc'[d]
  BY <1>2, <1>3 DEF Put
<1>4. ASSUME UNCHANGED doc PROVE FALSE
  BY <1>2, <1>4
<1>5. ASSUME NEW spec, NEW p, NEW b \in BOOLEAN, NEW o \in Doc, p # {},
             \/ Put(o, [Free EXCEPT !.spec = spec, !.pending = p])
             \/ Put(o, [Free EXCEPT !.spec = spec, !.pub = b, !.pending = p])
      PROVE  FALSE
  <2>1. \/ doc'[d] = [Free EXCEPT !.spec = spec, !.pending = p]
        \/ doc'[d] = [Free EXCEPT !.spec = spec, !.pub = b, !.pending = p]
    <3>1. CASE Put(o, [Free EXCEPT !.spec = spec, !.pending = p])
      BY <1>3, <3>1
    <3>2. CASE Put(o, [Free EXCEPT !.spec = spec, !.pub = b, !.pending = p])
      BY <1>3, <3>2
    <3> QED  BY <1>5, <3>1, <3>2
  <2>2. doc'[d].pending = p
    BY <2>1 DEF Free
  <2> QED  BY <1>1, <1>5, <2>2
<1>6. ASSUME NEW a, NEW spec, collect(a, spec) PROVE FALSE
  BY <1>5, <1>6 DEF collect
<1>12. ASSUME NEW r \in Request, Drops(r) PROVE FALSE
  <2>1. ASSUME NEW a \in Action, NEW o \in Doc,
               Put(o, [Free EXCEPT !.spec = request[r].todo[a].shape.input,
                                   !.pub = TRUE, !.pending = doc[o].pending \cup {a}])
        PROVE  FALSE
    <3>1. doc[o].pending \cup {a} # {}
      OBVIOUS
    <3> QED  BY <1>5, <2>1, <3>1
  <2> QED  BY <1>4, <1>6, <1>12, <2>1 DEF Drops
<1>7. ASSUME NEW l \in Launcher, NEW o \in Doc, Lock(l, o) PROVE FALSE
  <2> DEFINE y == doc[o]
             v == launcher[l].view
  <2>1. doc'[d] = [y EXCEPT !.by = l, !.view = v] /\ y \in DocType /\ y.pending # {}
    BY <1>2, <1>3, <1>7 DEF Lock
  <2> HIDE DEF y, v
  <2>2. doc'[d].pending = y.pending
    BY <2>1 DEF DocType
  <2> QED  BY <1>1, <2>1, <2>2
<1>8. ASSUME NEW o \in Doc, NEW a \in Action, Publish(o, a) PROVE FALSE
  <2>1. PICK x \in DocType : Put(o, x) /\ (x = Free \/ (x.spec # None /\ x.by # None))
    BY <1>8, PublishCases
  <2> QED  BY <1>1, <1>2, <1>3, <2>1
<1>9. ASSUME NEW o \in Doc, NEW a \in Action, Fail(o, a) \/ Undefined(o, a) PROVE FALSE
  BY <1>2, <1>3, <1>9 DEF Fail, Undefined, Failed
<1>10. ASSUME NEW o \in Doc, NEW a \in Action, Execute(o, a)
       PROVE  \E spec \in doc[o].view[a].outputs :
                 /\ Held(o) /\ doc[o].view[a] # None
                 /\ Handling(doc[o].view, spec) = {}
  <2>1. /\ Held(o) /\ doc[o].view[a] \in Shape
        /\ Remains(o, a) = Free \/ (Remains(o, a).spec # None /\ Remains(o, a).by # None)
    BY <1>10, ExecuteCases
  <2>2. doc'[d] # Remains(o, a)
    BY <1>1, <1>2, <2>1
  <2>3. PICK spec \in doc[o].view[a].outputs, e \in Doc :
           doc' = [doc EXCEPT ![o] = Remains(o, a), ![e] = Created(o, a, spec)]
    BY <1>3, <1>10, <2>2, ExecuteCases
  <2>4. doc'[d] = Created(o, a, spec)
    BY <1>2, <2>2, <2>3
  <2>5. spec \in Spec0 /\ doc[o].view[a] # None
    BY <2>1, ShapeFields
  <2>6. Created(o, a, spec).pending = Handling(doc[o].view, spec)
    BY <2>5, CreatedType
  <2> QED  BY <1>1, <2>1, <2>4, <2>5, <2>6
<1>11. CASE Elsewhere
  <2>1. ASSUME NEW l \in Launcher, NEW a \in Action, Trigger(l, a) PROVE FALSE
    BY <1>6, <2>1 DEF Trigger
  <2>2. ASSUME Count \/ CountExpires \/ \E l \in Launcher : refresh(l) \/ launch_agents(l)
        PROVE  FALSE
    BY <1>4, <2>2 DEF Count, CountExpires, refresh, launch_agents
  <2> QED  BY <1>7, <1>8, <1>9, <1>10, <1>11, <2>1, <2>2 DEF Elsewhere, Process
<1>13. ASSUME NEW r \in Request,
              Loads(r) \/ count_documents(r) \/ Write(r) \/ Finish(r) \/ Interrupt(r) \/ Store(r)
       PROVE  FALSE
  <2>1. CASE Loads(r)
    BY <1>4, <2>1, LoadsType
  <2>2. CASE count_documents(r)
    BY <1>4, <2>2, CountDocumentsType
  <2>3. CASE Write(r) \/ Finish(r) \/ Interrupt(r) \/ Store(r)
    BY <1>4, <2>3 DEF Write, Finish, Interrupt, Store
  <2> QED  BY <1>13, <2>1, <2>2, <2>3
<1>14. ASSUME NEW a \in Action, ConfigurationInvalid(a) PROVE FALSE
  BY <1>4, <1>14 DEF ConfigurationInvalid
<1> QED  BY <1>11, <1>12, <1>13, <1>14, NextCases

LEMMA OutputsStep ==
  ASSUME WInv, [Next]_vars, NEW d \in Doc, Orphan(d)', ~Orphan(d), check, mode = "running",
         ~slipped
  PROVE  \E e \in InProcess, a \in Action :
            /\ Held(e)
            /\ doc[e].view[a] # IF config[a].retired THEN None ELSE config[a].shape
<1>1. TInv /\ config \in Config
  BY DEF WInv, TInv, TypeOK
<1>2. ASSUME UNCHANGED doc PROVE FALSE
  BY <1>2 DEF Orphan, Held
<1>3. Next
  BY <1>2 DEF vars
<1>4. PICK e \in Doc, a \in Action : \E spec \in doc[e].view[a].outputs :
            /\ Held(e) /\ doc[e].view[a] # None
            /\ Handling(doc[e].view, spec) = {}
  BY <1>1, <1>3, OrphanIsCreated
<1>5. PICK spec \in doc[e].view[a].outputs :
            Held(e) /\ doc[e].view[a] # None /\ Handling(doc[e].view, spec) = {}
  BY <1>4
<1>6. e \in InProcess
  BY <1>1, <1>5, HeldDoc DEF InProcess
<1> SUFFICES ASSUME \A b \in Action :
                       doc[e].view[b] = IF config[b].retired THEN None ELSE config[b].shape
             PROVE  FALSE
  BY <1>5, <1>6
<1>7. ~config[a].retired /\ spec \in config[a].shape.outputs
  BY <1>5
<1>8. PICK b \in Action : ~config[b].retired /\ config[b].shape.input = spec
  BY <1>7 DEF WInv, NoUnused, Handled
<1>9. config[b].shape # None
  BY ConfigFields, ShapeFields DEF WInv, TInv, TypeOK
<1>10. b \in Handling(doc[e].view, spec)
  BY <1>8, <1>9 DEF Handling
<1> QED  BY <1>5, <1>10

\* While a workflow runs that was checked for unused outputs, an agent that creates a document
\* no action takes has not the actions of the configuration, whatever was edited, retired or
\* became invalid before and whatever requests overlap, unless an edit was written between
\* the checks of a run and its last update.
THEOREM AllOutputsHandledAlways == Spec => AllOutputsHandled
<1> DEFINE A == \A d \in Doc :
              Orphan(d)' /\ ~Orphan(d) /\ check /\ mode = "running" /\ ~slipped =>
                  \E e \in InProcess, a \in Action :
                      /\ Held(e)
                      /\ doc[e].view[a] #
                            IF config[a].retired THEN None ELSE config[a].shape
<1>1. WInv /\ [Next]_vars => [A]_vars
  BY OutputsStep
<1> HIDE DEF A
<1>2. Spec => []WInv
  BY WorkflowInvariant
<1>3. Spec => [][A]_vars
  BY <1>1, <1>2, PTL DEF Spec
<1> QED  BY <1>3 DEF A, AllOutputsHandled
=============================================================================
