--------------------------- MODULE DeviceStoreProofs ---------------------------
(***************************************************************************)
(* What is proved of DeviceStore, for any number of devices, types,        *)
(* operations, turns of the gateway and requests of the web server:        *)
(* requests that never overlap lose nothing (NothingLost), and an          *)
(* enrichment that ran alone leaves every device with the operations of    *)
(* its type, whatever earlier requests, overlapping or cut off, have left  *)
(* behind (RepairedAlone).                                                 *)
(*                                                                         *)
(* The mutexes play no part in the argument: they belong to one process.   *)
(* It rests on the requests: while one of them is alone since it began     *)
(* (AloneFirst), what it has reloaded is what the files hold, it enriches  *)
(* with the operations of the file, and the devices it is about to save,   *)
(* with those it leaves alone, are right (Sound).                          *)
(***************************************************************************)
EXTENDS DeviceStore, TLAPS

----------------------------------------------------------------------------
\* The inductive invariant

Places == {"idle", "list", "load", "save", "opload", "opsave", "map", "devices"}

Device == [urn : Urns, ops : SUBSET (OpNames \cup {NoAction})]
Tables == UNION {[D -> Device] : D \in SUBSET Devices}

Work == [at : Places, put : Tables, rem : SUBSET Devices, add : SUBSET Operations,
         del : SUBSET Operations, base : Tables, loaded : SUBSET Operations,
         map : SUBSET Operations, clear : BOOLEAN, enrich : BOOLEAN]

TypeOK ==
  /\ devices \in Tables
  /\ ops \in SUBSET Operations
  /\ mem \in [Processes -> SUBSET Operations]
  /\ act \in [Actors -> Work]
  /\ begun \in 0..MaxBegun
  /\ alone \in Actors \cup {Nobody}
  /\ overlap \in BOOLEAN
  /\ known \in SUBSET Devices
  /\ ledger \in SUBSET Operations
  /\ repaired \in BOOLEAN

Busy(a) == act[a].at # "idle"

\* Who is alone since it began shares the stores with nobody, and as long as no two
\* requests have overlapped, whoever is at work is alone.
AloneFirst ==
  /\ \A a, b \in Actors : alone = a /\ Busy(b) => b = a
  /\ ~overlap => \A a \in Actors : Busy(a) => alone = a

Right(record) == record.ops = OpsOf(ops, record.urn)

\* What the one that is alone knows is true: what it has reloaded is what the files
\* hold, and so are the memory it enriches from and the copy it took; the devices
\* its enrichment is about to save are right, and so are those it does not save.
Sound(a) ==
  /\ act[a].at = "save" => act[a].base = devices
  /\ act[a].at = "opsave" => act[a].loaded = ops
  /\ act[a].at = "map" => mem[Proc(a)] = ops
  /\ act[a].at = "devices" => act[a].map = ops
  /\ act[a].enrich /\ act[a].at \in {"load", "save"} =>
       /\ \A d \in DOMAIN act[a].put : Right(act[a].put[d])
       /\ \A d \in DOMAIN devices \ DOMAIN act[a].put : Right(devices[d])

\* Nothing is under way after an enrichment that was alone, and the devices are right.
AllRight == \A d \in DOMAIN devices : Right(devices[d])
RepairedQuiet == repaired => (AllRight /\ \A a \in Actors : ~Busy(a))

IInv ==
  /\ AloneFirst
  /\ \A a \in Actors : alone = a => Sound(a)
  /\ RepairedQuiet
  /\ NothingLost

----------------------------------------------------------------------------
\* Tables of devices

IsTable(f) == DOMAIN f \subseteq Devices /\ f \in [DOMAIN f -> Device]

LEMMA TableDef == ASSUME NEW f PROVE f \in Tables <=> IsTable(f)
<1>1. ASSUME f \in Tables PROVE IsTable(f)
  <2>1. PICK D \in SUBSET Devices : f \in [D -> Device]  BY <1>1 DEF Tables
  <2>2. QED BY <2>1 DEF IsTable
<1>2. ASSUME IsTable(f) PROVE f \in Tables
  BY <1>2 DEF IsTable, Tables
<1>3. QED BY <1>1, <1>2

LEMMA EmptyTable == <<>> \in Tables /\ DOMAIN <<>> = {}
<1>1. DOMAIN <<>> = {}  OBVIOUS
<1>2. <<>> \in [{} -> Device]  OBVIOUS
<1>3. QED BY <1>1, <1>2 DEF Tables

----------------------------------------------------------------------------
\* Types

LEMMA IdleWork == Idle \in Work
BY EmptyTable DEF Idle, Work, Places

LEMMA TypeInit == Init => TypeOK
<1> SUFFICES ASSUME Init PROVE TypeOK  OBVIOUS
<1>1. devices \in Tables  BY EmptyTable DEF Init
<1>2. act \in [Actors -> Work]  BY IdleWork DEF Init
<1>3. begun \in 0..MaxBegun  BY DeviceAssumption DEF Init
<1>4. mem \in [Processes -> SUBSET Operations]  BY DEF Init
<1>5. QED BY <1>1, <1>2, <1>3, <1>4 DEF Init, TypeOK

LEMMA TypeBegin ==
  ASSUME TypeOK, NEW a \in Actors, Begin(a), act' \in [Actors -> Work]
  PROVE  TypeOK'
<1>1. begun' \in 0..MaxBegun  BY DeviceAssumption DEF TypeOK, Begin
<1>2. overlap' \in BOOLEAN  BY ZenonT(30) DEF TypeOK, Begin
<1>3. alone' \in Actors \cup {Nobody} /\ repaired' \in BOOLEAN
  BY DEF TypeOK, Begin
<1>4. QED BY <1>1, <1>2, <1>3 DEF TypeOK, Begin

LEMMA TypeGetAllAndSave ==
  ASSUME TypeOK, NEW a \in Actors, NEW put \in Tables, NEW clear \in BOOLEAN,
         GetAllAndSave(a, put, clear)
  PROVE  TypeOK'
<1>1. Idle \in Work  BY IdleWork
<1>2. [Idle EXCEPT !.clear = clear, !.put = put,
         !.at = IF DOMAIN put = {} /\ clear THEN "list" ELSE "load"] \in Work
  BY <1>1 DEF Work, Places
<1>3. act' \in [Actors -> Work]  BY <1>2 DEF GetAllAndSave, TypeOK
<1>4. QED BY <1>3, TypeBegin DEF GetAllAndSave

LEMMA TypeSaveOps ==
  ASSUME TypeOK, NEW a \in Actors, NEW u \in Urns, NEW names \in SUBSET OpNames,
         SaveOps(a, u, names)
  PROVE  TypeOK'
<1>1. Idle \in Work  BY IdleWork
<1>2. [Idle EXCEPT !.at = "opload", !.add = {u} \X names] \in Work
  BY <1>1 DEF Work, Places, Operations
<1>3. act' \in [Actors -> Work]  BY <1>2 DEF SaveOps, TypeOK
<1>4. QED BY <1>3, TypeBegin DEF SaveOps

LEMMA DeviceOf ==
  ASSUME TypeOK
  PROVE  /\ DOMAIN devices \subseteq Devices
         /\ \A d \in DOMAIN devices : devices[d] \in Device
BY TableDef DEF TypeOK, IsTable

LEMMA TypeSync ==
  ASSUME TypeOK, NEW a \in Actors,
         NEW D \in SUBSET Devices, NEW found \in [D -> Urns], Sync(a, found)
  PROVE  TypeOK'
<1> DEFINE new == {d \in DOMAIN found : d \notin DOMAIN devices \/ devices[d].urn # found[d]}
<1> DEFINE put == [d \in new |-> IF d \in DOMAIN devices
                                 THEN [devices[d] EXCEPT !.urn = found[d]]
                                 ELSE [urn |-> found[d], ops |-> {}]]
<1>1. new \subseteq D  OBVIOUS
<1>2. \A d \in new : put[d] \in Device
  <2>1. SUFFICES ASSUME NEW d \in new PROVE put[d] \in Device  OBVIOUS
  <2>2. found[d] \in Urns  BY <1>1
  <2>3. CASE d \in DOMAIN devices
    BY <2>2, <2>3, DeviceOf DEF Device
  <2>4. CASE d \notin DOMAIN devices
    BY <2>2, <2>4 DEF Device
  <2>5. QED BY <2>3, <2>4
<1>3. put \in Tables
  <2> HIDE DEF new
  <2>1. put \in [new -> Device]  BY <1>2
  <2>2. QED BY <2>1, <1>1 DEF Tables
<1>4. GetAllAndSave(a, put, FALSE)  BY DEF Sync
<1> HIDE DEF put
<1>5. QED BY <1>3, <1>4, TypeGetAllAndSave

LEMMA TypeChange ==
  ASSUME TypeOK, NEW a \in Actors, NEW d \in DOMAIN devices,
         NEW names \in SUBSET (OpNames \cup {NoAction}), Change(a, d, names)
  PROVE  TypeOK'
<1> DEFINE put == [e \in {d} |-> [devices[e] EXCEPT !.ops = names]]
<1>1. put \in [{d} -> Device]  BY DeviceOf DEF Device
<1>2. put \in Tables  BY <1>1, DeviceOf DEF Tables
<1>3. GetAllAndSave(a, put, FALSE)  BY DEF Change
<1> HIDE DEF put
<1>4. QED BY <1>2, <1>3, TypeGetAllAndSave

LEMMA TypeClear ==
  ASSUME TypeOK, NEW a \in Actors, Clear(a)
  PROVE  TypeOK'
<1> DEFINE put == [d \in DOMAIN devices |-> [devices[d] EXCEPT !.ops = {}]]
<1>1. put \in [DOMAIN devices -> Device]  BY DeviceOf DEF Device
<1>2. put \in Tables  BY <1>1, DeviceOf DEF Tables
<1>3. GetAllAndSave(a, put, TRUE)  BY DEF Clear
<1> HIDE DEF put
<1>4. QED BY <1>2, <1>3, TypeGetAllAndSave

LEMMA TypeRemove ==
  ASSUME TypeOK, NEW a \in Actors, NEW d \in DOMAIN devices, Remove(a, d)
  PROVE  TypeOK'
<1>1. Idle \in Work  BY IdleWork
<1>2. [Idle EXCEPT !.at = "load", !.rem = {d}] \in Work
  BY <1>1, DeviceOf DEF Work, Places
<1>3. act' \in [Actors -> Work]  BY <1>2 DEF Remove, TypeOK
<1>4. QED BY <1>3, TypeBegin DEF Remove

LEMMA TypeRequest ==
  ASSUME TypeOK, NEW a \in Actors, Request(a)
  PROVE  TypeOK'
<1>1. ASSUME NEW u \in Urns, NEW names \in SUBSET OpNames \ {{}}, SaveOps(a, u, names)
      PROVE  TypeOK'
  BY <1>1, TypeSaveOps
<1>2. ASSUME NEW D \in SUBSET Devices, NEW found \in [D -> Urns], Sync(a, found)
      PROVE  TypeOK'
  BY <1>2, TypeSync
<1>3. ASSUME NEW d \in DOMAIN devices, Change(a, d, devices[d].ops) \/ Change(a, d, {NoAction})
      PROVE  TypeOK'
  <2>1. devices[d].ops \in SUBSET (OpNames \cup {NoAction})  BY DeviceOf DEF Device
  <2>2. QED BY <1>3, <2>1, TypeChange
<1>4. ASSUME NEW d \in DOMAIN devices, Remove(a, d) PROVE TypeOK'
  BY <1>4, TypeRemove
<1>5. QED BY <1>1, <1>2, <1>3, <1>4, TypeClear DEF Request

LEMMA TypeProceed ==
  ASSUME TypeOK, NEW a \in Actors, NEW me \in Work, Proceed(a, me)
  PROVE  act' \in [Actors -> Work] /\ repaired' \in BOOLEAN
<1>1. Idle \in Work  BY IdleWork
<1>2. [me EXCEPT !.at = "list", !.put = <<>>, !.base = <<>>] \in Work
  BY EmptyTable DEF Work, Places
<1>3. [Idle EXCEPT !.at = "opload", !.del = me.del] \in Work
  BY <1>1 DEF Work, Places
<1>4. me.enrich \in BOOLEAN  BY DEF Work
<1>5. act' \in [Actors -> Work]
  BY <1>1, <1>2, <1>3 DEF Proceed, TypeOK
<1>6. repaired' \in BOOLEAN
  BY <1>4 DEF Proceed, TypeOK
<1>7. QED BY <1>5, <1>6

LEMMA TypeStep ==
  ASSUME TypeOK, NEW a \in Actors, Step(a)
  PROVE  TypeOK'
<1>0. act[a] \in Work /\ Idle \in Work /\ Proc(a) \in Processes
  BY IdleWork DEF TypeOK, Proc, Processes
<1>1. CASE Load(a)
  <2>1. [act[a] EXCEPT !.at = "save", !.base = devices] \in Work
    BY <1>0 DEF Work, Places, TypeOK
  <2>2. act' = [act EXCEPT ![a] = [act[a] EXCEPT !.at = "save", !.base = devices]]
    BY <1>1, <1>0 DEF Load, TypeOK, Work
  <2>3. QED BY <1>1, <2>1, <2>2 DEF Load, TypeOK
<1>2. CASE Save(a)
  <2> DEFINE me == act[a]
  <2> DEFINE D == (DOMAIN me.put \cup DOMAIN me.base) \ me.rem
  <2>1. me.put \in Tables /\ me.base \in Tables  BY <1>0 DEF Work
  <2>2. IsTable(me.put) /\ IsTable(me.base)  BY <2>1, TableDef
  <2>3. D \in SUBSET Devices  BY <2>2 DEF IsTable
  <2>4. \A d \in D : (IF d \in DOMAIN me.put THEN me.put[d] ELSE me.base[d]) \in Device
    BY <2>2 DEF IsTable
  <2>5. devices' \in [D -> Device]
    <3>1. devices' = [d \in D |-> IF d \in DOMAIN me.put THEN me.put[d] ELSE me.base[d]]
      BY <1>2 DEF Save
    <3> HIDE DEF D
    <3>2. QED BY <3>1, <2>4
  <2>6. devices' \in Tables  BY <2>3, <2>5 DEF Tables
  <2>7. known' \in SUBSET Devices  BY <1>2, <2>2 DEF Save, IsTable, TypeOK
  <2>8. act' \in [Actors -> Work] /\ repaired' \in BOOLEAN
    BY <1>2, <1>0, TypeProceed DEF Save
  <2>9. QED BY <1>2, <2>6, <2>7, <2>8 DEF Save, TypeOK
<1>3. CASE List(a)
  <2>1. [Idle EXCEPT !.del = ops] \in Work  BY <1>0 DEF Work, TypeOK
  <2>2. act' \in [Actors -> Work] /\ repaired' \in BOOLEAN
    BY <1>3, <2>1, TypeProceed DEF List
  <2>3. QED BY <1>3, <1>0, <2>2 DEF List, TypeOK
<1>4. CASE OpLoad(a)
  <2>1. [act[a] EXCEPT !.at = "opsave", !.loaded = ops] \in Work
    BY <1>0 DEF Work, Places, TypeOK
  <2>2. act' = [act EXCEPT ![a] = [act[a] EXCEPT !.at = "opsave", !.loaded = ops]]
    BY <1>4, <1>0 DEF OpLoad, TypeOK, Work
  <2>3. QED BY <1>4, <1>0, <2>1, <2>2 DEF OpLoad, TypeOK
<1>5. CASE OpSave(a)
  <2>1. [Idle EXCEPT !.at = "map", !.enrich = TRUE] \in Work  BY <1>0 DEF Work, Places
  <2>2. act[a].loaded \cup act[a].add \in SUBSET Operations /\ act[a].add \in SUBSET Operations
    BY <1>0 DEF Work
  <2>3. QED BY <1>5, <1>0, <2>1, <2>2 DEF OpSave, Write, TypeOK
<1>6. ASSUME NEW x \in Operations, OpDelete(a, x) PROVE TypeOK'
  <2>1. /\ [Idle EXCEPT !.at = "map", !.enrich = TRUE, !.del = act[a].del \ {x}] \in Work
        /\ [Idle EXCEPT !.del = act[a].del \ {x}] \in Work
    BY <1>0 DEF Work, Places
  <2>2. act[a].loaded \in SUBSET Operations /\ act[a].loaded \ {x} \in SUBSET Operations
    BY <1>0 DEF Work
  <2>3. CASE x \in act[a].loaded
    BY <1>6, <1>0, <2>1, <2>2, <2>3 DEF OpDelete, Write, TypeOK
  <2>4. CASE x \notin act[a].loaded
    <3>1. act' \in [Actors -> Work] /\ repaired' \in BOOLEAN
      BY <1>6, <2>1, <2>4, TypeProceed DEF OpDelete
    <3>2. QED BY <1>6, <1>0, <2>2, <2>4, <3>1 DEF OpDelete, TypeOK
  <2>5. QED BY <2>3, <2>4
<1>7. CASE ReadMap(a)
  <2>1. PICK set \in {mem[Proc(a)]} \cup {act[b].loaded : b \in Holders(a, "opsave")} :
          act' = [act EXCEPT ![a].at = "devices", ![a].map = set]
    BY <1>7 DEF ReadMap
  <2>2. set \in SUBSET Operations
    BY <1>0, <2>1 DEF TypeOK, Holders, Work
  <2>3. [act[a] EXCEPT !.at = "devices", !.map = set] \in Work
    BY <1>0, <2>2 DEF Work, Places
  <2>4. act' = [act EXCEPT ![a] = [act[a] EXCEPT !.at = "devices", !.map = set]]
    BY <1>0, <2>1 DEF TypeOK, Work
  <2>5. QED BY <1>7, <2>3, <2>4 DEF ReadMap, TypeOK
<1>8. CASE Enrich(a)
  <2> DEFINE me == act[a]
  <2> DEFINE stale == Outdated(me.map)
  <2> DEFINE put == [d \in stale |-> [devices[d] EXCEPT !.ops = OpsOf(me.map, devices[d].urn)]]
  <2>1. CASE stale = {}
    <3>1. act' \in [Actors -> Work] /\ repaired' \in BOOLEAN
      BY <1>8, <1>0, <2>1, TypeProceed DEF Enrich
    <3>2. QED BY <1>8, <3>1 DEF Enrich, TypeOK
  <2>2. CASE stale # {}
    <3>1. stale \subseteq DOMAIN devices  BY DEF Outdated
    <3>2. \A d \in stale : [devices[d] EXCEPT !.ops = OpsOf(me.map, devices[d].urn)] \in Device
      BY <3>1, DeviceOf DEF Device, OpsOf
    <3>3. put \in Tables
      <4> HIDE DEF stale
      <4>1. put \in [stale -> Device]  BY <3>2
      <4>2. QED BY <4>1, <3>1, DeviceOf DEF Tables
    <3>4. act' = [act EXCEPT ![a] = [me EXCEPT !.at = "load", !.put = put]] /\ UNCHANGED repaired
      BY <1>8, <2>2 DEF Enrich
    <3> HIDE DEF put
    <3>5. [me EXCEPT !.at = "load", !.put = put] \in Work
      BY <1>0, <3>3 DEF Work, Places
    <3>6. act' \in [Actors -> Work]  BY <3>4, <3>5 DEF TypeOK
    <3>7. QED BY <1>8, <3>4, <3>6 DEF Enrich, TypeOK
  <2>3. QED BY <2>1, <2>2
<1>9. QED BY <1>1, <1>2, <1>3, <1>4, <1>5, <1>6, <1>7, <1>8 DEF Step

LEMMA TypeCrash ==
  ASSUME TypeOK, NEW p \in Processes, Crash(p)
  PROVE  TypeOK'
BY IdleWork DEF TypeOK, Crash

LEMMA TypeNext == TypeOK /\ [Next]_vars => TypeOK'
<1>1. ASSUME TypeOK, UNCHANGED vars PROVE TypeOK'
  BY <1>1 DEF TypeOK, vars
<1>2. ASSUME TypeOK, Next PROVE TypeOK'
  BY <1>2, TypeRequest, TypeStep, TypeCrash DEF Next
<1>3. QED BY <1>1, <1>2

\* Every record and every table is well formed, as long as the program runs.
THEOREM TypeCorrect == Spec => []TypeOK
<1>1. QED BY TypeInit, TypeNext, PTL DEF Spec

----------------------------------------------------------------------------
\* The inductive invariant

LEMMA InvInit == Init => IInv
<1> SUFFICES ASSUME Init PROVE IInv  OBVIOUS
<1>1. \A a \in Actors : ~Busy(a) /\ alone # a
  BY DeviceAssumption DEF Init, Busy, Idle
<1>2. AloneFirst /\ RepairedQuiet  BY <1>1 DEF Init, AloneFirst, RepairedQuiet
<1>3. NothingLost  BY EmptyTable DEF Init, NothingLost
<1>5. QED BY <1>1, <1>2, <1>3 DEF IInv

\* A request that begins is alone only if nothing else is under way, and starts
\* before it has reloaded anything.
LEMMA InvBegin ==
  ASSUME TypeOK, IInv, NEW a \in Actors, NEW work, Begin(a),
         act' = [act EXCEPT ![a] = work],
         work.at \in {"list", "load", "opload"}, work.enrich = FALSE
  PROVE  IInv'
<1> DEFINE others == \E b \in Actors \ {a} : act[b].at # "idle"
<1>1. /\ alone' = IF others THEN Nobody ELSE a
      /\ overlap' = (overlap \/ others)
      /\ repaired' = FALSE
      /\ UNCHANGED <<devices, ops, mem, known, ledger>>
  BY DEF Begin
<1>2. act'[a] = work /\ \A b \in Actors : b # a => act'[b] = act[b]
  BY DEF TypeOK
<1>3. \A b \in Actors : alone' = b => b = a /\ ~others
  BY <1>1, DeviceAssumption
<1>4. ~overlap' => ~overlap /\ ~others /\ alone' = a
  BY <1>1
<1>5. ~others => \A b \in Actors : b # a => ~Busy(b)'
  BY <1>2 DEF Busy
<1> HIDE DEF others
<1>6. AloneFirst'  BY <1>3, <1>4, <1>5 DEF AloneFirst
<1>7. Sound(a)'  BY <1>2 DEF Sound
<1>8. NothingLost'  BY <1>1, <1>4 DEF IInv, NothingLost
<1>9. RepairedQuiet'  BY <1>1 DEF RepairedQuiet
<1>10. \A b \in Actors : alone' = b => Sound(b)'
  BY <1>3, <1>7
<1>11. QED BY <1>6, <1>8, <1>9, <1>10 DEF IInv

LEMMA InvRequest ==
  ASSUME TypeOK, IInv, NEW a \in Actors, Request(a)
  PROVE  IInv'
<1>1. ASSUME NEW put, NEW clear, GetAllAndSave(a, put, clear) PROVE IInv'
  <2> DEFINE work == [Idle EXCEPT !.clear = clear, !.put = put,
                        !.at = IF DOMAIN put = {} /\ clear THEN "list" ELSE "load"]
  <2>1. act' = [act EXCEPT ![a] = work] /\ Begin(a)
    BY <1>1 DEF GetAllAndSave
  <2>2. work.at \in {"list", "load", "opload"} /\ work.enrich = FALSE
    BY DEF Idle
  <2> HIDE DEF work
  <2>3. QED BY <2>1, <2>2, InvBegin
<1>2. ASSUME NEW u \in Urns, NEW names \in SUBSET OpNames \ {{}}, SaveOps(a, u, names)
      PROVE  IInv'
  <2> DEFINE work == [Idle EXCEPT !.at = "opload", !.add = {u} \X names]
  <2>1. act' = [act EXCEPT ![a] = work] /\ Begin(a)
    BY <1>2 DEF SaveOps
  <2>2. work.at \in {"list", "load", "opload"} /\ work.enrich = FALSE
    BY DEF Idle
  <2> HIDE DEF work
  <2>3. QED BY <2>1, <2>2, InvBegin
<1>3. ASSUME NEW d \in DOMAIN devices, Remove(a, d) PROVE IInv'
  <2> DEFINE work == [Idle EXCEPT !.at = "load", !.rem = {d}]
  <2>1. act' = [act EXCEPT ![a] = work] /\ Begin(a)
    BY <1>3 DEF Remove
  <2>2. work.at \in {"list", "load", "opload"} /\ work.enrich = FALSE
    BY DEF Idle
  <2> HIDE DEF work
  <2>3. QED BY <2>1, <2>2, InvBegin
<1>4. ASSUME NEW D \in SUBSET Devices, NEW found \in [D -> Urns], Sync(a, found)
      PROVE  IInv'
  BY <1>1, <1>4, Zenon DEF Sync
<1>5. ASSUME NEW d \in DOMAIN devices, NEW names, Change(a, d, names) PROVE IInv'
  BY <1>1, <1>5, Zenon DEF Change
<1>6. CASE Clear(a)
  BY <1>1, <1>6, Zenon DEF Clear
<1>7. QED BY <1>2, <1>3, <1>4, <1>5, <1>6 DEF Request

\* A step of a request under way: only what it says of itself is at stake.
LEMMA InvStep ==
  ASSUME TypeOK, IInv, NEW a \in Actors, Busy(a), NEW work,
         act' = [act EXCEPT ![a] = work], UNCHANGED <<alone, overlap>>,
         alone = a => Sound(a)', NothingLost',
         repaired' => ~Busy(a)' /\ alone = a /\ AllRight'
  PROVE  IInv'
<1>1. AloneFirst /\ \A b \in Actors : alone = b => b = a
  BY DEF IInv, AloneFirst
<1>2. \A b \in Actors : Busy(b)' => Busy(b)
  BY DEF Busy, TypeOK
<1>3. AloneFirst'  BY <1>1, <1>2 DEF AloneFirst
<1>4. \A b \in Actors : alone' = b => Sound(b)'
  BY <1>1
<1>5. RepairedQuiet'
  BY <1>1, <1>2 DEF RepairedQuiet, AloneFirst
<1>6. QED BY <1>3, <1>4, <1>5 DEF IInv

LEMMA NotRepaired ==
  ASSUME TypeOK, IInv, NEW a \in Actors, Busy(a)
  PROVE  ~repaired /\ (alone = a => Sound(a)) /\ (~overlap => alone = a) /\ NothingLost
BY DEF IInv, RepairedQuiet, AloneFirst

\* The request goes on: with the next deletion, or it is over.
LEMMA InvProceed ==
  ASSUME TypeOK, IInv, NEW a \in Actors, Busy(a), NEW me \in Work, Proceed(a, me),
         UNCHANGED <<alone, overlap>>, NothingLost',
         me.enrich /\ alone = a => AllRight'
  PROVE  IInv'
<1>1. ~repaired  BY NotRepaired
<1>2. CASE me.clear
  <2> DEFINE work == [me EXCEPT !.at = "list", !.put = <<>>, !.base = <<>>]
  <2>1. act' = [act EXCEPT ![a] = work] /\ ~repaired'
    BY <1>1, <1>2 DEF Proceed
  <2>2. work.at = "list"  BY DEF Work
  <2> HIDE DEF work
  <2>3. act'[a] = work  BY <2>1 DEF TypeOK
  <2>4. Sound(a)'  BY <2>2, <2>3 DEF Sound
  <2>5. QED BY <2>1, <2>4, InvStep
<1>3. CASE ~me.clear /\ me.del # {}
  <2> DEFINE work == [Idle EXCEPT !.at = "opload", !.del = me.del]
  <2>1. act' = [act EXCEPT ![a] = work] /\ ~repaired'
    BY <1>1, <1>3 DEF Proceed
  <2>2. work.at = "opload"  BY DEF Idle
  <2> HIDE DEF work
  <2>3. act'[a] = work  BY <2>1 DEF TypeOK
  <2>4. Sound(a)'  BY <2>2, <2>3 DEF Sound
  <2>5. QED BY <2>1, <2>4, InvStep
<1>4. CASE ~me.clear /\ me.del = {}
  <2>1. act' = [act EXCEPT ![a] = Idle] /\ repaired' = (me.enrich /\ alone = a)
    BY <1>4 DEF Proceed
  <2>2. act'[a] = Idle  BY <2>1 DEF TypeOK
  <2>3. act'[a].at = "idle"  BY <2>2 DEF Idle
  <2>4. Sound(a)' /\ ~Busy(a)'  BY <2>3 DEF Sound, Busy
  <2>5. repaired' => alone = a /\ AllRight'  BY <2>1
  <2>6. QED BY <2>1, <2>4, <2>5, InvStep
<1>5. QED BY <1>2, <1>3, <1>4

LEMMA InvLoad ==
  ASSUME TypeOK, IInv, NEW a \in Actors, Load(a)
  PROVE  IInv'
<1> DEFINE work == [act[a] EXCEPT !.at = "save", !.base = devices]
<1>0. act[a] \in Work  BY DEF TypeOK
<1>1. Busy(a)  BY DEF Load, Busy
<1>2. act' = [act EXCEPT ![a] = work]  BY <1>0 DEF Load, TypeOK, Work
<1>3. /\ work.at = "save" /\ work.base = devices
      /\ work.enrich = act[a].enrich /\ work.put = act[a].put
  BY <1>0 DEF Work
<1> HIDE DEF work
<1>4. act'[a] = work  BY <1>2 DEF TypeOK
<1>5. ASSUME alone = a PROVE Sound(a)'
  <2>1. Sound(a)  BY <1>1, <1>5, NotRepaired
  <2>2. act[a].enrich => /\ \A d \in DOMAIN act[a].put : Right(act[a].put[d])
                         /\ \A d \in DOMAIN devices \ DOMAIN act[a].put : Right(devices[d])
    BY <2>1 DEF Sound, Load
  <2>3. UNCHANGED <<devices, ops>>  BY DEF Load
  <2>4. QED BY <2>2, <2>3, <1>3, <1>4 DEF Sound, Right
<1>6. NothingLost' /\ ~repaired' /\ UNCHANGED <<alone, overlap>>
  BY <1>1, NotRepaired DEF Load, NothingLost
<1>7. QED BY <1>1, <1>2, <1>5, <1>6, InvStep

LEMMA InvSave ==
  ASSUME TypeOK, IInv, NEW a \in Actors, Save(a)
  PROVE  IInv'
<1> DEFINE me == act[a]
<1>0. me \in Work  BY DEF TypeOK
<1>1. Busy(a) /\ Proceed(a, me) /\ UNCHANGED <<ops, alone, overlap, ledger>>
  BY DEF Save, Busy
<1>2. devices' = [d \in (DOMAIN me.put \cup DOMAIN me.base) \ me.rem |->
                    IF d \in DOMAIN me.put THEN me.put[d] ELSE me.base[d]]
  BY DEF Save
<1>3. alone = a => me.base = devices
  BY <1>1, NotRepaired DEF Sound, Save
<1>4. NothingLost'
  <2>1. SUFFICES ASSUME ~overlap
                 PROVE  ops' = ledger' /\ DOMAIN devices' = known'
    BY <1>1 DEF NothingLost
  <2>2. alone = a /\ ops = ledger /\ DOMAIN devices = known
    BY <1>1, <2>1, NotRepaired DEF NothingLost
  <2>3. DOMAIN devices' = (DOMAIN me.put \cup DOMAIN me.base) \ me.rem
    BY <1>2
  <2>4. QED BY <1>1, <1>3, <2>2, <2>3 DEF Save
<1>5. ASSUME me.enrich, alone = a PROVE AllRight'
  <2>1. /\ \A d \in DOMAIN me.put : Right(me.put[d])
        /\ \A d \in DOMAIN devices \ DOMAIN me.put : Right(devices[d])
    BY <1>1, <1>5, NotRepaired DEF Sound, Save
  <2>2. SUFFICES ASSUME NEW d \in DOMAIN devices' PROVE devices'[d].ops = OpsOf(ops, devices'[d].urn)
    BY <1>1 DEF AllRight, Right, OpsOf
  <2>3. CASE d \in DOMAIN me.put
    BY <1>2, <2>1, <2>3 DEF Right
  <2>4. CASE d \notin DOMAIN me.put
    BY <1>2, <1>3, <1>5, <2>1, <2>4 DEF Right
  <2>5. QED BY <2>3, <2>4
<1>6. QED BY <1>0, <1>1, <1>4, <1>5, InvProceed

LEMMA InvList ==
  ASSUME TypeOK, IInv, NEW a \in Actors, List(a)
  PROVE  IInv'
<1>1. Busy(a) /\ UNCHANGED <<devices, ops, alone, overlap, known, ledger>>
  BY DEF List, Busy
<1>2. [Idle EXCEPT !.del = ops] \in Work /\ [Idle EXCEPT !.del = ops].enrich = FALSE
  BY IdleWork DEF Work, TypeOK, Idle
<1>3. NothingLost'  BY <1>1, NotRepaired DEF NothingLost
<1>4. QED BY <1>1, <1>2, <1>3, InvProceed DEF List

LEMMA InvOpLoad ==
  ASSUME TypeOK, IInv, NEW a \in Actors, OpLoad(a)
  PROVE  IInv'
<1> DEFINE work == [act[a] EXCEPT !.at = "opsave", !.loaded = ops]
<1>0. act[a] \in Work  BY DEF TypeOK
<1>1. Busy(a)  BY DEF OpLoad, Busy
<1>2. act' = [act EXCEPT ![a] = work]  BY <1>0 DEF OpLoad, TypeOK, Work
<1>3. work.at = "opsave" /\ work.loaded = ops  BY <1>0 DEF Work
<1> HIDE DEF work
<1>4. act'[a] = work  BY <1>2 DEF TypeOK
<1>5. Sound(a)'  BY <1>3, <1>4 DEF Sound, OpLoad
<1>6. NothingLost' /\ ~repaired' /\ UNCHANGED <<alone, overlap>>
  BY <1>1, NotRepaired DEF OpLoad, NothingLost
<1>7. QED BY <1>1, <1>2, <1>5, <1>6, InvStep

LEMMA InvOpSave ==
  ASSUME TypeOK, IInv, NEW a \in Actors, OpSave(a)
  PROVE  IInv'
<1> DEFINE work == [Idle EXCEPT !.at = "map", !.enrich = TRUE]
<1> DEFINE set == act[a].loaded \cup act[a].add
<1>0. act[a] \in Work /\ Proc(a) \in Processes  BY DEF TypeOK, Proc, Processes
<1>1. Busy(a)  BY DEF OpSave, Busy
<1>2. /\ act' = [act EXCEPT ![a] = work] /\ ops' = set
      /\ mem' = [mem EXCEPT ![Proc(a)] = set] /\ ledger' = ledger \cup act[a].add
      /\ UNCHANGED <<devices, alone, overlap, known, repaired>>
  BY DEF OpSave, Write
<1>3. work.at = "map"  BY DEF Idle
<1> HIDE DEF work
<1>4. act'[a] = work /\ mem'[Proc(a)] = set  BY <1>0, <1>2 DEF TypeOK
<1>5. Sound(a)'  BY <1>2, <1>3, <1>4 DEF Sound
<1>6. alone = a => act[a].loaded = ops
  BY <1>1, NotRepaired DEF Sound, OpSave
<1>7. NothingLost' /\ ~repaired'
  BY <1>1, <1>2, <1>6, NotRepaired DEF NothingLost
<1>8. QED BY <1>1, <1>2, <1>5, <1>7, InvStep

LEMMA InvOpDelete ==
  ASSUME TypeOK, IInv, NEW a \in Actors, NEW x \in Operations, OpDelete(a, x)
  PROVE  IInv'
<1> DEFINE set == act[a].loaded \ {x}
<1>0. act[a] \in Work /\ Proc(a) \in Processes  BY DEF TypeOK, Proc, Processes
<1>1. /\ Busy(a) /\ ledger' = ledger \ {x}
      /\ UNCHANGED <<devices, alone, overlap, known>>
  BY DEF OpDelete, Busy
<1>2. alone = a => act[a].loaded = ops
  BY <1>1, NotRepaired DEF Sound, OpDelete
<1>3. CASE x \in act[a].loaded
  <2> DEFINE work == [Idle EXCEPT !.at = "map", !.enrich = TRUE, !.del = act[a].del \ {x}]
  <2>1. /\ act' = [act EXCEPT ![a] = work] /\ ops' = set
        /\ mem' = [mem EXCEPT ![Proc(a)] = set] /\ repaired' = repaired
    BY <1>3 DEF OpDelete, Write
  <2>2. work.at = "map"  BY DEF Idle
  <2> HIDE DEF work
  <2>3. act'[a] = work /\ mem'[Proc(a)] = set  BY <1>0, <2>1 DEF TypeOK
  <2>4. Sound(a)'  BY <2>1, <2>2, <2>3 DEF Sound
  <2>5. NothingLost' /\ ~repaired'
    BY <1>1, <1>2, <2>1, NotRepaired DEF NothingLost
  <2>6. QED BY <1>1, <2>1, <2>4, <2>5, InvStep
<1>4. CASE x \notin act[a].loaded
  <2> DEFINE me == [Idle EXCEPT !.del = act[a].del \ {x}]
  <2>1. Proceed(a, me) /\ ops' = ops  BY <1>4 DEF OpDelete
  <2>2. me \in Work /\ me.enrich = FALSE
    BY <1>0, IdleWork DEF Work, Idle
  <2>3. NothingLost'
    BY <1>1, <1>2, <1>4, <2>1, NotRepaired DEF NothingLost
  <2> HIDE DEF me
  <2>4. QED BY <1>1, <2>1, <2>2, <2>3, InvProceed
<1>5. QED BY <1>3, <1>4

LEMMA InvReadMap ==
  ASSUME TypeOK, IInv, NEW a \in Actors, ReadMap(a)
  PROVE  IInv'
<1>0. act[a] \in Work  BY DEF TypeOK
<1>1. Busy(a)  BY DEF ReadMap, Busy
<1>2. PICK set \in {mem[Proc(a)]} \cup {act[b].loaded : b \in Holders(a, "opsave")} :
        act' = [act EXCEPT ![a].at = "devices", ![a].map = set]
  BY DEF ReadMap
<1> DEFINE work == [act[a] EXCEPT !.at = "devices", !.map = set]
<1>3. act' = [act EXCEPT ![a] = work]  BY <1>0, <1>2 DEF TypeOK, Work
<1>4. work.at = "devices" /\ work.map = set  BY <1>0 DEF Work
<1> HIDE DEF work
<1>5. act'[a] = work  BY <1>3 DEF TypeOK
<1>6. ASSUME alone = a PROVE set = ops
  <2>1. Holders(a, "opsave") = {}
    BY <1>6 DEF Holders, ReadMap, IInv, AloneFirst, Busy
  <2>2. mem[Proc(a)] = ops
    BY <1>1, <1>6, NotRepaired DEF Sound, ReadMap
  <2>3. QED BY <1>2, <2>1, <2>2
<1>7. alone = a => Sound(a)'  BY <1>4, <1>5, <1>6 DEF Sound, ReadMap
<1>8. NothingLost' /\ ~repaired' /\ UNCHANGED <<alone, overlap>>
  BY <1>1, NotRepaired DEF ReadMap, NothingLost
<1>9. QED BY <1>1, <1>3, <1>7, <1>8, InvStep

\* What an enrichment makes of an outdated device is right.
LEMMA EnrichedIsRight ==
  ASSUME TypeOK, NEW d \in DOMAIN devices, NEW map \in SUBSET Operations, map = ops
  PROVE  Right([devices[d] EXCEPT !.ops = OpsOf(map, devices[d].urn)])
BY DeviceOf DEF Right, Device

LEMMA InvEnrich ==
  ASSUME TypeOK, IInv, NEW a \in Actors, Enrich(a)
  PROVE  IInv'
<1> DEFINE me == act[a]
<1> DEFINE stale == Outdated(me.map)
<1> DEFINE put == [d \in stale |-> [devices[d] EXCEPT !.ops = OpsOf(me.map, devices[d].urn)]]
<1>0. me \in Work  BY DEF TypeOK
<1>1. Busy(a) /\ UNCHANGED <<devices, ops, mem, alone, overlap, known, ledger>>
  BY DEF Enrich, Busy
<1>2. NothingLost'  BY <1>1, NotRepaired DEF NothingLost
<1>3. alone = a => me.map = ops /\ me.map \in SUBSET Operations
  BY <1>0, <1>1, NotRepaired DEF Sound, Enrich, Work
<1>4. alone = a => \A d \in DOMAIN devices \ stale : Right(devices[d])
  BY <1>3 DEF Outdated, Right
<1>5. CASE stale = {}
  <2>1. Proceed(a, me)  BY <1>5 DEF Enrich
  <2>2. alone = a => AllRight'
    BY <1>1, <1>4, <1>5 DEF AllRight, Right
  <2>3. QED BY <1>0, <1>1, <1>2, <2>1, <2>2, InvProceed
<1>6. CASE stale # {}
  <2> DEFINE work == [me EXCEPT !.at = "load", !.put = put]
  <2>1. act' = [act EXCEPT ![a] = work] /\ repaired' = repaired
    BY <1>6 DEF Enrich
  <2>2. work.at = "load" /\ work.put = put  BY <1>0 DEF Work
  <2> HIDE DEF work
  <2>3. act'[a] = work  BY <2>1 DEF TypeOK
  <2>4. ASSUME alone = a PROVE Sound(a)'
    <3>1. stale \subseteq DOMAIN devices /\ DOMAIN put = stale  BY DEF Outdated
    <3>2. \A d \in stale : Right(put[d])
      BY <1>3, <2>4, <3>1, EnrichedIsRight
    <3> HIDE DEF put, stale
    <3>3. QED BY <1>1, <1>4, <2>2, <2>3, <2>4, <3>1, <3>2 DEF Sound, Right
  <2>5. ~repaired'  BY <1>1, <2>1, NotRepaired
  <2>6. QED BY <1>1, <1>2, <2>1, <2>4, <2>5, InvStep
<1>7. QED BY <1>5, <1>6

\* The process of those cut off forgets what they were doing, and reads the file.
LEMMA InvCrash ==
  ASSUME TypeOK, IInv, NEW p \in Processes, Crash(p)
  PROVE  IInv'
<1>1. UNCHANGED <<devices, ops, begun, alone, overlap, known, ledger, repaired>>
  BY DEF Crash
<1>2. \A b \in Actors : act'[b] = Idle \/ (act'[b] = act[b] /\ Proc(b) # p)
  BY DEF Crash
<1>3. \A b \in Actors : Busy(b)' => Busy(b)
  BY <1>2 DEF Busy, Idle
<1>4. AloneFirst' /\ RepairedQuiet'
  BY <1>1, <1>3 DEF IInv, AloneFirst, RepairedQuiet, AllRight, Right
<1>5. ASSUME NEW b \in Actors, alone' = b PROVE Sound(b)'
  <2>1. CASE act'[b] = Idle
    BY <2>1 DEF Sound, Idle
  <2>2. CASE act'[b] = act[b] /\ Proc(b) # p
    <3>1. Sound(b)  BY <1>1, <1>5 DEF IInv
    <3>2. mem'[Proc(b)] = mem[Proc(b)]  BY <2>2 DEF Crash, TypeOK, Proc, Processes
    <3>3. QED BY <1>1, <2>2, <3>1, <3>2 DEF Sound, Right
  <2>3. QED BY <1>2, <2>1, <2>2
<1>6. NothingLost'  BY <1>1 DEF IInv, NothingLost
<1>7. QED BY <1>4, <1>5, <1>6 DEF IInv

LEMMA InvNext == TypeOK /\ IInv /\ [Next]_vars => IInv'
<1>1. ASSUME TypeOK, IInv, UNCHANGED vars PROVE IInv'
  <2>1. UNCHANGED <<devices, ops, mem, act, alone, overlap, known, ledger, repaired>>
    BY <1>1 DEF vars
  <2>2. QED
    BY <1>1, <2>1 DEF IInv, AloneFirst, Sound, RepairedQuiet, AllRight, NothingLost,
       Busy, Right
<1>2. ASSUME TypeOK, IInv, NEW a \in Actors, Step(a) PROVE IInv'
  BY <1>2, InvLoad, InvSave, InvList, InvOpLoad, InvOpSave, InvOpDelete, InvReadMap,
     InvEnrich DEF Step
<1>3. ASSUME TypeOK, IInv, Next PROVE IInv'
  BY <1>2, <1>3, InvRequest, InvCrash DEF Next
<1>4. QED BY <1>1, <1>3

\* The invariant the two properties rest on.
LEMMA InvCorrect == Spec => []IInv
<1>1. QED BY InvInit, InvNext, TypeCorrect, PTL DEF Spec

\* As long as no two requests, of either process, have been under way at once, the
\* two files hold what was saved and not deleted, wherever requests were cut off.
THEOREM NothingIsLost == Spec => []NothingLost
<1>1. IInv => NothingLost  BY DEF IInv
<1>2. QED BY <1>1, InvCorrect, PTL

\* A change of the operations that ran alone brings every device back to the
\* operations of its type, whatever overlapping requests left behind before.
THEOREM AloneRepairs == Spec => []RepairedAlone
<1>1. IInv => RepairedAlone  BY DEF IInv, RepairedQuiet, AllRight, Right, RepairedAlone
<1>2. QED BY <1>1, InvCorrect, PTL
=============================================================================
