------------------------------ MODULE DeviceStore -----------------------------
(***************************************************************************)
(* HomeClaw's devices and their operations.  Two files are shared by the   *)
(* gateway, whose turns and requests run concurrently, and the web server, *)
(* a process of its own.  The operations belong to a type of device (its   *)
(* URN); every device keeps a copy of the names of its type's operations,  *)
(* brought up to date (enrichDevicesWithOps) after the operations change,  *)
(* outside the lock.                                                       *)
(*                                                                         *)
(* Both stores reload their file under a mutex before they change it, but  *)
(* the mutex is of one process, the callers save whole records they read   *)
(* before, and the enrichment reads the memory of the operation store      *)
(* without its mutex.  Only one brand of devices is modelled, all of them  *)
(* have a URN, and writing a file is atomic and succeeds.                  *)
(***************************************************************************)
EXTENDS FiniteSets, Integers

CONSTANTS
  Devices,
  Urns,       \* the types of the devices
  OpNames,    \* names of operations
  NoAction,   \* the mark of a device that supports no operation
  Actors,     \* turns and requests that use the stores
  Web,        \* those of the web server; the others are of the gateway
  MaxBegun    \* bound on the requests begun

Processes == {"gateway", "web"}
Proc(a) == IF a \in Web THEN "web" ELSE "gateway"
Operations == Urns \X OpNames
Nobody == "nobody"

ASSUME DeviceAssumption ==
  /\ NoAction \notin OpNames /\ Web \subseteq Actors /\ MaxBegun \in Nat
  /\ Nobody \notin Actors

VARIABLES
  devices, \* the device file: a record for each device it holds
  ops,     \* the operation file
  mem,     \* deviceOpStore.data of each process
  act,     \* what each actor is doing
  begun,   \* requests begun so far
  alone,   \* the actor that has been alone since it began
  overlap, \* two requests have been under way at once
  known,   \* devices added and not deleted
  ledger,  \* operations saved and not deleted
  repaired \* nothing has begun since an enrichment that ran alone

vars == <<devices, ops, mem, act, begun, alone, overlap, known, ledger, repaired>>

\* at: where the actor is; put, rem: devices to save and delete; add, del:
\* operations to save and, one after the other, to delete; base, loaded: what was
\* reloaded under the mutex; map: the operations the enrichment has read.
Idle == [at |-> "idle", put |-> <<>>, rem |-> {}, add |-> {}, del |-> {},
         base |-> <<>>, loaded |-> {}, map |-> {}, clear |-> FALSE, enrich |-> FALSE]

Init ==
  /\ devices = <<>>
  /\ ops = {}
  /\ mem = [p \in Processes |-> {}]
  /\ act = [a \in Actors |-> Idle]
  /\ begun = 0
  /\ alone = Nobody
  /\ overlap = FALSE
  /\ known = {}
  /\ ledger = {}
  /\ repaired = FALSE

\* Who holds a mutex of the process of a: "save" the device store's, "opsave" the
\* operation store's.
Holders(a, place) == {b \in Actors : Proc(b) = Proc(a) /\ act[b].at = place}

OpsOf(set, u) == {o \in OpNames : <<u, o>> \in set}

----------------------------------------------------------------------------
\* Requests

Begin(a) ==
  LET others == \E b \in Actors \ {a} : act[b].at # "idle"
  IN  /\ act[a].at = "idle" /\ begun < MaxBegun
      /\ begun' = begun + 1
      /\ alone' = IF others THEN Nobody ELSE a
      /\ overlap' = (overlap \/ others)
      /\ repaired' = FALSE
      /\ UNCHANGED <<devices, ops, mem, known, ledger>>

\* GetAll waits for the mutex, and the caller saves what it makes of the result.
GetAllAndSave(a, put, clear) ==
  /\ Begin(a)
  /\ Holders(a, "save") = {}
  /\ act' = [act EXCEPT ![a] = [Idle EXCEPT !.clear = clear, !.put = put,
               !.at = IF DOMAIN put = {} /\ clear THEN "list" ELSE "load"]]

\* Save of the operation store, for one type.
SaveOps(a, u, names) ==
  /\ Begin(a) /\ a \notin Web
  /\ act' = [act EXCEPT ![a] = [Idle EXCEPT !.at = "opload", !.add = {u} \X names]]

\* The synchronisation with the cloud: new devices, and new types of known ones.
Sync(a, found) ==
  LET new == {d \in DOMAIN found : d \notin DOMAIN devices \/ devices[d].urn # found[d]}
  IN  /\ a \notin Web /\ new # {}
      /\ GetAllAndSave(a, [d \in new |->
           IF d \in DOMAIN devices THEN [devices[d] EXCEPT !.urn = found[d]]
                                   ELSE [urn |-> found[d], ops |-> {}]], FALSE)

\* markNoAction, and with the operations it has, renaming and moving a device.
Change(a, d, names) ==
  /\ a \notin Web /\ d \in DOMAIN devices
  /\ GetAllAndSave(a, [e \in {d} |-> [devices[e] EXCEPT !.ops = names]], FALSE)

\* clearOps, of the tool and of the web server.
Clear(a) == GetAllAndSave(a, [d \in DOMAIN devices |-> [devices[d] EXCEPT !.ops = {}]], TRUE)

\* Delete of the device store.
Remove(a, d) ==
  /\ Begin(a)
  /\ act' = [act EXCEPT ![a] = [Idle EXCEPT !.at = "load", !.rem = {d}]]

----------------------------------------------------------------------------
\* Steps of a request

\* The request goes on with the next operation to delete, or is over; then its last
\* enrichment was alone if it was.
Proceed(a, me) ==
  IF me.clear
  THEN /\ act' = [act EXCEPT ![a] = [me EXCEPT !.at = "list", !.put = <<>>, !.base = <<>>]]
       /\ UNCHANGED repaired
  ELSE IF me.del # {}
  THEN /\ act' = [act EXCEPT ![a] = [Idle EXCEPT !.at = "opload", !.del = me.del]]
       /\ UNCHANGED repaired
  ELSE /\ act' = [act EXCEPT ![a] = Idle]
       /\ repaired' = (me.enrich /\ alone = a)

\* Save and Delete of the device store: reload under the mutex, ...
Load(a) ==
  /\ act[a].at = "load" /\ Holders(a, "save") = {}
  /\ act' = [act EXCEPT ![a].at = "save", ![a].base = devices]
  /\ UNCHANGED <<devices, ops, mem, begun, alone, overlap, known, ledger, repaired>>

\* ... change and write.
Save(a) ==
  LET me == act[a]
  IN  /\ me.at = "save"
      /\ devices' = [d \in (DOMAIN me.put \cup DOMAIN me.base) \ me.rem |->
                       IF d \in DOMAIN me.put THEN me.put[d] ELSE me.base[d]]
      /\ known' = (known \cup DOMAIN me.put) \ me.rem
      /\ Proceed(a, me)
      /\ UNCHANGED <<ops, mem, begun, alone, overlap, ledger>>

\* GetAll of the operation store, for those to clear.
List(a) ==
  /\ act[a].at = "list" /\ Holders(a, "opsave") = {}
  /\ mem' = [mem EXCEPT ![Proc(a)] = ops]
  /\ Proceed(a, [Idle EXCEPT !.del = ops])
  /\ UNCHANGED <<devices, ops, begun, alone, overlap, known, ledger>>

\* (mutant of OpLoad) The store trusts its memory.
OpLoadFromMemory(a) ==
  /\ act[a].at = "opload" /\ Holders(a, "opsave") = {}
  /\ act' = [act EXCEPT ![a].at = "opsave", ![a].loaded = mem[Proc(a)]]
  /\ UNCHANGED <<devices, ops, mem, begun, alone, overlap, known, ledger, repaired>>

\* Save and Delete of the operation store: reload under the mutex, ...
OpLoad(a) ==
  /\ act[a].at = "opload" /\ Holders(a, "opsave") = {}
  /\ act' = [act EXCEPT ![a].at = "opsave", ![a].loaded = ops]
  /\ mem' = [mem EXCEPT ![Proc(a)] = {}]
  /\ UNCHANGED <<devices, ops, begun, alone, overlap, known, ledger, repaired>>

\* ... change, write and release; the enrichment comes after.
Write(a, set) ==
  /\ ops' = set
  /\ mem' = [mem EXCEPT ![Proc(a)] = set]

OpSave(a) ==
  LET me == act[a]
  IN  /\ me.at = "opsave" /\ me.add # {}
      /\ Write(a, me.loaded \cup me.add)
      /\ ledger' = ledger \cup me.add
      /\ act' = [act EXCEPT ![a] = [Idle EXCEPT !.at = "map", !.enrich = TRUE]]
      /\ UNCHANGED <<devices, begun, alone, overlap, known, repaired>>

\* An operation that is gone is an error, and the next one is tried.
OpDelete(a, x) ==
  LET me == act[a]
  IN  /\ me.at = "opsave" /\ x \in me.del
      /\ ledger' = ledger \ {x}
      /\ IF x \in me.loaded
         THEN /\ Write(a, me.loaded \ {x})
              /\ act' = [act EXCEPT ![a] = [Idle EXCEPT !.at = "map", !.enrich = TRUE,
                                                        !.del = me.del \ {x}]]
              /\ UNCHANGED repaired
         ELSE /\ mem' = [mem EXCEPT ![Proc(a)] = me.loaded]
              /\ Proceed(a, [Idle EXCEPT !.del = me.del \ {x}])
              /\ UNCHANGED ops
      /\ UNCHANGED <<devices, begun, alone, overlap, known>>

\* The enrichment reads the memory without the mutex: while another reloads, it may
\* find nothing or everything.
ReadMap(a) ==
  /\ act[a].at = "map"
  /\ \E set \in {mem[Proc(a)]} \cup {act[b].loaded : b \in Holders(a, "opsave")} :
       act' = [act EXCEPT ![a].at = "devices", ![a].map = set]
  /\ UNCHANGED <<devices, ops, mem, begun, alone, overlap, known, ledger, repaired>>

\* (mutant of Outdated) Devices without operations are left alone.
OutdatedNotEmpty(map) ==
  {d \in DOMAIN devices : devices[d].ops # {} /\ devices[d].ops # OpsOf(map, devices[d].urn)}

\* The devices whose names of operations are not those of their type.
Outdated(map) == {d \in DOMAIN devices : devices[d].ops # OpsOf(map, devices[d].urn)}

\* It reads the devices, and saves the whole records of those that are outdated.
Enrich(a) ==
  LET me == act[a]
      stale == Outdated(me.map)
  IN  /\ me.at = "devices" /\ Holders(a, "save") = {}
      /\ IF stale = {}
         THEN Proceed(a, me)
         ELSE /\ act' = [act EXCEPT ![a] = [me EXCEPT !.at = "load", !.put =
                  [d \in stale |-> [devices[d] EXCEPT !.ops = OpsOf(me.map, devices[d].urn)]]]]
              /\ UNCHANGED repaired
      /\ UNCHANGED <<devices, ops, mem, begun, alone, overlap, known, ledger>>

\* A process ends in the middle of its requests and is started again.
Crash(p) ==
  /\ \E a \in Actors : Proc(a) = p /\ act[a].at # "idle"
  /\ act' = [a \in Actors |-> IF Proc(a) = p THEN Idle ELSE act[a]]
  /\ mem' = [mem EXCEPT ![p] = ops]
  /\ UNCHANGED <<devices, ops, begun, alone, overlap, known, ledger, repaired>>

----------------------------------------------------------------------------
Request(a) ==
  \/ \E u \in Urns, names \in SUBSET OpNames \ {{}} : SaveOps(a, u, names)
  \/ \E found \in UNION {[D -> Urns] : D \in SUBSET Devices} : Sync(a, found)
  \/ \E d \in DOMAIN devices : Change(a, d, devices[d].ops) \/ Change(a, d, {NoAction})
  \/ Clear(a)
  \/ \E d \in DOMAIN devices : Remove(a, d)

Step(a) ==
  \/ Load(a) \/ Save(a) \/ List(a) \/ OpLoad(a) \/ OpSave(a)
  \/ \E x \in Operations : OpDelete(a, x)
  \/ ReadMap(a) \/ Enrich(a)

Next ==
  \/ \E a \in Actors : Request(a) \/ Step(a)
  \/ \E p \in Processes : Crash(p)

Spec == Init /\ [][Next]_vars

----------------------------------------------------------------------------
\* Properties

\* Requests that do not overlap lose nothing, of whichever process they are and
\* wherever one was cut off: the files hold what was saved and not deleted.
NothingLost == ~overlap => (ops = ledger /\ DOMAIN devices = known)

\* Whatever overlapping requests, changes of types, marks and crashes have left
\* behind, a change of the operations that runs alone brings every device back to
\* the operations of its type.
RepairedAlone ==
  repaired => \A d \in DOMAIN devices : devices[d].ops = OpsOf(ops, devices[d].urn)

\* Not so: a device found to support no operation keeps its mark until it is
\* cleared or its type gets an operation (llm_tool.go:654).  An enrichment takes it
\* away, whatever operation was saved, and the device is analysed again.
MarkKept ==
  [][\A d \in DOMAIN devices \cap DOMAIN devices' :
       (~overlap /\ devices[d].ops = {NoAction} /\ devices'[d].ops = {})
         => (\E a \in Actors : act[a].clear)]_vars
=============================================================================
