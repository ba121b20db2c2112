----------------------------- MODULE DvbDevices -----------------------------
(***************************************************************************)
(* Adapters, their device nodes (dvb-core/dvbdev.c) and the drivers that   *)
(* sit on their I2C buses (dvb-core/dvb_i2c.c).  Drivers and buses come    *)
(* and go in any order; whenever a driver meets a bus for the first time   *)
(* it is attached, and the drivers of frontends then register a frontend,  *)
(* that is a device node, with the adapter of the bus.                     *)
(*                                                                         *)
(* dvb_i2c_mutex is held through a registration, so each of them is one    *)
(* step; the other devices of an adapter are registered by modules of      *)
(* their own, which look for a free id in one step and use it in another.  *)
(***************************************************************************)
EXTENDS Naturals, Sequences, SequencesExt, FiniteSets

CONSTANTS
  Adapters,  \* one bus each
  Drivers,   \* drivers of frontends
  Others,    \* modules that register one "demux" device with the adapter of their own
  AdapterOf, \* [Others -> Adapters]
  MaxIds,    \* DVB_MAX_IDS: 4
  Readers,   \* how many files a node may have open to read at a time
  MaxFiles,  \* bound: open files
  MaxStates  \* bound: states that drivers allocate

DevicesAssumption ==
  /\ AdapterOf \in [Others -> Adapters]
  /\ MaxIds \in Nat \ {0} /\ Readers \in Nat \ {0} /\ MaxFiles \in Nat /\ MaxStates \in Nat

VARIABLES
  drivers, \* dvb_i2c_devicelist: records [driver, data]
  buses,   \* dvb_i2c_buslist: adapters
  clients, \* client_list of a bus: records [driver, data]
  refs,    \* references to the modules of the drivers
  nodes,   \* device_list of an adapter
  chosen,  \* the id a module is about to use
  files,   \* open files: [node, write]
  serial,  \* states that drivers have allocated
  shared,  \* history: drivers that were on two buses at once
  astray   \* history: drivers whose detach was given the state of another bus

vars == <<drivers, buses, clients, refs, nodes, chosen, files, serial, shared, astray>>
NoId == MaxIds

Init ==
  /\ drivers = <<>> /\ buses = <<>>
  /\ clients = [a \in Adapters |-> <<>>]
  /\ refs = [d \in Drivers |-> 0]
  /\ nodes = [a \in Adapters |-> <<>>]
  /\ chosen = [o \in Others |-> NoId]
  /\ files = {} /\ serial = 0 /\ shared = {} /\ astray = {}

-----------------------------------------------------------------------------
(* dvbdev.c                                                                  *)

(* DVB_MAX_IDS when all are taken.                                           *)
dvbdev_get_free_id(list, type) ==
  CHOOSE id \in 0 .. MaxIds :
    /\ \A n \in DOMAIN list : ~(list[n].type = type /\ list[n].id = id)
    /\ \A i \in 0 .. id - 1 : \E n \in DOMAIN list : list[n].type = type /\ list[n].id = i

node(type, id, owner, state) ==
  [type |-> type, id |-> id, owner |-> owner, state |-> state,
   readers |-> Readers, writers |-> 1]

(* dvb_register_device in its two halves, and dvb_unregister_device.         *)
ChooseId(o) ==
  /\ chosen[o] = NoId
  /\ \A n \in DOMAIN nodes[AdapterOf[o]] : nodes[AdapterOf[o]][n].owner # o
  /\ chosen' = [chosen EXCEPT ![o] = dvbdev_get_free_id(nodes[AdapterOf[o]], "demux")]
  /\ UNCHANGED <<drivers, buses, clients, refs, nodes, files, serial, shared, astray>>

LinkDevice(o) ==
  /\ chosen[o] # NoId
  /\ nodes' = [nodes EXCEPT ![AdapterOf[o]] = Append(@, node("demux", chosen[o], o, 0))]
  /\ chosen' = [chosen EXCEPT ![o] = NoId]
  /\ UNCHANGED <<drivers, buses, clients, refs, files, serial, shared, astray>>

without_owner(list, o) == SelectSeq(list, LAMBDA n : n.owner # o)

UnregisterDevice(o) ==
  /\ \E n \in DOMAIN nodes[AdapterOf[o]] : nodes[AdapterOf[o]][n].owner = o
  /\ ~\E f \in files : f.owner = o
  /\ nodes' = [nodes EXCEPT ![AdapterOf[o]] = without_owner(@, o)]
  /\ UNCHANGED <<drivers, buses, clients, refs, chosen, files, serial, shared, astray>>

(* dvb_device_open finds the node by its minor, dvb_generic_open counts.     *)
found(a, type, id) ==
  SelectInSeq(nodes[a], LAMBDA m : m.type = type /\ m.id = id)

Open(a, type, id, write) ==
  /\ Cardinality(files) < MaxFiles
  /\ \E n \in {found(a, type, id)} :
       /\ n # 0
       /\ IF write THEN nodes[a][n].writers > 0 ELSE nodes[a][n].readers > 0
       /\ nodes' = IF write THEN [nodes EXCEPT ![a][n].writers = @ - 1]
                   ELSE [nodes EXCEPT ![a][n].readers = @ - 1]
       /\ \E k \in 1 .. MaxFiles :
            /\ \A f \in files : f.key # k
            /\ \A j \in 1 .. k - 1 : \E f \in files : f.key = j
            /\ files' = files \cup {[key |-> k, adapter |-> a, owner |-> nodes[a][n].owner,
                                     state |-> nodes[a][n].state, write |-> write]}
  /\ UNCHANGED <<drivers, buses, clients, refs, chosen, serial, shared, astray>>

Close(f) ==
  /\ files' = files \ {f}
  /\ \E n \in {SelectInSeq(nodes[f.adapter], LAMBDA m : m.owner = f.owner /\ m.state = f.state)} :
       nodes' = IF n = 0 THEN nodes \* the node was freed under the file
                ELSE IF f.write THEN [nodes EXCEPT ![f.adapter][n].writers = @ + 1]
                     ELSE [nodes EXCEPT ![f.adapter][n].readers = @ + 1]
  /\ UNCHANGED <<drivers, buses, clients, refs, chosen, serial, shared, astray>>

-----------------------------------------------------------------------------
(* dvb_i2c.c.  A world is what one registration hands from bus to bus.       *)

World == [clients |-> clients, nodes |-> nodes, refs |-> refs, serial |-> serial,
          shared |-> shared, astray |-> astray]

on_bus(w, d, a) == \E n \in DOMAIN w.clients[a] : w.clients[a][n].driver = d

(* try_attach_device: the driver finds its chip, allocates its state and     *)
(* registers a frontend; dev->data is the state it allocated last.           *)
attached(w, d, a) ==
  [w EXCEPT !.serial = @ + 1, !.refs[d] = @ + 1,
            !.clients[a] = Append(@, [driver |-> d, data |-> w.serial + 1]),
            !.nodes[a] = Append(@, node("frontend", dvbdev_get_free_id(@, "frontend"), d,
                                       w.serial + 1)),
            !.shared = IF \E b \in Adapters \ {a} : on_bus(w, d, b) THEN @ \cup {d} ELSE @]

(* A mutant: the module keeps the reference. *)
detached_kept(w, d, a, data) ==
  [w EXCEPT !.clients[a] = SelectSeq(@, LAMBDA c : c.driver # d),
            !.nodes[a] = without_owner(@, d)]
(* unregister_i2c_client_from_bus and detach_device.                         *)
detached(w, d, a, data) ==
  [w EXCEPT !.clients[a] = SelectSeq(@, LAMBDA c : c.driver # d),
            !.nodes[a] = without_owner(@, d),
            !.refs[d] = @ - 1,
            !.astray = IF \E n \in DOMAIN w.clients[a] :
                            w.clients[a][n].driver = d /\ w.clients[a][n].data # data
                       THEN @ \cup {d} ELSE @]

Install(w) ==
  /\ clients' = w.clients /\ nodes' = w.nodes /\ refs' = w.refs /\ serial' = w.serial
  /\ shared' = w.shared /\ astray' = w.astray

room(w, d, a) == dvbdev_get_free_id(w.nodes[a], "frontend") # NoId

(* Whether a driver finds its chip on a bus is up to the hardware.           *)
dvb_register_i2c_device(d) ==
  /\ \A n \in DOMAIN drivers : drivers[n].driver # d
  /\ serial + Len(buses) <= MaxStates
  /\ \E there \in SUBSET ToSet(buses) :
       LET probed == FoldLeft(LAMBDA w, a : IF a \in there /\ room(w, d, a)
                                            THEN attached(w, d, a) ELSE w, World, buses)
       IN /\ Install(probed)
          /\ drivers' = Append(drivers, [driver |-> d, data |-> probed.serial])
  /\ UNCHANGED <<buses, chosen, files>>

dvb_register_i2c_bus(a) ==
  /\ a \notin ToSet(buses)
  /\ serial + Len(drivers) <= MaxStates
  /\ \E there \in SUBSET {drivers[n].driver : n \in DOMAIN drivers} :
       LET finds(w, e) == e.driver \in there /\ room(w, e.driver, a)
           probed == FoldLeft(LAMBDA w, e : IF finds(w, e) THEN attached(w, e.driver, a)
                                            ELSE w, World, drivers)
       IN /\ Install(probed)
          /\ drivers' = [k \in DOMAIN drivers |->
               LET mine == SelectInSeq(probed.clients[a],
                                       LAMBDA c : c.driver = drivers[k].driver)
               IN IF mine = 0 THEN drivers[k]
                  ELSE [drivers[k] EXCEPT !.data = probed.clients[a][mine].data]]
  /\ buses' = Append(buses, a)
  /\ UNCHANGED <<chosen, files>>

(* The clients of the bus are detached with the state each was given.        *)
dvb_unregister_i2c_bus(a) ==
  /\ a \in ToSet(buses)
  /\ Install(FoldLeft(LAMBDA w, c : detached(w, c.driver, a, c.data), World, clients[a]))
  /\ buses' = SelectSeq(buses, LAMBDA b : b # a)
  /\ UNCHANGED <<drivers, chosen, files>>

(* The clients of the driver are detached with the state it allocated last.  *)
dvb_unregister_i2c_device(d) ==
  \E n \in DOMAIN drivers :
    /\ drivers[n].driver = d
    /\ Install(FoldLeft(LAMBDA w, a : IF on_bus(w, d, a)
                                      THEN detached(w, d, a, drivers[n].data) ELSE w,
                        World, buses))
    /\ drivers' = SelectSeq(drivers, LAMBDA e : e.driver # d)
    /\ UNCHANGED <<buses, chosen, files>>

Next ==
  \/ \E o \in Others : ChooseId(o) \/ LinkDevice(o) \/ UnregisterDevice(o)
  \/ \E a \in Adapters, t \in {"demux", "frontend"}, id \in 0 .. MaxIds - 1, w \in BOOLEAN :
       Open(a, t, id, w)
  \/ \E f \in files : Close(f)
  \/ \E d \in Drivers : dvb_register_i2c_device(d) \/ dvb_unregister_i2c_device(d)
  \/ \E a \in Adapters : dvb_register_i2c_bus(a) \/ dvb_unregister_i2c_bus(a)

Spec == Init /\ [][Next]_vars

-----------------------------------------------------------------------------
TypeOK ==
  /\ ToSet(buses) \subseteq Adapters
  /\ \A a \in Adapters : \A n \in DOMAIN nodes[a] :
       /\ nodes[a][n].readers \in 0 .. Readers /\ nodes[a][n].writers \in 0 .. 1
  /\ \A d \in Drivers : refs[d] \in 0 .. Cardinality(Adapters)

(* A minor names one node: no two nodes of an adapter have the same type and *)
(* id, whichever order drivers, buses and modules come and go in.  The demux *)
(* devices of one adapter would have to be registered by one module.         *)
MinorsUnique ==
  \A a \in Adapters : \A m, n \in DOMAIN nodes[a] :
    m # n => <<nodes[a][m].type, nodes[a][m].id>> # <<nodes[a][n].type, nodes[a][n].id>>

(* The module of a driver is referenced once for each bus it is on, so it    *)
(* stays while it is needed and can be removed afterwards; and a driver is   *)
(* on a bus only while both are registered.                                  *)
ModulesHeld ==
  \A d \in Drivers :
    /\ refs[d] = Cardinality({a \in Adapters : on_bus(World, d, a)})
    /\ \A a \in Adapters : on_bus(World, d, a) =>
         /\ a \in ToSet(buses)
         /\ \E n \in DOMAIN drivers : drivers[n].driver = d

(* A driver is detached from a bus with the state it made for that bus, if   *)
(* it was never on two buses at a time.  With two, the state it made last is *)
(* given to every detach when the driver goes (dvb_i2c.c:101).               *)
DetachedWithOwnState == astray \subseteq shared
=============================================================================
