------------------------------- MODULE DvbNet -------------------------------
(***************************************************************************)
(* The network interfaces of an adapter (dvb-core/dvb_net.c): IP packets   *)
(* in sections of one pid.  An interface that is open holds a section feed *)
(* whose filters let through what is sent to its own address and to the    *)
(* groups it listens to.  When those change the kernel tells the driver,   *)
(* which leaves the work to a work queue: the feed is stopped and started  *)
(* anew later, when the interface may be closed already.                   *)
(*                                                                         *)
(* Starting and stopping a feed are one step each here; their single calls *)
(* of the demux are those of the network client of DvbDemux.               *)
(***************************************************************************)
EXTENDS Naturals, Sequences, SequencesExt, FiniteSets, SequenceTheorems,
        NaturalsInduction, WellFoundedInduction, TLAPS

CONSTANTS
  Slots,    \* the interfaces of dvbnet->state: 10
  Macs,     \* own addresses
  Groups,   \* multicast addresses
  MaxMulti, \* DVB_NET_MULTICAST_MAX
  MaxFeeds  \* section feeds the demux has to give

ASSUME NetAssumption ==
  /\ MaxMulti \in Nat \ {0} /\ MaxFeeds \in Nat
  /\ Macs # {} /\ Macs \cap Groups = {}

VARIABLES
  dev,     \* what the kernel keeps of an interface: struct net_device
  priv,    \* what the driver keeps of it: struct dvb_net_priv
  work,    \* the work queue
  starved, \* history: the demux refused some of what was asked of it last
  stray,   \* history: set_multicast_list ran for an interface that was closed
  bug,     \* history: a feed was started over another one
  leaked   \* history: filters that were not given back

vars == <<dev, priv, work, starved, stray, bug, leaked>>

Modes == {"UNI", "MULTI", "ALL_MULTI", "PROMISC"}
Absent == [state |-> "absent", mac |-> CHOOSE m \in Macs : TRUE, promisc |-> FALSE,
           allmulti |-> FALSE, mc_list |-> <<>>]
NoFeed == [held |-> FALSE, running |-> FALSE, own |-> {}, multi |-> <<>>]
Fresh == [rx_mode |-> "UNI", multi_macs |-> <<>>, feed |-> NoFeed]

Init ==
  /\ dev = [i \in Slots |-> Absent]
  /\ priv = [i \in Slots |-> Fresh]
  /\ work = <<>>
  /\ starved = {} /\ stray = {} /\ bug = FALSE /\ leaked = FALSE

up(i) == dev[i].state = "up"
held == {i \in Slots : priv[i].feed.held}

-----------------------------------------------------------------------------
(* dvb_net_feed_start and dvb_net_feed_stop on the state p of interface i.   *)

AllGroups == "01:00:5e"
Anything == "*"
NoFilter == "none"

(* The filters of the mode: the own address but for PROMISC, and the groups. *)
filters(p, mac) ==
  [held |-> TRUE, running |-> TRUE,
   own |-> IF p.rx_mode = "PROMISC" THEN {Anything} ELSE {mac},
   multi |-> CASE p.rx_mode = "MULTI" -> p.multi_macs
               [] p.rx_mode = "ALL_MULTI" -> <<AllGroups>>
               [] OTHER -> <<>>]

(* In the other modes multi_num is set by the number of filters.             *)
multi_num(p) ==
  CASE p.rx_mode = "ALL_MULTI" -> 1 [] p.rx_mode = "PROMISC" -> 0
    [] OTHER -> Len(p.multi_macs)

(* dvb_net_filter_set may be refused each of its filters, which leaves its   *)
(* place empty, and the feed may not be started after that: nobody looks.  A *)
(* feed without a filter is never started (dvb_demux.c:885).                 *)
granted(f, g) ==
  [held |-> TRUE, running |-> g.running, own |-> g.own,
   multi |-> [n \in 1 .. Len(f.multi) |-> IF n \in g.refused THEN NoFilter ELSE f.multi[n]]]

(* What the demux may make of the filters f.  Other clients may hold the     *)
(* feeds that are left: then not even a feed is had.                         *)
outcomes(i, f) ==
  {NoFeed} \cup
  IF Cardinality(held \ {i}) >= MaxFeeds THEN {}
  ELSE {granted(f, g) :
          g \in [own : {{}, f.own}, refused : SUBSET (1 .. Len(f.multi)), running : BOOLEAN]}
       \ {granted(f, [own |-> {}, refused |-> 1 .. Len(f.multi), running |-> TRUE])}

feed_started(i, p) ==
  \E f \in outcomes(i, filters(p, dev[i].mac)) :
    /\ priv' = [priv EXCEPT ![i] = [p EXCEPT !.feed = f]]
    /\ starved' = IF f = filters(p, dev[i].mac) THEN starved \ {i} ELSE starved \cup {i}

(* The filters up to multi_num are given back, the others would be lost.     *)
loses_filters(p) ==
  p.feed.held /\ \E n \in 1 .. Len(p.feed.multi) :
                    n > multi_num(p) /\ p.feed.multi[n] # NoFilter
feed_stopped(p) == [p EXCEPT !.feed = NoFeed]

(* wq_set_multicast_list between stopping and starting.                      *)
mode_of(d) ==
  CASE d.promisc -> "PROMISC"
    [] ~d.promisc /\ d.allmulti -> "ALL_MULTI"
    [] ~d.promisc /\ ~d.allmulti /\ d.mc_list # <<>> -> "MULTI"
    [] OTHER -> "UNI"
shortened(list) == SubSeq(list, 1, IF Len(list) > MaxMulti THEN MaxMulti ELSE Len(list))
mode_set(p, d) ==
  [p EXCEPT !.rx_mode = mode_of(d),
            !.multi_macs = IF mode_of(d) = "MULTI" THEN shortened(d.mc_list) ELSE @]

-----------------------------------------------------------------------------
(* NET_ADD_IF and NET_REMOVE_IF                                              *)

AddIf(i) ==
  /\ dev[i].state = "absent" /\ \A j \in Slots : dev[j].state = "absent" => i <= j
  /\ dev' = [dev EXCEPT ![i] = [Absent EXCEPT !.state = "down"]]
  /\ priv' = [priv EXCEPT ![i] = Fresh]
  /\ UNCHANGED <<work, starved, stray, bug, leaked>>

(* What is queued, each work once at most, is waited for, after the feed was *)
(* stopped.                                                                  *)
RemoveIf(i) ==
  /\ dev[i].state = "down"
  /\ LET late == <<"multicast", i>> \in ToSet(work)
     IN /\ work' = RemoveFirst(RemoveFirst(work, <<"multicast", i>>), <<"restart", i>>)
        /\ IF late THEN feed_started(i, mode_set(feed_stopped(priv[i]), dev[i]))
           ELSE /\ priv' = [priv EXCEPT ![i] = feed_stopped(@)]
                /\ UNCHANGED starved
        /\ stray' = IF late THEN stray \cup {i} ELSE stray
        /\ leaked' = (leaked \/ loses_filters(priv[i]))
  /\ dev' = [dev EXCEPT ![i] = Absent]
  /\ UNCHANGED bug

-----------------------------------------------------------------------------
(* What the kernel asks for.                                                 *)

scheduled(w) == IF w \in ToSet(work) THEN work ELSE Append(work, w)

(* dvb_net_open; the kernel sends the multicast list after it.               *)
Open(i) ==
  /\ dev[i].state = "down"
  /\ dev' = [dev EXCEPT ![i].state = "up"]
  /\ bug' = (bug \/ priv[i].feed.held)
  /\ feed_started(i, priv[i])
  /\ work' = scheduled(<<"multicast", i>>)
  /\ UNCHANGED <<stray, leaked>>

Stop(i) ==
  /\ up(i)
  /\ dev' = [dev EXCEPT ![i].state = "down"]
  /\ leaked' = (leaked \/ loses_filters(priv[i]))
  /\ priv' = [priv EXCEPT ![i] = feed_stopped(@)]
  /\ UNCHANGED <<work, starved, stray, bug>>

(* dvb_net_set_mac.  A mutant: the feed is not started anew.                 *)
SetMacOnly(i, mac) ==
  /\ dev[i].state # "absent" /\ mac # dev[i].mac
  /\ dev' = [dev EXCEPT ![i].mac = mac]
  /\ UNCHANGED <<priv, work, starved, stray, bug, leaked>>
SetMac(i, mac) ==
  /\ dev[i].state # "absent" /\ mac # dev[i].mac
  /\ dev' = [dev EXCEPT ![i].mac = mac]
  /\ work' = IF up(i) THEN scheduled(<<"restart", i>>) ELSE work
  /\ UNCHANGED <<priv, starved, stray, bug, leaked>>

(* dvb_net_set_multicast_list, called for an interface that is up.           *)
Reception == [promisc : BOOLEAN, allmulti : BOOLEAN,
              mc_list : {s \in UNION {[1 .. n -> Groups] : n \in 0 .. Cardinality(Groups)} :
                           IsInjective(s)}]
SetMulticastList(i, r) ==
  /\ dev[i].state # "absent"
  /\ dev' = [dev EXCEPT ![i].promisc = r.promisc, ![i].allmulti = r.allmulti,
                        ![i].mc_list = r.mc_list]
  /\ dev' # dev
  /\ work' = IF up(i) THEN scheduled(<<"multicast", i>>) ELSE work
  /\ UNCHANGED <<priv, starved, stray, bug, leaked>>

-----------------------------------------------------------------------------
(* The work queue.                                                           *)

first(kind, i) == work # <<>> /\ Head(work) = <<kind, i>>

Restarted(i, p) ==
  /\ leaked' = (leaked \/ loses_filters(p))
  /\ feed_started(i, p)

(* A mutant: the new list is written before the old filters are given back. *)
WorkSetModeFirst(i) ==
  /\ first("multicast", i)
  /\ Restarted(i, mode_set(priv[i], dev[i]))
  /\ stray' = IF up(i) THEN stray ELSE stray \cup {i}
  /\ work' = Tail(work) /\ UNCHANGED <<dev, bug>>
WorkSetMulticastList(i) ==
  /\ first("multicast", i)
  /\ feed_started(i, mode_set(priv[i], dev[i]))
  /\ leaked' = (leaked \/ loses_filters(priv[i]))
  /\ stray' = IF up(i) THEN stray ELSE stray \cup {i}
  /\ work' = Tail(work) /\ UNCHANGED <<dev, bug>>

WorkRestart(i) ==
  /\ first("restart", i)
  /\ IF up(i) THEN Restarted(i, priv[i]) ELSE UNCHANGED <<priv, starved, leaked>>
  /\ work' = Tail(work) /\ UNCHANGED <<dev, stray, bug>>

Next ==
  \/ \E i \in Slots : AddIf(i) \/ RemoveIf(i) \/ Open(i) \/ Stop(i)
  \/ \E i \in Slots, m \in Macs : SetMac(i, m)
  \/ \E i \in Slots, r \in Reception : SetMulticastList(i, r)
  \/ \E i \in Slots : WorkSetMulticastList(i) \/ WorkRestart(i)

Spec == Init /\ [][Next]_vars

-----------------------------------------------------------------------------
TypeOK ==
  /\ \A i \in Slots :
       /\ dev[i].state \in {"absent", "down", "up"} /\ dev[i].mac \in Macs
       /\ priv[i].rx_mode \in Modes /\ Len(priv[i].multi_macs) <= MaxMulti
  /\ starved \subseteq Slots /\ stray \subseteq Slots

(* Once the work is done, the feed of an open interface lets through nothing *)
(* but what its interface wants by now, and all of that unless the demux     *)
(* refused some of it, however the requests, the works and the closing of    *)
(* the interface came between each other.                                    *)
Among(f, g) ==
  /\ f.own \subseteq g.own /\ Len(f.multi) <= Len(g.multi)
  /\ \A n \in 1 .. Len(f.multi) : f.multi[n] \in {NoFilter, g.multi[n]}
FiltersFollow ==
  \A i \in Slots : up(i) /\ (\A n \in DOMAIN work : work[n][2] # i) =>
    LET wanted == filters(mode_set(priv[i], dev[i]), dev[i].mac)
    IN Among(priv[i].feed, wanted) /\ (i \in starved \/ priv[i].feed = wanted)

(* A closed interface holds no feed, unless a multicast list that was sent   *)
(* before it was closed has been worked on since; and no filter is lost.     *)
FeedOnlyWhileUp ==
  /\ \A i \in held : up(i) \/ i \in stray
  /\ ~leaked

(* What the driver expects when it starts a feed, "BUG" otherwise            *)
(* (dvb_net.c:255): that it holds none yet.  It does when the multicast list *)
(* was worked on after the interface was closed.                             *)
StartsClean == ~bug

-----------------------------------------------------------------------------
(* For any number of interfaces, addresses and feeds: what is stopped always *)
(* gives back all filters, because multi_num and the mode are only changed   *)
(* between stopping and starting.                                            *)

Interface == [state : {"absent", "down", "up"}, mac : Macs, promisc : BOOLEAN,
              allmulti : BOOLEAN, mc_list : Seq(Groups)]
Feed == [held : BOOLEAN, running : BOOLEAN, own : SUBSET (Macs \cup {Anything}),
         multi : Seq(Groups \cup {AllGroups, NoFilter})]
Private == [rx_mode : Modes, multi_macs : Seq(Groups), feed : Feed]

NetTyped ==
  /\ dev \in [Slots -> Interface] /\ priv \in [Slots -> Private]
  /\ \A i \in Slots : Len(priv[i].multi_macs) <= MaxMulti
  /\ starved \subseteq Slots /\ stray \subseteq Slots

FiltersCounted == \A i \in Slots : ~loses_filters(priv[i])

NetInv == NetTyped /\ FiltersCounted /\ FeedOnlyWhileUp

(* A private state that may be kept for interface i.                         *)
Sound(p) == p \in Private /\ Len(p.multi_macs) <= MaxMulti /\ ~loses_filters(p)

LEMMA AbsentTyped == Absent \in Interface
BY NetAssumption DEF Absent, Interface

LEMMA FreshSound == Sound(Fresh) /\ ~Fresh.feed.held
BY NetAssumption DEF Sound, Fresh, Private, Modes, Feed, NoFeed, loses_filters

LEMMA FeedStoppedSound ==
  ASSUME NEW p \in Private, Len(p.multi_macs) <= MaxMulti
  PROVE  Sound(feed_stopped(p)) /\ ~feed_stopped(p).feed.held
<1>1. NoFeed \in Feed /\ ~NoFeed.held BY DEF NoFeed, Feed
<1> DEFINE q == [p EXCEPT !.feed = NoFeed]
<1>2. q \in Private /\ q.multi_macs = p.multi_macs /\ q.feed = NoFeed BY <1>1 DEF Private
<1> HIDE DEF q
<1>3. Sound(q) /\ ~q.feed.held BY <1>1, <1>2 DEF Sound, loses_filters
<1> QED BY <1>3 DEF feed_stopped, q

LEMMA ModeSetTyped ==
  ASSUME NEW p \in Private, Len(p.multi_macs) <= MaxMulti, NEW d \in Interface
  PROVE  mode_set(p, d) \in Private /\ Len(mode_set(p, d).multi_macs) <= MaxMulti
<1> DEFINE list == shortened(d.mc_list)
<1>1. d.mc_list \in Seq(Groups) BY DEF Interface
<1>2. list \in Seq(Groups) /\ Len(list) <= MaxMulti
  <2>1. CASE Len(d.mc_list) > MaxMulti
    BY <1>1, <2>1, NetAssumption, SubSeqProperties DEF shortened
  <2>2. CASE ~(Len(d.mc_list) > MaxMulti)
    BY <1>1, <2>2, NetAssumption, SubSeqProperties DEF shortened
  <2> QED BY <2>1, <2>2
<1>3. mode_of(d) \in Modes BY DEF mode_of, Modes
<1> HIDE DEF list
<1> QED BY <1>2, <1>3 DEF mode_set, Private, list

LEMMA FiltersTyped ==
  ASSUME NEW p \in Private, NEW mac \in Macs
  PROVE  /\ filters(p, mac) \in Feed
         /\ Len(filters(p, mac).multi) <= multi_num(p)
<1>1. p.multi_macs \in Seq(Groups) /\ p.rx_mode \in Modes BY DEF Private
<1>2. p.multi_macs \in Seq(Groups \cup {AllGroups}) BY <1>1
<1>3. CASE p.rx_mode = "UNI" BY <1>1, <1>3 DEF filters, Feed, multi_num
<1>4. CASE p.rx_mode = "MULTI" BY <1>1, <1>2, <1>4 DEF filters, Feed, multi_num
<1>5. CASE p.rx_mode = "ALL_MULTI" BY <1>5 DEF filters, Feed, multi_num
<1>6. CASE p.rx_mode = "PROMISC" BY <1>6 DEF filters, Feed, multi_num
<1> QED BY <1>1, <1>3, <1>4, <1>5, <1>6 DEF Modes

(* What the demux makes of the filters g                                     *)
LEMMA OutcomeAmong ==
  ASSUME NEW i, NEW g \in Feed, NEW f \in outcomes(i, g)
  PROVE  f \in Feed /\ Among(f, g)
<1>1. g.own \subseteq Macs \cup {Anything} /\ g.multi \in Seq(Groups \cup {AllGroups, NoFilter})
  BY DEF Feed
<1>2. CASE f = NoFeed
  BY <1>1, <1>2 DEF NoFeed, Feed, Among
<1>3. CASE f # NoFeed
  <2>1. PICK h \in [own : {{}, g.own}, refused : SUBSET (1 .. Len(g.multi)), running : BOOLEAN] :
          f = granted(g, h)
    BY <1>3 DEF outcomes
  <2> DEFINE m == [n \in 1 .. Len(g.multi) |-> IF n \in h.refused THEN NoFilter ELSE g.multi[n]]
  <2>2. /\ m \in Seq(Groups \cup {AllGroups, NoFilter}) /\ Len(m) = Len(g.multi)
        /\ \A n \in 1 .. Len(m) : m[n] \in {NoFilter, g.multi[n]}
    <3>1. \A n \in 1 .. Len(g.multi) : m[n] \in Groups \cup {AllGroups, NoFilter} BY <1>1
    <3>2. Len(g.multi) \in Nat BY <1>1
    <3>3. m \in [1 .. Len(g.multi) -> Groups \cup {AllGroups, NoFilter}] BY <3>1
    <3>4. \A n \in 1 .. Len(g.multi) : m[n] \in {NoFilter, g.multi[n]} OBVIOUS
    <3> HIDE DEF m
    <3>5. m \in Seq(Groups \cup {AllGroups, NoFilter}) BY <3>2, <3>3, SeqDef
    <3>6. Len(m) = Len(g.multi) BY <3>2, <3>3, <3>5
    <3> QED BY <3>4, <3>5, <3>6
  <2>3. f = [held |-> TRUE, running |-> h.running, own |-> h.own, multi |-> m]
    BY <2>1 DEF granted
  <2> HIDE DEF m
  <2>4. h.own \subseteq g.own /\ h.running \in BOOLEAN OBVIOUS
  <2>5. f \in Feed BY <1>1, <2>2, <2>3, <2>4 DEF Feed
  <2>6. Len(g.multi) \in Nat BY <1>1
  <2> QED BY <2>2, <2>3, <2>4, <2>5, <2>6 DEF Among
<1> QED BY <1>2, <1>3

(* Starting the feed of interface i in the state p                           *)
LEMMA FeedStartedSound ==
  ASSUME NetTyped, NEW i \in Slots, NEW p \in Private, Len(p.multi_macs) <= MaxMulti,
         feed_started(i, p)
  PROVE  \E q \in Private :
           /\ Sound(q) /\ priv' = [priv EXCEPT ![i] = q]
           /\ q.rx_mode = p.rx_mode /\ q.multi_macs = p.multi_macs
           /\ starved' \in {starved \cup {i}, starved \ {i}}
           /\ Among(q.feed, filters(q, dev[i].mac))
           /\ i \in starved' \/ q.feed = filters(q, dev[i].mac)
<1>1. dev[i].mac \in Macs BY DEF NetTyped, Interface
<1> DEFINE g == filters(p, dev[i].mac)
<1>2. g \in Feed /\ Len(g.multi) <= multi_num(p) BY <1>1, FiltersTyped
<1>3. PICK f \in outcomes(i, g) :
        /\ priv' = [priv EXCEPT ![i] = [p EXCEPT !.feed = f]]
        /\ starved' = IF f = g THEN starved \ {i} ELSE starved \cup {i}
  BY DEF feed_started
<1> HIDE DEF g
<1>4. f \in Feed /\ Among(f, g) BY <1>2, <1>3, OutcomeAmong
<1> DEFINE q == [p EXCEPT !.feed = f]
<1>5. q \in Private /\ q.multi_macs = p.multi_macs /\ q.rx_mode = p.rx_mode /\ q.feed = f
  BY <1>4 DEF Private
<1>6. priv' = [priv EXCEPT ![i] = q] BY <1>3
<1> HIDE DEF q
<1>7. filters(q, dev[i].mac) = g /\ multi_num(q) = multi_num(p)
  BY <1>5 DEF filters, multi_num, g
<1>8. Len(f.multi) \in Nat /\ Len(g.multi) \in Nat /\ multi_num(p) \in Nat
  BY <1>2, <1>4 DEF Feed, multi_num, Private
<1>9. ~loses_filters(q)
  <2>1. Len(f.multi) <= multi_num(q) BY <1>2, <1>4, <1>7, <1>8 DEF Among
  <2> QED BY <1>5, <1>7, <1>8, <2>1 DEF loses_filters
<1>10. Sound(q) BY <1>5, <1>9 DEF Sound
<1>11. i \in starved' \/ q.feed = filters(q, dev[i].mac) BY <1>3, <1>5, <1>7
<1> QED BY <1>3, <1>4, <1>5, <1>6, <1>7, <1>10, <1>11

LEMMA NetInvInit == Init => NetInv
<1> SUFFICES ASSUME Init PROVE NetInv
  OBVIOUS
<1>1. NetTyped BY AbsentTyped, FreshSound DEF Init, NetTyped, Sound
<1>2. FiltersCounted BY FreshSound DEF Init, FiltersCounted, Sound
<1>3. FeedOnlyWhileUp BY FreshSound DEF Init, FeedOnlyWhileUp, held
<1> QED BY <1>1, <1>2, <1>3 DEF NetInv

(* What an action has to do with interface i so that the invariant is kept.  *)
LEMMA PrivChanged ==
  ASSUME NetInv, NEW i \in Slots, NEW q, Sound(q),
         priv' = [priv EXCEPT ![i] = q], dev' \in [Slots -> Interface],
         \A j \in Slots \ {i} : dev'[j] = dev[j],
         starved' \subseteq Slots, stray' \subseteq Slots, stray \subseteq stray',
         q.feed.held => dev'[i].state = "up" \/ i \in stray',
         leaked' = FALSE
  PROVE  NetInv'
<1> USE DEF NetInv
<1>1. priv' \in [Slots -> Private] BY DEF Sound, NetTyped
<1>2. \A j \in Slots : IF j = i THEN priv'[j] = q ELSE priv'[j] = priv[j] BY DEF NetTyped
<1>3. NetTyped' BY <1>1, <1>2 DEF NetTyped, Sound
<1>4. FiltersCounted' BY <1>2 DEF FiltersCounted, Sound
<1>5. FeedOnlyWhileUp' BY <1>2 DEF FeedOnlyWhileUp, held, up
<1> QED BY <1>3, <1>4, <1>5

LEMMA PrivKept ==
  ASSUME NetInv, priv' = priv, dev' \in [Slots -> Interface],
         \A j \in Slots : dev[j].state = "up" => dev'[j].state = "up",
         UNCHANGED <<starved, stray, leaked>>
  PROVE  NetInv'
<1> USE DEF NetInv
<1>1. NetTyped' BY DEF NetTyped
<1>2. FiltersCounted' BY DEF FiltersCounted
<1>3. FeedOnlyWhileUp' BY DEF FeedOnlyWhileUp, held, up
<1> QED BY <1>1, <1>2, <1>3

(* The state of one interface is changed to d.                               *)
LEMMA DevChanged ==
  ASSUME NetTyped, NEW i \in Slots, NEW d \in Interface, dev' = [dev EXCEPT ![i] = d]
  PROVE  /\ dev' \in [Slots -> Interface] /\ dev'[i] = d
         /\ \A j \in Slots \ {i} : dev'[j] = dev[j]
BY DEF NetTyped

LEMMA PrivSound ==
  ASSUME NetInv, NEW i \in Slots
  PROVE  /\ priv[i] \in Private /\ Len(priv[i].multi_macs) <= MaxMulti
         /\ dev[i] \in Interface /\ ~loses_filters(priv[i]) /\ leaked = FALSE
BY DEF NetInv, NetTyped, FiltersCounted, FeedOnlyWhileUp

-----------------------------------------------------------------------------
(* The requests of the kernel.                                               *)

LEMMA AddIfKeeps == ASSUME NetInv, NEW i \in Slots, AddIf(i) PROVE NetInv'
<1> DEFINE d == [Absent EXCEPT !.state = "down"]
<1>1. d \in Interface BY AbsentTyped DEF Interface
<1>2. dev' = [dev EXCEPT ![i] = d] BY DEF AddIf
<1> HIDE DEF d
<1>3. priv' = [priv EXCEPT ![i] = Fresh] /\ UNCHANGED <<starved, stray, leaked>> BY DEF AddIf
<1>4. NetTyped BY DEF NetInv
<1> QED BY <1>1, <1>2, <1>3, <1>4, DevChanged, FreshSound, PrivChanged, PrivSound DEF NetTyped

LEMMA RemoveIfKeeps == ASSUME NetInv, NEW i \in Slots, RemoveIf(i) PROVE NetInv'
<1> DEFINE late == <<"multicast", i>> \in ToSet(work)
           p == feed_stopped(priv[i])
<1>1. NetTyped BY DEF NetInv
<1>2. dev' = [dev EXCEPT ![i] = Absent] BY DEF RemoveIf
<1>3. IF late THEN feed_started(i, mode_set(p, dev[i]))
      ELSE priv' = [priv EXCEPT ![i] = p] /\ starved' = starved
  BY <1>1 DEF RemoveIf, NetTyped
<1>4. stray' = (IF late THEN stray \cup {i} ELSE stray) /\ leaked' = FALSE
  BY PrivSound DEF RemoveIf
<1>5. Sound(p) /\ ~p.feed.held BY PrivSound, FeedStoppedSound
<1> HIDE DEF late, p
<1>6. PICK q : /\ Sound(q) /\ priv' = [priv EXCEPT ![i] = q]
               /\ starved' \subseteq Slots /\ (q.feed.held => late)
  <2>1. CASE late
    <3>1. mode_set(p, dev[i]) \in Private /\ Len(mode_set(p, dev[i]).multi_macs) <= MaxMulti
      BY <1>5, PrivSound, ModeSetTyped DEF Sound
    <3>2. PICK q : /\ Sound(q) /\ priv' = [priv EXCEPT ![i] = q]
                   /\ starved' \in {starved \cup {i}, starved \ {i}}
      BY <1>1, <1>3, <2>1, <3>1, FeedStartedSound
    <3> QED BY <1>1, <2>1, <3>2 DEF NetTyped
  <2>2. CASE ~late BY <1>1, <1>3, <1>5, <2>2 DEF NetTyped
  <2> QED BY <2>1, <2>2
<1>7. stray' \subseteq Slots /\ stray \subseteq stray' /\ (late => i \in stray')
  BY <1>1, <1>4 DEF NetTyped
<1>8. dev' \in [Slots -> Interface] /\ \A j \in Slots \ {i} : dev'[j] = dev[j]
  BY <1>1, <1>2, AbsentTyped, DevChanged
<1> QED BY <1>4, <1>6, <1>7, <1>8, PrivChanged

LEMMA OpenKeeps == ASSUME NetInv, NEW i \in Slots, Open(i) PROVE NetInv'
<1> DEFINE d == [dev[i] EXCEPT !.state = "up"]
<1>1. NetTyped BY DEF NetInv
<1>2. d \in Interface /\ d.state = "up" BY PrivSound DEF Interface
<1>3. dev' = [dev EXCEPT ![i] = d] BY <1>1 DEF Open, NetTyped
<1> HIDE DEF d
<1>4. PICK q : /\ Sound(q) /\ priv' = [priv EXCEPT ![i] = q]
               /\ starved' \in {starved \cup {i}, starved \ {i}}
  BY <1>1, PrivSound, FeedStartedSound DEF Open
<1>5. starved' \subseteq Slots /\ stray' = stray /\ stray \subseteq Slots /\ leaked' = FALSE
  BY <1>1, <1>4, PrivSound DEF Open, NetTyped
<1> QED BY <1>1, <1>2, <1>3, <1>4, <1>5, DevChanged, PrivChanged

LEMMA StopKeeps == ASSUME NetInv, NEW i \in Slots, Stop(i) PROVE NetInv'
<1> DEFINE d == [dev[i] EXCEPT !.state = "down"]
           q == feed_stopped(priv[i])
<1>1. NetTyped BY DEF NetInv
<1>2. d \in Interface BY PrivSound DEF Interface
<1>3. dev' = [dev EXCEPT ![i] = d] /\ priv' = [priv EXCEPT ![i] = q]
  BY <1>1 DEF Stop, NetTyped
<1>4. Sound(q) /\ ~q.feed.held BY PrivSound, FeedStoppedSound
<1> HIDE DEF d, q
<1>5. leaked' = FALSE /\ UNCHANGED <<starved, stray>> BY PrivSound DEF Stop
<1> QED BY <1>1, <1>2, <1>3, <1>4, <1>5, DevChanged, PrivChanged DEF NetTyped

LEMMA SetMacKeeps ==
  ASSUME NetInv, NEW i \in Slots, NEW m \in Macs, SetMac(i, m) PROVE NetInv'
<1> DEFINE d == [dev[i] EXCEPT !.mac = m]
<1>1. NetTyped BY DEF NetInv
<1>2. d \in Interface /\ d.state = dev[i].state BY PrivSound DEF Interface
<1>3. dev' = [dev EXCEPT ![i] = d] BY <1>1 DEF SetMac, NetTyped
<1> HIDE DEF d
<1>4. UNCHANGED <<priv, starved, stray, leaked>> BY DEF SetMac
<1> QED BY <1>1, <1>2, <1>3, <1>4, DevChanged, PrivKept

LEMMA SetMulticastListKeeps ==
  ASSUME NetInv, NEW i \in Slots, NEW r \in Reception, SetMulticastList(i, r) PROVE NetInv'
<1> DEFINE d == [dev[i] EXCEPT !.promisc = r.promisc, !.allmulti = r.allmulti,
                               !.mc_list = r.mc_list]
<1>1. NetTyped BY DEF NetInv
<1>2. r.promisc \in BOOLEAN /\ r.allmulti \in BOOLEAN /\ r.mc_list \in Seq(Groups)
  BY DEF Reception
<1>3. d \in Interface /\ d.state = dev[i].state BY <1>2, PrivSound DEF Interface
<1>4. dev' = [dev EXCEPT ![i] = d] BY <1>1 DEF SetMulticastList, NetTyped
<1> HIDE DEF d
<1>5. UNCHANGED <<priv, starved, stray, leaked>> BY DEF SetMulticastList
<1> QED BY <1>1, <1>3, <1>4, <1>5, DevChanged, PrivKept

-----------------------------------------------------------------------------
(* The work queue.                                                           *)

LEMMA WorkSetKeeps == ASSUME NetInv, NEW i \in Slots, WorkSetMulticastList(i) PROVE NetInv'
<1>1. NetTyped BY DEF NetInv
<1> DEFINE p == mode_set(priv[i], dev[i])
<1>2. p \in Private /\ Len(p.multi_macs) <= MaxMulti BY PrivSound, ModeSetTyped
<1>3. feed_started(i, p) BY DEF WorkSetMulticastList
<1> HIDE DEF p
<1>4. PICK q : /\ Sound(q) /\ priv' = [priv EXCEPT ![i] = q]
               /\ starved' \in {starved \cup {i}, starved \ {i}}
  BY <1>1, <1>2, <1>3, FeedStartedSound
<1>5. leaked' = FALSE /\ dev' = dev BY PrivSound DEF WorkSetMulticastList
<1>6. starved' \subseteq Slots BY <1>1, <1>4 DEF NetTyped
<1>7. stray' \subseteq Slots /\ stray \subseteq stray' /\ (up(i) \/ i \in stray')
  BY <1>1 DEF WorkSetMulticastList, NetTyped
<1> QED BY <1>1, <1>4, <1>5, <1>6, <1>7, PrivChanged DEF NetTyped, up

LEMMA WorkRestartKeeps == ASSUME NetInv, NEW i \in Slots, WorkRestart(i) PROVE NetInv'
<1>1. NetTyped BY DEF NetInv
<1>2. CASE up(i)
  <2>1. PICK q : /\ Sound(q) /\ priv' = [priv EXCEPT ![i] = q]
                 /\ starved' \in {starved \cup {i}, starved \ {i}}
    BY <1>1, <1>2, PrivSound, FeedStartedSound DEF WorkRestart, Restarted
  <2>2. leaked' = FALSE /\ dev' = dev /\ stray' = stray
    BY <1>2, PrivSound DEF WorkRestart, Restarted
  <2>3. starved' \subseteq Slots BY <1>1, <2>1 DEF NetTyped
  <2> QED BY <1>1, <1>2, <2>1, <2>2, <2>3, PrivChanged DEF NetTyped, up
<1>3. CASE ~up(i) BY <1>1, <1>3, PrivKept DEF WorkRestart, NetTyped
<1> QED BY <1>2, <1>3

LEMMA NetInvStep == NetInv /\ [Next]_vars => NetInv'
<1> SUFFICES ASSUME NetInv, [Next]_vars PROVE NetInv'
  OBVIOUS
<1>1. CASE UNCHANGED vars BY <1>1, PrivKept DEF vars, NetInv, NetTyped
<1>2. CASE Next
  BY <1>2, AddIfKeeps, RemoveIfKeeps, OpenKeeps, StopKeeps, SetMacKeeps,
     SetMulticastListKeeps, WorkSetKeeps, WorkRestartKeeps
     DEF Next
<1> QED BY <1>1, <1>2

LEMMA NetInvHolds == Spec => []NetInv
BY NetInvInit, NetInvStep, PTL DEF Spec

(* The kernel's and the driver's states of an interface keep their types,    *)
(* and no more groups are kept than there is room for.                       *)
THEOREM NetTypeCorrect == Spec => []TypeOK
<1>1. NetInv => TypeOK BY DEF NetInv, NetTyped, TypeOK, Interface, Private
<1> QED BY <1>1, NetInvHolds, PTL

(* A closed interface holds a feed only if a multicast list was worked on    *)
(* after it was closed, and whatever the mode was changed to in between, no  *)
(* filter is ever lost.                                                      *)
THEOREM FeedAlwaysOnlyWhileUp == Spec => []FeedOnlyWhileUp
<1>1. NetInv => FeedOnlyWhileUp BY DEF NetInv
<1> QED BY <1>1, NetInvHolds, PTL

-----------------------------------------------------------------------------
(* The filters of an open interface follow what it wants: what is not up to  *)
(* date yet has its work in the queue.  A work that runs late, for an        *)
(* interface that was closed and opened in between, does no harm, because    *)
(* opening queues one of its own.                                            *)

Works == {"multicast", "restart"} \X Slots
Queued == ToSet(work)

ModeFollows(i) ==
  /\ priv[i].rx_mode = mode_of(dev[i])
  /\ priv[i].rx_mode = "MULTI" => priv[i].multi_macs = shortened(dev[i].mc_list)
Follows(i) ==
  /\ Among(priv[i].feed, filters(priv[i], dev[i].mac))
  /\ i \in starved \/ priv[i].feed = filters(priv[i], dev[i].mac)
Owed(i) ==
  up(i) => \/ <<"multicast", i>> \in Queued
           \/ /\ ModeFollows(i)
              /\ \/ <<"restart", i>> \in Queued
                 \/ Follows(i)
FollowInv == NetInv /\ work \in Seq(Works) /\ \A i \in Slots : Owed(i)

(* The queue                                                                 *)
LEMMA Scheduled ==
  ASSUME work \in Seq(Works), NEW w \in Works
  PROVE  scheduled(w) \in Seq(Works) /\ ToSet(scheduled(w)) = Queued \cup {w}
<1>1. CASE w \in ToSet(work) BY <1>1 DEF scheduled, Queued
<1>2. CASE w \notin ToSet(work)
  <2>1. scheduled(w) = Append(work, w) BY <1>2 DEF scheduled
  <2>2. /\ Len(Append(work, w)) = Len(work) + 1 /\ Append(work, w)[Len(work) + 1] = w
        /\ \A n \in 1 .. Len(work) : Append(work, w)[n] = work[n]
    OBVIOUS
  <2> QED BY <2>1, <2>2 DEF ToSet, Queued
<1> QED BY <1>1, <1>2

LEMMA Worked ==
  ASSUME work \in Seq(Works), work # <<>>
  PROVE  Tail(work) \in Seq(Works) /\ Queued \subseteq ToSet(Tail(work)) \cup {Head(work)}
<1> DEFINE t == Tail(work)
<1>1. /\ t \in Seq(Works) /\ Len(t) = Len(work) - 1
      /\ \A n \in 1 .. Len(t) : t[n] = work[n + 1]
  OBVIOUS
<1> HIDE DEF t
<1>2. ASSUME NEW n \in 1 .. Len(work), n # 1  PROVE work[n] \in ToSet(t)
  <2>1. n - 1 \in 1 .. Len(t) /\ t[n - 1] = work[n] BY <1>1, <1>2
  <2> QED BY <1>1, <2>1 DEF ToSet
<1>3. Head(work) = work[1] OBVIOUS
<1>4. Queued \subseteq ToSet(t) \cup {Head(work)} BY <1>2, <1>3 DEF ToSet, Queued
<1> QED BY <1>1, <1>4 DEF t

LEMMA Smallest ==
  ASSUME NEW S, S \subseteq Nat, S # {}
  PROVE  \E i \in S : \A j \in S : i <= j
<1> DEFINE Less == OpToRel(<, Nat)
<1>1. ASSUME NEW i \in Nat, NEW j \in Nat, <<j, i>> \notin Less  PROVE i <= j
  <2>1. Less = {ss \in Nat \X Nat : ss[1] < ss[2]} BY Zenon DEF OpToRel
  <2>2. <<j, i>> \in Nat \X Nat /\ <<j, i>>[1] = j /\ <<j, i>>[2] = i OBVIOUS
  <2>3. ~(j < i) BY <1>1, <2>1, <2>2, Zenon
  <2> QED BY <2>3
<1>2. IsWellFoundedOn(Less, Nat) BY NatLessThanWellFounded, Zenon
<1> HIDE DEF Less
<1>3. \A R : IsWellFoundedOn(R, Nat) => \E x \in S : \A y \in S : ~(<<y, x>> \in R)
  BY WFMin, Zenon
<1> QED BY <1>1, <1>2, <1>3

LEMMA Removed ==
  ASSUME NEW s \in Seq(Works), NEW w
  PROVE  RemoveFirst(s, w) \in Seq(Works) /\ ToSet(s) \subseteq ToSet(RemoveFirst(s, w)) \cup {w}
<1> DEFINE I == {n \in 1 .. Len(s) : s[n] = w}
<1>1. CASE I = {}
  <2>1. RemoveFirst(s, w) = s BY <1>1 DEF RemoveFirst
  <2> QED BY <2>1
<1>2. CASE I # {}
  <2> DEFINE m == Min(I)
  <2>1. RemoveFirst(s, w) = SubSeq(s, 1, m - 1) \o SubSeq(s, m + 1, Len(s))
    BY <1>2 DEF RemoveFirst, RemoveAt, SelectInSeq
  <2>2. m \in I
    <3>1. I \subseteq Nat OBVIOUS
    <3> HIDE DEF I
    <3>2. \E n \in I : \A k \in I : n <= k BY <1>2, <3>1, Smallest
    <3> QED BY <3>2 DEF Min
  <2> HIDE DEF m
  <2>3. m \in 1 .. Len(s) /\ s[m] = w BY <2>2
  <2> DEFINE a == SubSeq(s, 1, m - 1)
             b == SubSeq(s, m + 1, Len(s))
  <2>4. /\ a \in Seq(Works) /\ Len(a) = m - 1 /\ \A n \in 1 .. m - 1 : a[n] = s[n]
        /\ b \in Seq(Works) /\ Len(b) = Len(s) - m /\ \A n \in 1 .. Len(s) - m : b[n] = s[m + n]
    BY <2>3, SubSeqProperties
  <2> HIDE DEF a, b
  <2> DEFINE c == a \o b
  <2>5. c \in Seq(Works) /\ Len(c) = Len(s) - 1
    <3>1. c \in Seq(Works) /\ Len(c) = Len(a) + Len(b) BY <2>4, ConcatProperties
    <3> HIDE DEF c
    <3> QED BY <2>3, <2>4, <3>1
  <2>6. \A n \in 1 .. Len(a) + Len(b) :
          c[n] = IF n <= Len(a) THEN a[n] ELSE b[n - Len(a)]
    BY <2>4, ConcatProperties
  <2>7. RemoveFirst(s, w) = c BY <2>1 DEF a, b
  <2> HIDE DEF c
  <2>8. ASSUME NEW n \in 1 .. Len(s), n # m  PROVE s[n] \in ToSet(c)
    <3>1. CASE n < m
      <4>1. n \in 1 .. Len(c) /\ n \in 1 .. m - 1 BY <2>3, <2>5, <3>1
      <4>2. c[n] = a[n] BY <2>3, <2>4, <2>6, <4>1
      <4> QED BY <2>4, <2>5, <4>1, <4>2 DEF ToSet
    <3>2. CASE n > m
      <4>1. n - 1 \in 1 .. Len(c) BY <2>3, <2>5, <3>2
      <4>2. c[n - 1] = b[n - m] BY <2>3, <2>4, <2>6, <3>2
      <4>3. b[n - m] = s[n] BY <2>3, <2>4, <3>2
      <4> QED BY <2>5, <4>1, <4>2, <4>3 DEF ToSet
    <3> QED BY <2>3, <2>8, <3>1, <3>2
  <2> QED BY <2>3, <2>5, <2>7, <2>8 DEF ToSet
<1> QED BY <1>1, <1>2

-----------------------------------------------------------------------------
LEMMA ModeSetFollows ==
  ASSUME NEW p \in Private, NEW d
  PROVE  /\ mode_set(p, d).rx_mode = mode_of(d)
         /\ mode_of(d) = "MULTI" => mode_set(p, d).multi_macs = shortened(d.mc_list)
BY DEF mode_set, Private

(* What an action that leaves interface i, its own work included, alone      *)
LEMMA OwedElsewhere ==
  ASSUME NEW i, Owed(i), dev'[i] = dev[i], priv'[i] = priv[i],
         i \in starved <=> i \in starved',
         \A kind \in {"multicast", "restart"} : <<kind, i>> \in Queued => <<kind, i>> \in Queued'
  PROVE  Owed(i)'
BY DEF Owed, up, ModeFollows, Follows

LEMMA FollowInit == Init => FollowInv
<1> SUFFICES ASSUME Init PROVE FollowInv
  OBVIOUS
<1>1. \A i \in Slots : ~up(i) BY DEF Init, up, Absent
<1> QED BY <1>1, NetInvInit DEF FollowInv, Owed, Init

LEMMA FollowCall ==
  ASSUME FollowInv, NetInv', NEW i \in Slots,
         AddIf(i) \/ RemoveIf(i) \/ Open(i) \/ Stop(i)
  PROVE  FollowInv'
<1>1. work \in Seq(Works) /\ \A j \in Slots : Owed(j) BY DEF FollowInv
<1>2. dev \in [Slots -> Interface] /\ priv \in [Slots -> Private]
  BY DEF FollowInv, NetInv, NetTyped
<1>3. <<"multicast", i>> \in Works /\ <<"restart", i>> \in Works BY DEF Works
<1>4. CASE AddIf(i) \/ Stop(i)
  <2>1. /\ \A j \in Slots \ {i} : dev'[j] = dev[j] /\ priv'[j] = priv[j]
        /\ work' = work /\ starved' = starved /\ dev'[i].state = "down"
    <3>1. CASE AddIf(i) BY <1>2, <3>1, AbsentTyped DEF AddIf, Interface
    <3>2. CASE Stop(i) BY <1>2, <3>2 DEF Stop, Interface
    <3> QED BY <1>4, <3>1, <3>2
  <2>2. Owed(i)' BY <2>1 DEF Owed, up
  <2>3. \A j \in Slots \ {i} : Owed(j)' BY <1>1, <2>1, OwedElsewhere DEF Queued
  <2> QED BY <1>1, <2>1, <2>2, <2>3 DEF FollowInv
<1>5. CASE RemoveIf(i)
  <2>0. \A j \in Slots \ {i} : priv'[j] = priv[j] /\ (j \in starved <=> j \in starved')
    BY <1>2, <1>5 DEF RemoveIf, feed_started
  <2> DEFINE s == RemoveFirst(work, <<"multicast", i>>)
  <2>1. s \in Seq(Works) /\ Queued \subseteq ToSet(s) \cup {<<"multicast", i>>}
    BY <1>1, Removed DEF Queued
  <2>2. work' = RemoveFirst(s, <<"restart", i>>) BY <1>5 DEF RemoveIf
  <2> HIDE DEF s
  <2>3. /\ work' \in Seq(Works)
        /\ Queued \subseteq Queued' \cup {<<"multicast", i>>, <<"restart", i>>}
    BY <2>1, <2>2, Removed DEF Queued
  <2>4. (\A j \in Slots \ {i} : dev'[j] = dev[j]) /\ dev'[i].state = "absent"
    BY <1>2, <1>5 DEF RemoveIf, Absent
  <2>5. Owed(i)' BY <2>4 DEF Owed, up
  <2>6. \A j \in Slots \ {i} : Owed(j)' BY <1>1, <2>0, <2>3, <2>4, OwedElsewhere
  <2> QED BY <2>3, <2>5, <2>6 DEF FollowInv
<1>6. CASE Open(i)
  <2>1. work' \in Seq(Works) /\ Queued' = Queued \cup {<<"multicast", i>>}
    BY <1>1, <1>3, <1>6, Scheduled DEF Open, Queued
  <2>2. \A j \in Slots \ {i} :
          dev'[j] = dev[j] /\ priv'[j] = priv[j] /\ (j \in starved <=> j \in starved')
    BY <1>2, <1>6 DEF Open, feed_started
  <2>3. Owed(i)' BY <2>1 DEF Owed
  <2>4. \A j \in Slots \ {i} : Owed(j)' BY <1>1, <2>1, <2>2, OwedElsewhere
  <2> QED BY <2>1, <2>3, <2>4 DEF FollowInv
<1> QED BY <1>4, <1>5, <1>6

LEMMA FollowRequest ==
  ASSUME FollowInv, NetInv', NEW i \in Slots,
         \/ \E m \in Macs : SetMac(i, m)
         \/ \E r \in Reception : SetMulticastList(i, r)
  PROVE  FollowInv'
<1>1. work \in Seq(Works) /\ \A j \in Slots : Owed(j) BY DEF FollowInv
<1>2. dev \in [Slots -> Interface] BY DEF FollowInv, NetInv, NetTyped
<1>3. /\ \A j \in Slots \ {i} : dev'[j] = dev[j]
      /\ dev'[i].state = dev[i].state /\ priv' = priv /\ starved' = starved
  <2>1. CASE \E m \in Macs : SetMac(i, m)
    <3>1. PICK m \in Macs : SetMac(i, m) BY <2>1
    <3> DEFINE d == [dev[i] EXCEPT !.mac = m]
    <3>2. dev' = [dev EXCEPT ![i] = d] BY <1>2, <3>1 DEF SetMac
    <3>3. d.state = dev[i].state BY <1>2 DEF Interface
    <3> HIDE DEF d
    <3> QED BY <1>2, <3>1, <3>2, <3>3 DEF SetMac
  <2>2. CASE \E r \in Reception : SetMulticastList(i, r)
    <3>1. PICK r \in Reception : SetMulticastList(i, r) BY <2>2
    <3> DEFINE d == [dev[i] EXCEPT !.promisc = r.promisc, !.allmulti = r.allmulti,
                                   !.mc_list = r.mc_list]
    <3>2. dev' = [dev EXCEPT ![i] = d] BY <1>2, <3>1 DEF SetMulticastList
    <3>3. d.state = dev[i].state BY <1>2 DEF Interface
    <3> HIDE DEF d
    <3> QED BY <1>2, <3>1, <3>2, <3>3 DEF SetMulticastList
  <2> QED BY <2>1, <2>2
<1>4. PICK kind \in {"multicast", "restart"} :
        /\ work' = IF up(i) THEN scheduled(<<kind, i>>) ELSE work
        /\ kind = "restart" => \E m \in Macs : SetMac(i, m)
  BY DEF SetMac, SetMulticastList
<1>5. <<kind, i>> \in Works BY DEF Works
<1>6. /\ work' \in Seq(Works) /\ Queued \subseteq Queued'
      /\ up(i) => <<kind, i>> \in Queued'
  BY <1>1, <1>4, <1>5, Scheduled DEF Queued
<1>7. Owed(i)'
  <2>1. CASE ~up(i) BY <1>3, <2>1 DEF Owed, up
  <2>2. CASE up(i) /\ kind = "multicast" BY <1>6, <2>2 DEF Owed
  <2>3. CASE up(i) /\ kind = "restart"
    <3>1. PICK m \in Macs : SetMac(i, m) BY <1>4, <2>3
    <3>2. /\ dev'[i].promisc = dev[i].promisc /\ dev'[i].allmulti = dev[i].allmulti
          /\ dev'[i].mc_list = dev[i].mc_list
      BY <1>2, <3>1 DEF SetMac, Interface
    <3>3. mode_of(dev'[i]) = mode_of(dev[i]) BY <3>2 DEF mode_of
    <3>4. ModeFollows(i) => ModeFollows(i)' BY <1>3, <3>2, <3>3 DEF ModeFollows
    <3>5. <<"multicast", i>> \in Queued \/ ModeFollows(i) BY <1>1, <2>3 DEF Owed
    <3> QED BY <1>6, <2>3, <3>4, <3>5 DEF Owed
  <2> QED BY <2>1, <2>2, <2>3
<1>8. \A j \in Slots \ {i} : Owed(j)' BY <1>1, <1>3, <1>6, OwedElsewhere
<1> QED BY <1>6, <1>7, <1>8 DEF FollowInv

LEMMA FollowWork ==
  ASSUME FollowInv, NetInv', NEW i \in Slots, WorkSetMulticastList(i) \/ WorkRestart(i)
  PROVE  FollowInv'
<1>1. work \in Seq(Works) /\ (\A j \in Slots : Owed(j)) /\ NetInv BY DEF FollowInv
<1>2. dev \in [Slots -> Interface] /\ priv \in [Slots -> Private] /\ dev' = dev
  BY DEF FollowInv, NetInv, NetTyped, WorkSetMulticastList, WorkRestart
<1>3. /\ work' \in Seq(Works) /\ Queued \subseteq Queued' \cup {Head(work)}
      /\ Head(work) \in {<<"multicast", i>>, <<"restart", i>>}
  BY <1>1, Worked DEF WorkSetMulticastList, WorkRestart, first, Queued
<1>4. ASSUME NEW j \in Slots \ {i}, NEW kind \in {"multicast", "restart"},
             <<kind, j>> \in Queued
      PROVE  <<kind, j>> \in Queued'
  <2>1. <<kind, j>> # Head(work) BY <1>3
  <2> QED BY <1>3, <1>4, <2>1
<1>5. ASSUME NEW p \in Private, Len(p.multi_macs) <= MaxMulti, feed_started(i, p)
      PROVE  /\ priv'[i].rx_mode = p.rx_mode /\ priv'[i].multi_macs = p.multi_macs
             /\ Follows(i)'
             /\ \A j \in Slots \ {i} : Owed(j)'
  <2>1. PICK q \in Private :
          /\ priv' = [priv EXCEPT ![i] = q]
          /\ q.rx_mode = p.rx_mode /\ q.multi_macs = p.multi_macs
          /\ starved' \in {starved \cup {i}, starved \ {i}}
          /\ Among(q.feed, filters(q, dev[i].mac))
          /\ i \in starved' \/ q.feed = filters(q, dev[i].mac)
    BY <1>1, <1>5, FeedStartedSound DEF NetInv
  <2>2. priv'[i] = q /\ \A j \in Slots \ {i} : priv'[j] = priv[j] BY <1>2, <2>1
  <2>3. \A j \in Slots \ {i} : Owed(j)'
    <3> SUFFICES ASSUME NEW j \in Slots \ {i} PROVE Owed(j)'
      OBVIOUS
    <3>1. /\ Owed(j) /\ dev'[j] = dev[j] /\ priv'[j] = priv[j]
          /\ j \in starved <=> j \in starved'
      BY <1>1, <1>2, <2>1, <2>2
    <3> QED BY <1>4, <3>1, OwedElsewhere
  <2>4. Follows(i)'
    <3>1. priv'[i] = q /\ dev'[i] = dev[i] BY <1>2, <2>2
    <3> QED BY <2>1, <3>1 DEF Follows
  <2> QED BY <2>1, <2>2, <2>3, <2>4
<1>6. CASE WorkSetMulticastList(i)
  <2> DEFINE p == mode_set(priv[i], dev[i])
  <2>1. /\ p \in Private /\ Len(p.multi_macs) <= MaxMulti /\ p.rx_mode = mode_of(dev[i])
        /\ mode_of(dev[i]) = "MULTI" => p.multi_macs = shortened(dev[i].mc_list)
    BY <1>1, <1>2, PrivSound, ModeSetTyped, ModeSetFollows
  <2>2. feed_started(i, p) BY <1>6 DEF WorkSetMulticastList
  <2> HIDE DEF p
  <2>3. ModeFollows(i)' BY <1>2, <1>5, <2>1, <2>2 DEF ModeFollows
  <2>4. Owed(i)' BY <1>5, <2>1, <2>2, <2>3 DEF Owed
  <2> QED BY <1>3, <1>5, <2>1, <2>2, <2>4 DEF FollowInv
<1>8. CASE WorkRestart(i) /\ up(i)
  <2>1. feed_started(i, priv[i]) BY <1>8 DEF WorkRestart, Restarted
  <2>2. priv[i] \in Private /\ Len(priv[i].multi_macs) <= MaxMulti BY <1>1, PrivSound
  <2>3. ModeFollows(i) => ModeFollows(i)' BY <1>2, <1>5, <2>1, <2>2 DEF ModeFollows
  <2>4. <<"multicast", i>> \in Queued' \/ ModeFollows(i)
    <3>1. Head(work) = <<"restart", i>> BY <1>8 DEF WorkRestart, first
    <3>2. <<"multicast", i>> # <<"restart", i>> OBVIOUS
    <3>3. <<"multicast", i>> \in Queued \/ ModeFollows(i) BY <1>1, <1>8 DEF Owed
    <3> QED BY <1>3, <3>1, <3>2, <3>3
  <2>5. Owed(i)' BY <1>5, <2>1, <2>2, <2>3, <2>4 DEF Owed
  <2> QED BY <1>3, <1>5, <2>1, <2>2, <2>5 DEF FollowInv
<1>7. CASE WorkRestart(i) /\ ~up(i)
  <2>1. priv' = priv /\ starved' = starved BY <1>7 DEF WorkRestart
  <2>2. Owed(i)' BY <1>2, <1>7 DEF Owed, up
  <2>3. \A j \in Slots \ {i} : Owed(j)' BY <1>1, <1>2, <1>4, <2>1, OwedElsewhere
  <2> QED BY <1>3, <2>2, <2>3 DEF FollowInv
<1> QED BY <1>6, <1>7, <1>8

LEMMA FollowStep == FollowInv /\ [Next]_vars => FollowInv'
<1> SUFFICES ASSUME FollowInv, [Next]_vars PROVE FollowInv'
  OBVIOUS
<1>1. NetInv' BY NetInvStep DEF FollowInv
<1>2. CASE UNCHANGED vars
  BY <1>1, <1>2 DEF vars, FollowInv, Owed, up, ModeFollows, Follows, Queued
<1>3. CASE Next
  BY <1>1, <1>3, FollowCall, FollowRequest, FollowWork DEF Next
<1> QED BY <1>2, <1>3

(* Once the work of an open interface is done, its filters are those it      *)
(* wants by now, but for those the demux refused.                            *)
THEOREM FiltersAlwaysFollow == Spec => []FiltersFollow
<1>1. FollowInv => FiltersFollow
  <2> DEFINE wanted(i) == filters(mode_set(priv[i], dev[i]), dev[i].mac)
  <2> SUFFICES ASSUME FollowInv, NEW i \in Slots, up(i),
                      \A n \in DOMAIN work : work[n][2] # i
               PROVE  /\ Among(priv[i].feed, wanted(i))
                      /\ i \in starved \/ priv[i].feed = wanted(i)
    BY DEF FiltersFollow
  <2>1. <<"multicast", i>> \notin Queued /\ <<"restart", i>> \notin Queued
    BY DEF Queued, ToSet
  <2>2. ModeFollows(i) /\ Follows(i) BY <2>1 DEF FollowInv, Owed
  <2>3. priv[i] \in Private BY DEF FollowInv, NetInv, NetTyped
  <2> DEFINE q == mode_set(priv[i], dev[i])
  <2>4. /\ q.rx_mode = priv[i].rx_mode
        /\ q.rx_mode = "MULTI" => q.multi_macs = priv[i].multi_macs
    BY <2>2, <2>3, ModeSetFollows DEF ModeFollows
  <2> HIDE DEF q
  <2>5. filters(q, dev[i].mac) = filters(priv[i], dev[i].mac) BY <2>4 DEF filters
  <2> QED BY <2>2, <2>5 DEF q, Follows
<1> QED BY <1>1, FollowInit, FollowStep, PTL DEF Spec
=============================================================================
