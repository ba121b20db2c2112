---------------------------- MODULE DmxDev_proofs ----------------------------
(***************************************************************************)
(* Proofs about the demux device files (DmxDev) for any number of filters, *)
(* feeds and pids.  The invariants are predicates on worlds, so that they  *)
(* can be followed through the steps inside an ioctl.                      *)
(*                                                                         *)
(* Orderly is kept as long as no signal interrupts a call, the driver      *)
(* starts what it is asked to start, and no timer expires inside an ioctl  *)
(* (Calm): between the stop and the restart of a shared feed p, the        *)
(* filters on p wait.  Tame is kept whatever happens, and gives the types  *)
(* and the end of the timers.                                              *)
(***************************************************************************)
EXTENDS DmxDev

Worlds == [d : Demux, fil : [Devs -> DevFilter], priv : [Filters -> Devs \cup {NoDev}],
           tspriv : [Feeds -> Devs \cup {NoDev}], dead : {"no", "oops", "hung"}]

Runs(x) == x.state \in Running

(* What a filter says of itself, whatever the demux does *)
Consistent(x) ==
  /\ x.timer => x.state = "GO" /\ x.timeout /\ x.type = "SEC"
  /\ x.file <=> x.state # "FREE"
  /\ x.state \in Armed => x.type # "NONE"
  /\ x.type = "SEC" \/ Runs(x) => x.pid \in Pids
  /\ x.type = "PES" => x.pid \in Pids \cup {BadPid}

(* A running filter and its feed know each other, and the feed runs unless  *)
(* it is the one that waits.                                                *)
Fed(w, k, p) ==
  LET x == w.fil[k]  f == w.d.feed[x.feed] IN
  /\ x.feed \in Feeds /\ x.feed \in w.d.list /\ f.state # "FREE" /\ f.pid = x.pid
  /\ x.feed # p => f.filtering
  /\ IF x.type = "SEC"
     THEN f.type = "SEC" /\ x.sec \in f.chain /\ w.priv[x.sec] = k
     ELSE f.type = "TS" /\ w.tspriv[x.feed] = k

(* Every other feed in use has a running filter. *)
Owned(w, p) ==
  \A f \in Feeds \ {p} : w.d.feed[f].state # "FREE" =>
    \E k \in Devs : Runs(w.fil[k]) /\ w.fil[k].feed = f

(* Every section filter in use belongs to a running filter. *)
ChainsOwned(w) ==
  \A f \in Feeds : w.d.feed[f].state # "FREE" /\ w.d.feed[f].type = "SEC" =>
    \A i \in w.d.feed[f].chain :
      /\ w.priv[i] \in Devs
      /\ LET x == w.fil[w.priv[i]] IN
         Runs(x) /\ x.type = "SEC" /\ x.sec = i /\ x.feed = f

(* Running section filters of one pid share a feed. *)
PidsShared(w) ==
  \A j, k \in Devs :
    LET x == w.fil[j]  y == w.fil[k] IN
    Runs(x) /\ Runs(y) /\ x.type = "SEC" /\ y.type = "SEC" /\ x.pid = y.pid
      => x.feed = y.feed

Orderly(w, p) ==
  /\ w \in Worlds /\ w.dead = "no" /\ Sound(w.d)
  /\ \A k \in Devs : Consistent(w.fil[k])
  /\ \A k \in Devs : Runs(w.fil[k]) => Fed(w, k, p)
  /\ Owned(w, p) /\ ChainsOwned(w) /\ PidsShared(w)

(* Only a running filter has data, all for its own pid. *)
Fresh(x) == x.buf \subseteq {x.pid} /\ (x.buf # {} => Runs(x))

(* The inductive invariant: between two calls no feed waits. *)
IInv == Orderly(World, NoFeed) /\ \A k \in Devs : Fresh(fil[k])

-----------------------------------------------------------------------------
(* Worlds *)

LEMMA WorldSet ==
  ASSUME NEW w \in Worlds, NEW k \in Devs, NEW x \in DevFilter
  PROVE  /\ Set(w, k, x) \in Worlds
         /\ Set(w, k, x).d = w.d /\ Set(w, k, x).priv = w.priv
         /\ Set(w, k, x).tspriv = w.tspriv /\ Set(w, k, x).dead = w.dead
         /\ Set(w, k, x).fil[k] = x
         /\ \A j \in Devs \ {k} : Set(w, k, x).fil[j] = w.fil[j]
  BY DEF Set, Worlds

LEMMA WorldWith ==
  ASSUME NEW w \in Worlds, NEW d \in Demux
  PROVE  /\ With(w, d) \in Worlds
         /\ With(w, d).d = d /\ With(w, d).priv = w.priv
         /\ With(w, d).tspriv = w.tspriv /\ With(w, d).dead = w.dead
         /\ With(w, d).fil = w.fil
  BY DEF With, Worlds

(* Two filters that have the same place in the demux *)
SamePlace(x, y) == /\ Runs(y) <=> Runs(x)
                   /\ Runs(x) => /\ y.type = x.type /\ y.pid = x.pid
                                  /\ y.feed = x.feed /\ y.sec = x.sec

LEMMA Alike ==
  ASSUME NEW w, NEW p, Orderly(w, p), NEW v \in Worlds,
         v.d = w.d, v.priv = w.priv, v.tspriv = w.tspriv, v.dead = w.dead,
         \A j \in Devs : Consistent(v.fil[j]) /\ SamePlace(w.fil[j], v.fil[j])
  PROVE  Orderly(v, p)
<1> USE DEF Orderly, SamePlace
<1>1. \A j \in Devs : Runs(v.fil[j]) => Fed(v, j, p)
  BY SMTT(40) DEF Fed
<1>2. Owned(v, p)
  BY DEF Owned
<1>3. ChainsOwned(v)
  BY DEF ChainsOwned
<1>4. PidsShared(v)
  BY DEF PidsShared
<1> QED BY <1>1, <1>2, <1>3, <1>4

(* What moves a filter neither into nor out of the demux keeps order. *)
LEMMA Rewrite ==
  ASSUME NEW w, NEW p, Orderly(w, p), NEW k \in Devs, NEW y \in DevFilter,
         Consistent(y), SamePlace(w.fil[k], y)
  PROVE  Orderly(Set(w, k, y), p)
<1> DEFINE v == Set(w, k, y)
<1>1. w \in Worlds /\ \A j \in Devs : Consistent(w.fil[j])
  BY DEF Orderly
<1>2. /\ v \in Worlds /\ v.d = w.d /\ v.priv = w.priv /\ v.tspriv = w.tspriv
      /\ v.dead = w.dead /\ v.fil[k] = y /\ \A j \in Devs \ {k} : v.fil[j] = w.fil[j]
  BY <1>1, WorldSet
<1> HIDE DEF v
<1>3. \A j \in Devs : Consistent(v.fil[j]) /\ SamePlace(w.fil[j], v.fil[j])
  BY <1>1, <1>2 DEF SamePlace
<1>4. Orderly(v, p)
  BY <1>2, <1>3, Alike
<1> QED BY <1>4 DEF v

(* y says of itself what x says. *)
Alias(x, y) == /\ y.state = x.state /\ y.type = x.type /\ y.pid = x.pid
               /\ y.timer = x.timer /\ y.timeout = x.timeout /\ y.file = x.file

(* What an ioctl on filter k leaves alone of the others, and of k itself *)
Meanwhile(w, v, k) ==
  \A j \in Devs \ {k} : /\ Runs(v.fil[j]) <=> Runs(w.fil[j])
                        /\ v.fil[j].pid = w.fil[j].pid /\ v.fil[j].buf = w.fil[j].buf
Keeps(x, y) == /\ y.type = x.type /\ y.pid = x.pid /\ y.file = x.file
               /\ y.state \in Armed <=> x.state \in Armed

LEMMA SameSelf ==
  ASSUME NEW x, NEW y, Consistent(x), Alias(x, y)
  PROVE  /\ Consistent(y) /\ Keeps(x, y) /\ (Runs(y) <=> Runs(x))
         /\ ~Runs(x) \/ (y.feed = x.feed /\ y.sec = x.sec) => SamePlace(x, y)
  BY DEF Consistent, Alias, Keeps, Runs, SamePlace

(* A filter on another feed than the one that changes *)
LEMMA FedElsewhere ==
  ASSUME NEW w, NEW v, NEW f, NEW p, NEW q, NEW j, Fed(w, j, p), v.fil[j] = w.fil[j],
         OnlyFeed(w.d, v.d, f), w.fil[j].feed # f, w.fil[j].feed # p,
         v.tspriv[w.fil[j].feed] = w.tspriv[w.fil[j].feed],
         w.fil[j].type = "SEC" => v.priv[w.fil[j].sec] = w.priv[w.fil[j].sec]
  PROVE  Fed(v, j, q)
<1> DEFINE g == w.fil[j].feed
<1>1. v.d.feed[g] = w.d.feed[g] /\ (g \in v.d.list <=> g \in w.d.list)
  BY DEF Fed, OnlyFeed
<1> QED BY <1>1 DEF Fed

-----------------------------------------------------------------------------
(* One feed changes, for all its filters at once. *)

LEMMA OtherFeeds ==
  ASSUME NEW w, NEW p, Orderly(w, p), NEW f \in Feeds, p \in {f, NoFeed},
         NEW e, Sound(e), OnlyFeed(w.d, e, f), SameFeed(w.d.feed[f], e.feed[f]),
         f \in e.list <=> f \in w.d.list,
         w.d.feed[f].state # "FREE", e.feed[f].state # "FREE"
  PROVE  /\ \A k \in Devs : Runs(w.fil[k]) => Fed(With(w, e), k, f)
         /\ Owned(With(w, e), f) /\ ChainsOwned(With(w, e)) /\ PidsShared(With(w, e))
<1> DEFINE v == With(w, e)
<1>0. w \in Worlds /\ e \in Demux
  BY DEF Orderly, Sound
<1>1. v.d = e /\ v.fil = w.fil /\ v.priv = w.priv /\ v.tspriv = w.tspriv
  BY <1>0, WorldWith
<1> HIDE DEF v
<1>2. ASSUME NEW k \in Devs, Runs(w.fil[k])  PROVE Fed(v, k, f)
  <2>1. Fed(w, k, p)
    BY <1>2 DEF Orderly
  <2>2. CASE w.fil[k].feed = f
    BY <1>1, <2>1, <2>2 DEF Fed, SameFeed
  <2>3. CASE w.fil[k].feed # f
    <3>1. w.fil[k].feed # p
      BY <2>1, <2>3, DemuxAssumption DEF Fed
    <3> QED BY <1>1, <2>1, <2>3, <3>1, SMTT(40) DEF Fed, OnlyFeed
  <2> QED BY <2>2, <2>3
<1>3. Owned(v, f)
  BY <1>1, DemuxAssumption DEF Orderly, Owned, OnlyFeed
<1>4. ChainsOwned(v)
  BY <1>1 DEF Orderly, ChainsOwned, OnlyFeed, SameFeed
<1>5. PidsShared(v)
  BY <1>1 DEF Orderly, PidsShared
<1> QED BY <1>2, <1>3, <1>4, <1>5 DEF v

(* The filters on f wait. *)
LEMMA Pause ==
  ASSUME NEW w, NEW p, Orderly(w, p), NEW f \in Feeds, p \in {f, NoFeed},
         NEW e, Sound(e), OnlyFeed(w.d, e, f), SameFeed(w.d.feed[f], e.feed[f]),
         f \in e.list <=> f \in w.d.list,
         w.d.feed[f].state # "FREE", e.feed[f].state # "FREE"
  PROVE  Orderly(With(w, e), f)
<1>1. /\ w \in Worlds /\ e \in Demux /\ With(w, e) \in Worlds
      /\ With(w, e).d = e /\ With(w, e).fil = w.fil /\ With(w, e).dead = w.dead
  BY WorldWith DEF Orderly, Sound
<1> QED BY <1>1, OtherFeeds DEF Orderly

(* They go on. *)
LEMMA Resume ==
  ASSUME NEW w, NEW f \in Feeds, Orderly(w, f),
         NEW e, Sound(e), OnlyFeed(w.d, e, f), SameFeed(w.d.feed[f], e.feed[f]),
         f \in e.list <=> f \in w.d.list,
         w.d.feed[f].state # "FREE", e.feed[f].state # "FREE", e.feed[f].filtering,
         NEW j \in Devs, Runs(w.fil[j]), w.fil[j].feed = f
  PROVE  Orderly(With(w, e), NoFeed)
<1>1. /\ w \in Worlds /\ e \in Demux /\ With(w, e) \in Worlds
      /\ With(w, e).d = e /\ With(w, e).fil = w.fil /\ With(w, e).dead = w.dead
  BY WorldWith DEF Orderly, Sound
<1>2. /\ \A k \in Devs : Runs(w.fil[k]) => Fed(With(w, e), k, f)
      /\ Owned(With(w, e), f) /\ ChainsOwned(With(w, e)) /\ PidsShared(With(w, e))
  BY OtherFeeds
<1>3. \A k \in Devs : Runs(w.fil[k]) => Fed(With(w, e), k, NoFeed)
  BY <1>1, <1>2 DEF Fed
<1>4. Owned(With(w, e), NoFeed)
  BY <1>1, <1>2 DEF Owned
<1> QED BY <1>1, <1>2, <1>3, <1>4 DEF Orderly

(* A feed nobody waits for is given back. *)
LEMMA GiveBack ==
  ASSUME NEW w, NEW f \in Feeds, Orderly(w, f),
         NEW e, Sound(e), OnlyFeed(w.d, e, f), e.feed[f].state = "FREE",
         \A j \in Devs : Runs(w.fil[j]) => w.fil[j].feed # f
  PROVE  Orderly(With(w, e), NoFeed)
<1>1. /\ w \in Worlds /\ e \in Demux /\ With(w, e) \in Worlds
      /\ With(w, e).d = e /\ With(w, e).fil = w.fil /\ With(w, e).dead = w.dead
      /\ With(w, e).priv = w.priv /\ With(w, e).tspriv = w.tspriv
  BY WorldWith DEF Orderly, Sound
<1>2. \A k \in Devs : Runs(w.fil[k]) => Fed(With(w, e), k, NoFeed)
  BY <1>1, SMTT(40) DEF Orderly, Fed, OnlyFeed
<1>3. Owned(With(w, e), NoFeed)
  BY <1>1, DemuxAssumption DEF Orderly, Owned, OnlyFeed
<1>4. ChainsOwned(With(w, e))
  BY <1>1 DEF Orderly, ChainsOwned, OnlyFeed
<1>5. PidsShared(With(w, e))
  BY <1>1 DEF Orderly, PidsShared
<1> QED BY <1>1, <1>2, <1>3, <1>4, <1>5 DEF Orderly

-----------------------------------------------------------------------------
(* Stopping a filter *)

Calm == ~Signals /\ ~HwMayFail /\ ~TimerRaces

(* Feed p waits for filter k: it is set to k's pid, which no filter that    *)
(* runs on another feed has.                                                *)
WaitsFor(w, p, k) ==
  /\ p \in Feeds /\ ~Runs(w.fil[k]) /\ w.fil[k].feed = p
  /\ p \in w.d.list /\ ~w.d.feed[p].filtering
  /\ w.d.feed[p].state # "FREE" /\ w.d.feed[p].type = "SEC"
  /\ w.d.feed[p].pid = w.fil[k].pid
  /\ \A j \in Devs :
       Runs(w.fil[j]) /\ w.fil[j].type = "SEC" /\ w.fil[j].pid = w.fil[k].pid
         => w.fil[j].feed = p

LEMMA StoppedFilter ==
  ASSUME NEW x \in DevFilter, Consistent(x), Runs(x)
  PROVE  LET y == del_timer([x EXCEPT !.state = "SET"]) IN
         /\ y \in DevFilter /\ Consistent(y) /\ ~Runs(y) /\ Keeps(x, y)
         /\ y.feed = x.feed /\ y.sec = x.sec /\ y.pid = x.pid
<1> DEFINE y == del_timer([x EXCEPT !.state = "SET"])
<1>1. /\ y \in DevFilter /\ y.state = "SET" /\ ~y.timer /\ y.type = x.type
      /\ y.feed = x.feed /\ y.sec = x.sec /\ y.pid = x.pid /\ y.file = x.file
  BY DEF del_timer, DevFilter, Armed
<1> HIDE DEF y
<1>2. Consistent(y) /\ ~Runs(y) /\ Keeps(x, y)
  BY <1>1 DEF Consistent, Runs, Keeps, Armed, Running
<1> QED BY <1>1, <1>2 DEF y

LEMMA StopSection ==
  ASSUME Calm, NEW w, Orderly(w, NoFeed), NEW k \in Devs,
         Runs(w.fil[k]), w.fil[k].type = "SEC",
         NEW s \in feed_stop(w, k), NEW v \in release_filter(s, k)
  PROVE  /\ Orderly(v, w.fil[k].feed) /\ WaitsFor(v, w.fil[k].feed, k)
         /\ Keeps(w.fil[k], v.fil[k]) /\ Meanwhile(w, v, k)
<1> DEFINE x == w.fil[k]
           f == x.feed
           y == del_timer([x EXCEPT !.state = "SET"])
<1>1. w \in Worlds /\ w.d \in Demux /\ Sound(w.d) /\ x \in DevFilter /\ w.dead = "no"
  BY DEF Orderly, Sound, Worlds
<1>0. /\ \A j \in Devs : Consistent(w.fil[j]) /\ (Runs(w.fil[j]) => Fed(w, j, NoFeed))
      /\ Owned(w, NoFeed) /\ ChainsOwned(w) /\ PidsShared(w)
  BY DEF Orderly
<1>2. /\ f \in Feeds /\ f \in w.d.list /\ w.d.feed[f].state # "FREE"
      /\ w.d.feed[f].pid = x.pid /\ w.d.feed[f].type = "SEC"
      /\ x.sec \in w.d.feed[f].chain /\ w.priv[x.sec] = k
  BY <1>0 DEF Fed
<1>3. PICK r \in section_feed_stop_filtering(w.d, f) : s = Set(With(w, r.d), k, y)
  BY DEF feed_stop, Window, Calm
<1>4. /\ y \in DevFilter /\ Consistent(y) /\ ~Runs(y) /\ Keeps(x, y)
      /\ y.feed = f /\ y.sec = x.sec /\ y.pid = x.pid
  BY <1>0, <1>1, StoppedFilter
<1>5. /\ Sound(r.d) /\ OnlyFeed(w.d, r.d, f) /\ f \in r.d.list
      /\ SameFeed(w.d.feed[f], r.d.feed[f])
      /\ r.d.feed[f].state = "READY" /\ ~r.d.feed[f].filtering
  BY <1>1, <1>2, SectionStopEffect DEF Calm
<1>6. r.d \in Demux
  BY <1>5 DEF Sound
<1>a. x = w.fil[k] /\ f = x.feed /\ Runs(x) /\ x.type = "SEC"
  OBVIOUS
<1> HIDE DEF x, f, y
<1> DEFINE u == With(w, r.d)
<1>7. /\ u \in Worlds /\ u.d = r.d /\ u.fil = w.fil /\ u.priv = w.priv
      /\ u.tspriv = w.tspriv /\ u.dead = w.dead
  BY <1>1, <1>6, WorldWith
<1> HIDE DEF u
<1>8. /\ s \in Worlds /\ s.d = r.d /\ s.priv = w.priv /\ s.tspriv = w.tspriv /\ s.dead = "no"
      /\ s.fil[k] = y /\ \A j \in Devs \ {k} : s.fil[j] = w.fil[j]
  <2>1. s = Set(u, k, y)
    BY <1>3 DEF u
  <2>2. /\ Set(u, k, y) \in Worlds
        /\ Set(u, k, y).d = u.d /\ Set(u, k, y).priv = u.priv
        /\ Set(u, k, y).tspriv = u.tspriv /\ Set(u, k, y).dead = u.dead
        /\ Set(u, k, y).fil[k] = y
        /\ \A j \in Devs \ {k} : Set(u, k, y).fil[j] = u.fil[j]
    BY <1>4, <1>7, WorldSet
  <2> QED BY <1>1, <1>7, <2>1, <2>2
<1>9. PICK q \in section_feed_release_filter(r.d, f, x.sec) :
        v = [With(s, q.d) EXCEPT !.dead = IF q.ret = "DEADLOCK" THEN "hung" ELSE @]
  <2>1. x.sec # NoFilter
    BY <1>1, <1>2, DmxDevAssumption DEF Demux, Feed
  <2> QED BY <1>4, <1>8, <2>1 DEF release_filter
<1>b. q \in section_feed_release_filter(r.d, f, x.sec)
  BY <1>9
<1>10. /\ q.ret = "ok" /\ Sound(q.d) /\ OnlyFeed(r.d, q.d, f) /\ f \in q.d.list
       /\ Relinked(r.d.feed[f], q.d.feed[f], r.d.feed[f].chain \ {x.sec})
  <2>1. x.sec \in r.d.feed[f].chain /\ r.d.feed[f].state # "FREE"
    BY <1>2, <1>5 DEF SameFeed
  <2> QED BY <1>2, <1>5, <1>b, <2>1, ReleaseFilterEffect DEF Calm
<1>11. q.d \in Demux /\ With(s, q.d) \in Worlds
  BY <1>8, <1>10, WorldWith DEF Sound
<1>12. /\ v \in Worlds /\ v.d = q.d /\ v.priv = w.priv /\ v.tspriv = w.tspriv /\ v.dead = "no"
       /\ v.fil[k] = y /\ \A j \in Devs \ {k} : v.fil[j] = w.fil[j]
  <2>1. /\ v \in Worlds /\ v.d = With(s, q.d).d /\ v.priv = With(s, q.d).priv
        /\ v.tspriv = With(s, q.d).tspriv /\ v.dead = With(s, q.d).dead
        /\ v.fil = With(s, q.d).fil
    BY <1>9, <1>10, <1>11 DEF Worlds
  <2> QED BY <1>8, <1>11, <2>1, WorldWith
<1>13. /\ OnlyFeed(w.d, v.d, f)
       /\ v.d.feed[f].state = "READY" /\ ~v.d.feed[f].filtering
       /\ v.d.feed[f].type = "SEC" /\ v.d.feed[f].pid = x.pid
       /\ v.d.feed[f].chain = w.d.feed[f].chain \ {x.sec} /\ f \in v.d.list
  <2>1. OnlyFeed(w.d, v.d, f)
    BY <1>5, <1>10, <1>12 DEF OnlyFeed
  <2> QED BY <1>2, <1>5, <1>10, <1>12, <2>1 DEF SameFeed, Relinked
<1>14. ASSUME NEW j \in Devs, Runs(v.fil[j])  PROVE Fed(v, j, f)
  <2>1. j # k /\ v.fil[j] = w.fil[j] /\ Fed(w, j, NoFeed)
    BY <1>0, <1>4, <1>12, <1>14
  <2>2. w.fil[j].type = "SEC" => w.fil[j].sec # x.sec
    BY <1>2, <2>1 DEF Fed
  <2>3. CASE w.fil[j].feed = f
    BY <1>2, <1>12, <1>13, <2>1, <2>2, <2>3 DEF Fed
  <2>4. CASE w.fil[j].feed # f
    <3>1. w.fil[j].feed # NoFeed
      BY <2>1, DemuxAssumption DEF Fed
    <3> QED BY <1>12, <1>13, <2>1, <2>4, <3>1, FedElsewhere
  <2> QED BY <2>3, <2>4
<1>15. Owned(v, f)
  <2> SUFFICES ASSUME NEW g \in Feeds \ {f}, v.d.feed[g].state # "FREE"
               PROVE  \E j \in Devs : Runs(v.fil[j]) /\ v.fil[j].feed = g
    BY DEF Owned
  <2>1. w.d.feed[g].state # "FREE" /\ g # NoFeed
    BY <1>13, DemuxAssumption DEF OnlyFeed
  <2>2. PICK j \in Devs : Runs(w.fil[j]) /\ w.fil[j].feed = g
    BY <1>0, <2>1 DEF Owned
  <2> QED BY <1>a, <1>12, <2>2
<1>16. ChainsOwned(v)
  <2> SUFFICES ASSUME NEW g \in Feeds, v.d.feed[g].state # "FREE", v.d.feed[g].type = "SEC",
                      NEW i \in v.d.feed[g].chain
               PROVE  /\ v.priv[i] \in Devs
                      /\ Runs(v.fil[v.priv[i]]) /\ v.fil[v.priv[i]].type = "SEC"
                      /\ v.fil[v.priv[i]].sec = i /\ v.fil[v.priv[i]].feed = g
    BY DEF ChainsOwned
  <2>1. w.d.feed[g].state # "FREE" /\ w.d.feed[g].type = "SEC" /\ i \in w.d.feed[g].chain
    BY <1>2, <1>13 DEF OnlyFeed
  <2>2. /\ w.priv[i] \in Devs /\ Runs(w.fil[w.priv[i]]) /\ w.fil[w.priv[i]].type = "SEC"
        /\ w.fil[w.priv[i]].sec = i /\ w.fil[w.priv[i]].feed = g
    BY <1>0, <2>1 DEF ChainsOwned
  <2>3. w.priv[i] # k
    BY <1>a, <1>13, <2>1, <2>2
  <2> QED BY <1>12, <2>2, <2>3
<1>17. PidsShared(v)
  <2>1. \A j \in Devs : Runs(v.fil[j]) => j # k
    BY <1>4, <1>12
  <2> QED BY <1>0, <1>12, <2>1 DEF PidsShared
<1>18. \A j \in Devs : Consistent(v.fil[j])
  BY <1>0, <1>4, <1>12
<1>19. Orderly(v, f)
  BY <1>10, <1>12, <1>14, <1>15, <1>16, <1>17, <1>18 DEF Orderly
<1>20. WaitsFor(v, f, k)
  <2>1. ASSUME NEW j \in Devs, Runs(v.fil[j]), v.fil[j].type = "SEC", v.fil[j].pid = x.pid
        PROVE  v.fil[j].feed = f
    <3>1. j # k /\ v.fil[j] = w.fil[j]
      BY <1>4, <1>12, <2>1
    <3> QED BY <1>0, <1>a, <2>1, <3>1 DEF PidsShared
  <2> QED BY <1>2, <1>4, <1>12, <1>13, <2>1 DEF WaitsFor
<1>21. Keeps(x, v.fil[k]) /\ Meanwhile(w, v, k)
  BY <1>4, <1>12 DEF Meanwhile
<1> QED BY <1>19, <1>20, <1>21 DEF x, f

(* The feed that waited for k goes on for another filter, or is given back; *)
(* starting it once more then does nothing.                                 *)
LEMMA Restart ==
  ASSUME Calm, NEW w, NEW p, Orderly(w, p), NEW k \in Devs, WaitsFor(w, p, k),
         NEW v \in feed_restart(w, k)
  PROVE  /\ Orderly(v, NoFeed) /\ v.fil[k] = w.fil[k] /\ Meanwhile(w, v, k)
         /\ v.d.feed[p].filtering \/ v.d.feed[p].chain = {}
<1> DEFINE S == {j \in Devs : /\ w.fil[j].state \in Running
                             /\ w.fil[j].type = "SEC"
                             /\ w.fil[j].pid = w.fil[k].pid}
<1>1. w \in Worlds /\ w.d \in Demux /\ Sound(w.d)
  BY DEF Orderly, Sound
<1>2. /\ \A j \in Devs : Consistent(w.fil[j]) /\ (Runs(w.fil[j]) => Fed(w, j, p))
      /\ Owned(w, p) /\ ChainsOwned(w) /\ PidsShared(w)
  BY DEF Orderly
<1>3. /\ p \in Feeds /\ ~Runs(w.fil[k]) /\ w.fil[k].feed = p
      /\ p \in w.d.list /\ ~w.d.feed[p].filtering
      /\ w.d.feed[p].state # "FREE" /\ w.d.feed[p].type = "SEC"
      /\ w.d.feed[p].pid = w.fil[k].pid
      /\ \A j \in S : w.fil[j].feed = p
  BY DEF WaitsFor, Runs
<1>4. \A j \in Devs : Runs(w.fil[j]) /\ w.fil[j].feed = p => j \in S
  BY <1>2, <1>3, SMTT(40) DEF Fed, Runs
<1>5. CASE sharer(w, w.fil[k].pid) # {}
  <2>1. v \in UNION {feed_start(w, j) : j \in sharer(w, w.fil[k].pid)}
    BY <1>5 DEF feed_restart
  <2>2. PICK j \in S : v \in feed_start(w, j)
    BY <2>1 DEF sharer, First
  <2> DEFINE x == [w.fil[j] EXCEPT !.state = "GO"]
  <2>3. /\ j \in Devs /\ Runs(w.fil[j]) /\ w.fil[j].type = "SEC" /\ w.fil[j].feed = p
        /\ w.fil[j] \in DevFilter /\ Consistent(w.fil[j]) /\ j # k
    BY <1>1, <1>2, <1>3 DEF Worlds, Runs
  <2>4. /\ x \in DevFilter /\ Consistent(x) /\ Runs(x) /\ SamePlace(w.fil[j], x)
        /\ x.feed = p /\ x.type = "SEC" /\ x.buf = w.fil[j].buf
    BY <2>3 DEF DevFilter, Consistent, Runs, Running, Armed, SamePlace
  <2>5. PICK r \in section_feed_start_filtering(w.d, p) : v = Set(With(w, r.d), j, x)
    BY <1>3, <2>2, <2>4, DemuxAssumption DEF feed_start
  <2> HIDE DEF x
  <2>6. w.d.feed[p].chain # {}
    BY <1>2, <2>3 DEF Fed
  <2>7. /\ Sound(r.d) /\ OnlyFeed(w.d, r.d, p) /\ p \in r.d.list
        /\ SameFeed(w.d.feed[p], r.d.feed[p])
        /\ r.d.feed[p].state = "GO" /\ r.d.feed[p].filtering
    BY <1>1, <1>3, <2>6, SectionStartEffect DEF Calm
  <2> DEFINE u == With(w, r.d)
  <2>8. Orderly(u, NoFeed)
    BY <1>3, <2>3, <2>7, Resume
  <2>9. u \in Worlds /\ u.d = r.d /\ u.fil = w.fil
    BY <1>1, <2>7, WorldWith DEF Sound
  <2>10. v = Set(u, j, x)
    BY <2>5
  <2> HIDE DEF u
  <2>11. Orderly(v, NoFeed)
    BY <2>3, <2>4, <2>8, <2>9, <2>10, Rewrite
  <2>12. /\ Set(u, j, x).d = u.d /\ Set(u, j, x).fil[j] = x
         /\ \A i \in Devs \ {j} : Set(u, j, x).fil[i] = u.fil[i]
    BY <2>3, <2>4, <2>9, WorldSet, SMTT(40)
  <2>13. v.fil[k] = w.fil[k] /\ Meanwhile(w, v, k)
    BY <2>3, <2>4, <2>9, <2>10, <2>12 DEF Meanwhile, SamePlace
  <2> QED BY <2>7, <2>9, <2>10, <2>11, <2>12, <2>13
<1>6. CASE sharer(w, w.fil[k].pid) = {}
  <2>1. S = {}
    <3>1. sharer(w, w.fil[k].pid) = First(S) /\ S \subseteq Nat
      BY DEF sharer, Devs
    <3> QED BY <1>6, <3>1, FirstExists
  <2>2. \A j \in Devs : Runs(w.fil[j]) => w.fil[j].feed # p
    BY <1>4, <2>1
  <2>3. w.d.feed[p].chain = {}
    BY <1>2, <1>3, <2>2 DEF ChainsOwned
  <2>4. PICK r \in release_section_feed(w.d, p) : v = With(w, r.d)
    BY <1>3, <1>6 DEF feed_restart
  <2>5. /\ Sound(r.d) /\ OnlyFeed(w.d, r.d, p) /\ r.d.feed[p].state = "FREE"
        /\ r.d.feed[p].chain = {}
    BY <1>1, <1>3, <2>3, ReleaseSectionEffect DEF Calm
  <2>6. Orderly(v, NoFeed)
    BY <1>3, <2>2, <2>4, <2>5, GiveBack
  <2>7. v.d = r.d /\ v.fil = w.fil
    BY <1>1, <2>4, <2>5, WorldWith DEF Sound
  <2> QED BY <2>5, <2>6, <2>7 DEF Meanwhile
<1> QED BY <1>5, <1>6

(* A PES filter stops, and its feed is given back. *)
LEMMA StopPes ==
  ASSUME Calm, NEW w, Orderly(w, NoFeed), NEW k \in Devs,
         Runs(w.fil[k]), w.fil[k].type # "SEC",
         NEW s \in feed_stop(w, k), NEW v \in release_ts(s, k)
  PROVE  /\ Orderly(v, NoFeed) /\ ~Runs(v.fil[k])
         /\ Keeps(w.fil[k], v.fil[k]) /\ Meanwhile(w, v, k)
<1> DEFINE x == w.fil[k]
           f == x.feed
           y == [x EXCEPT !.state = "SET"]
<1>1. w \in Worlds /\ w.d \in Demux /\ Sound(w.d) /\ x \in DevFilter /\ w.dead = "no"
  BY DEF Orderly, Sound, Worlds
<1>2. /\ \A j \in Devs : Consistent(w.fil[j]) /\ (Runs(w.fil[j]) => Fed(w, j, NoFeed))
      /\ Owned(w, NoFeed) /\ ChainsOwned(w) /\ PidsShared(w)
  BY DEF Orderly
<1>3. /\ f \in Feeds /\ f \in w.d.list /\ w.d.feed[f].state # "FREE" /\ w.d.feed[f].filtering
      /\ w.d.feed[f].type = "TS" /\ w.tspriv[f] = k
  BY <1>2, DemuxAssumption, SMTT(40) DEF Fed
<1>4. /\ y \in DevFilter /\ Consistent(y) /\ ~Runs(y) /\ Keeps(x, y) /\ y.buf = x.buf
      /\ y.feed = f
  <2>1. x \in DevFilter /\ Consistent(x) /\ Runs(x) /\ x.type # "SEC"
    BY <1>1, <1>2
  <2> HIDE DEF x
  <2>2. /\ y \in DevFilter /\ y.state = "SET" /\ y.timer = x.timer /\ y.type = x.type
        /\ y.pid = x.pid /\ y.file = x.file /\ y.buf = x.buf /\ y.feed = f
    BY <2>1 DEF DevFilter, Armed
  <2> HIDE DEF y
  <2> QED BY <2>1, <2>2 DEF Consistent, Runs, Keeps, Armed, Running
<1>5. PICK r \in ts_feed_stop_filtering(w.d, f) : s = Set(With(w, r.d), k, y)
  BY DEF feed_stop
<1>6. /\ Sound(r.d) /\ OnlyFeed(w.d, r.d, f) /\ f \in r.d.list
      /\ SameFeed(w.d.feed[f], r.d.feed[f])
      /\ r.d.feed[f].state = "ALLOCATED" /\ ~r.d.feed[f].filtering
  <2>1. w.d.feed[f].state = "GO"
    BY <1>1, <1>3 DEF Sound, DriverRunsFiltering
  <2> QED BY <1>1, <1>3, <2>1, TsStopEffect, SMTT(40) DEF Calm
<1>a. x = w.fil[k] /\ f = x.feed /\ Runs(x) /\ x.type # "SEC"
  OBVIOUS
<1> HIDE DEF x, f, y
<1> DEFINE u == With(w, r.d)
<1>7. /\ u \in Worlds /\ u.d = r.d /\ u.fil = w.fil /\ u.priv = w.priv
      /\ u.tspriv = w.tspriv /\ u.dead = w.dead
  BY <1>1, <1>6, WorldWith DEF Sound
<1>8. s = Set(u, k, y)
  BY <1>5
<1> HIDE DEF u
<1>9. /\ Set(u, k, y) \in Worlds
      /\ Set(u, k, y).d = u.d /\ Set(u, k, y).priv = u.priv
      /\ Set(u, k, y).tspriv = u.tspriv /\ Set(u, k, y).dead = u.dead
      /\ Set(u, k, y).fil[k] = y
      /\ \A j \in Devs \ {k} : Set(u, k, y).fil[j] = u.fil[j]
  BY <1>4, <1>7, WorldSet
<1>10. /\ s \in Worlds /\ s.d = r.d /\ s.priv = w.priv /\ s.tspriv = w.tspriv /\ s.dead = "no"
       /\ s.fil[k] = y /\ \A j \in Devs \ {k} : s.fil[j] = w.fil[j]
  BY <1>1, <1>7, <1>8, <1>9
<1>11. PICK q \in release_ts_feed(r.d, f) : v = With(s, q.d)
  BY <1>4, <1>10 DEF release_ts
<1>12. Sound(q.d) /\ OnlyFeed(r.d, q.d, f) /\ q.d.feed[f].state = "FREE"
  <2>1. r.d.feed[f].state # "FREE"
    BY <1>6
  <2> QED BY <1>3, <1>6, <2>1, ReleaseTsEffect DEF Calm
<1>13. /\ v \in Worlds /\ v.d = q.d /\ v.priv = w.priv /\ v.tspriv = w.tspriv /\ v.dead = "no"
       /\ v.fil[k] = y /\ \A j \in Devs \ {k} : v.fil[j] = w.fil[j]
  BY <1>10, <1>11, <1>12, WorldWith DEF Sound
<1>14. OnlyFeed(w.d, v.d, f) /\ v.d.feed[f].state = "FREE"
  BY <1>6, <1>12, <1>13 DEF OnlyFeed
<1>15. ASSUME NEW j \in Devs, Runs(v.fil[j])  PROVE Fed(v, j, NoFeed)
  <2>1. j # k /\ v.fil[j] = w.fil[j] /\ Fed(w, j, NoFeed)
    BY <1>2, <1>4, <1>13, <1>15
  <2>2. w.fil[j].feed # f /\ w.fil[j].feed # NoFeed
    BY <1>3, <2>1, DemuxAssumption DEF Fed
  <2> QED BY <1>13, <1>14, <2>1, <2>2, FedElsewhere
<1>16. Owned(v, NoFeed)
  <2> SUFFICES ASSUME NEW g \in Feeds \ {NoFeed}, v.d.feed[g].state # "FREE"
               PROVE  \E j \in Devs : Runs(v.fil[j]) /\ v.fil[j].feed = g
    BY DEF Owned
  <2>1. g # f /\ w.d.feed[g].state # "FREE"
    BY <1>14 DEF OnlyFeed
  <2>2. PICK j \in Devs : Runs(w.fil[j]) /\ w.fil[j].feed = g
    BY <1>2, <2>1 DEF Owned
  <2> QED BY <1>a, <1>13, <2>1, <2>2
<1>17. ChainsOwned(v)
  <2> SUFFICES ASSUME NEW g \in Feeds, v.d.feed[g].state # "FREE", v.d.feed[g].type = "SEC",
                      NEW i \in v.d.feed[g].chain
               PROVE  /\ v.priv[i] \in Devs
                      /\ Runs(v.fil[v.priv[i]]) /\ v.fil[v.priv[i]].type = "SEC"
                      /\ v.fil[v.priv[i]].sec = i /\ v.fil[v.priv[i]].feed = g
    BY DEF ChainsOwned
  <2>1. w.d.feed[g].state # "FREE" /\ w.d.feed[g].type = "SEC" /\ i \in w.d.feed[g].chain
    BY <1>14 DEF OnlyFeed
  <2>2. /\ w.priv[i] \in Devs /\ Runs(w.fil[w.priv[i]]) /\ w.fil[w.priv[i]].type = "SEC"
        /\ w.fil[w.priv[i]].sec = i /\ w.fil[w.priv[i]].feed = g
    BY <1>2, <2>1 DEF ChainsOwned
  <2> QED BY <1>a, <1>13, <2>2
<1>18. PidsShared(v)
  <2>1. \A j \in Devs : Runs(v.fil[j]) => j # k
    BY <1>4, <1>13
  <2> QED BY <1>2, <1>13, <2>1 DEF PidsShared
<1>19. \A j \in Devs : Consistent(v.fil[j])
  BY <1>2, <1>4, <1>13
<1>20. Orderly(v, NoFeed)
  BY <1>12, <1>13, <1>15, <1>16, <1>17, <1>18, <1>19 DEF Orderly
<1>21. Keeps(x, v.fil[k]) /\ Meanwhile(w, v, k) /\ ~Runs(v.fil[k])
  BY <1>4, <1>13 DEF Meanwhile
<1> QED BY <1>20, <1>21 DEF x

(* The rest of a stop concerns the filter alone. *)
LEMMA Detach ==
  ASSUME NEW w, NEW p, Orderly(w, p), NEW k \in Devs, ~Runs(w.fil[k]),
         NEW v \in detached(w, k)
  PROVE  /\ Orderly(v, p) /\ ~Runs(v.fil[k]) /\ Keeps(w.fil[k], v.fil[k])
         /\ Meanwhile(w, v, k)
<1> DEFINE y == [w.fil[k] EXCEPT !.feed = NoFeed, !.sec = NoFilter]
<1>1. w \in Worlds /\ w.fil[k] \in DevFilter /\ Consistent(w.fil[k])
  BY DEF Orderly, Worlds
<1>a. y \in DevFilter /\ Alias(w.fil[k], y)
  BY <1>1 DEF DevFilter, Alias
<1>3. v = Set(w, k, y)
  BY DEF detached
<1> HIDE DEF y
<1>2. /\ y \in DevFilter /\ Consistent(y) /\ SamePlace(w.fil[k], y) /\ ~Runs(y)
      /\ Keeps(w.fil[k], y)
  BY <1>1, <1>a, SameSelf
<1>4. Orderly(v, p)
  BY <1>2, <1>3, Rewrite
<1>5. Set(w, k, y).fil[k] = y /\ \A j \in Devs \ {k} : Set(w, k, y).fil[j] = w.fil[j]
  BY <1>1, <1>2, WorldSet
<1> QED BY <1>2, <1>3, <1>4, <1>5 DEF Meanwhile

LEMMA Flush ==
  ASSUME NEW w, NEW p, Orderly(w, p), NEW k \in Devs, NEW v \in flushed(w, k)
  PROVE  /\ Orderly(v, p) /\ SamePlace(w.fil[k], v.fil[k]) /\ Keeps(w.fil[k], v.fil[k])
         /\ v.fil[k].buf = {} /\ Meanwhile(w, v, k)
<1> DEFINE y == [w.fil[k] EXCEPT !.buf = {}]
<1>1. w \in Worlds /\ w.fil[k] \in DevFilter /\ Consistent(w.fil[k])
  BY DEF Orderly, Worlds
<1>a. /\ y \in DevFilter /\ Alias(w.fil[k], y) /\ y.buf = {}
      /\ y.feed = w.fil[k].feed /\ y.sec = w.fil[k].sec
  BY <1>1 DEF DevFilter, Alias
<1>3. v = Set(w, k, y)
  BY DEF flushed
<1> HIDE DEF y
<1>2. /\ y \in DevFilter /\ Consistent(y) /\ SamePlace(w.fil[k], y)
      /\ Keeps(w.fil[k], y) /\ y.buf = {}
  BY <1>1, <1>a, SameSelf
<1>4. Orderly(v, p)
  BY <1>2, <1>3, Rewrite
<1>5. Set(w, k, y).fil[k] = y /\ \A j \in Devs \ {k} : Set(w, k, y).fil[j] = w.fil[j]
  BY <1>1, <1>2, WorldSet
<1> QED BY <1>2, <1>3, <1>4, <1>5 DEF Meanwhile

(* dvb_dmxdev_filter_stop leaves the filter stopped and empty, and the      *)
(* others as they run.                                                      *)
LEMMA FilterStop ==
  ASSUME Calm, NEW w, Orderly(w, NoFeed), NEW k \in Devs, NEW v \in filter_stop(w, k)
  PROVE  /\ Orderly(v, NoFeed) /\ ~Runs(v.fil[k]) /\ Keeps(w.fil[k], v.fil[k])
         /\ Fresh(w.fil[k]) => v.fil[k].buf = {}
         /\ Meanwhile(w, v, k)
<1>1. CASE ~Runs(w.fil[k])
  <2>1. v = w
    BY <1>1 DEF filter_stop, Runs
  <2> QED BY <1>1, <2>1 DEF Keeps, Meanwhile, Fresh
<1>2. CASE Runs(w.fil[k])
  <2>1. w.fil[k].feed # NoFeed /\ w.fil[k].state \in Running
    BY <1>2, DemuxAssumption DEF Orderly, Fed, Runs
  <2>2. CASE w.fil[k].type = "SEC"
    <3>1. \E s \in feed_stop(w, k) : \E a \in release_filter(s, k) :
          \E b \in feed_restart(a, k) : \E c \in detached(b, k) : v \in flushed(c, k)
      BY <2>1, <2>2 DEF filter_stop, Then
    <3>a. PICK s \in feed_stop(w, k) : \E a \in release_filter(s, k) :
          \E b \in feed_restart(a, k) : \E c \in detached(b, k) : v \in flushed(c, k)
      BY <3>1
    <3>2. PICK a \in release_filter(s, k) :
          \E b \in feed_restart(a, k) : \E c \in detached(b, k) : v \in flushed(c, k)
      BY <3>a
    <3>b. PICK b \in feed_restart(a, k) : \E c \in detached(b, k) : v \in flushed(c, k)
      BY <3>2
    <3>3. PICK c \in detached(b, k) : v \in flushed(c, k)
      BY <3>b
    <3>4. /\ Orderly(a, w.fil[k].feed) /\ WaitsFor(a, w.fil[k].feed, k)
          /\ Keeps(w.fil[k], a.fil[k]) /\ Meanwhile(w, a, k)
      BY <1>2, <2>2, StopSection
    <3>5. Orderly(b, NoFeed) /\ b.fil[k] = a.fil[k] /\ Meanwhile(a, b, k) /\ ~Runs(b.fil[k])
      BY <3>4, Restart, SMTT(40) DEF WaitsFor
    <3>6. /\ Orderly(c, NoFeed) /\ ~Runs(c.fil[k]) /\ Keeps(b.fil[k], c.fil[k])
          /\ Meanwhile(b, c, k)
      BY <3>3, <3>5, Detach
    <3>7. /\ Orderly(v, NoFeed) /\ SamePlace(c.fil[k], v.fil[k]) /\ Keeps(c.fil[k], v.fil[k])
          /\ v.fil[k].buf = {} /\ Meanwhile(c, v, k)
      BY <3>3, <3>6, Flush
    <3>8. Keeps(w.fil[k], v.fil[k]) /\ Meanwhile(w, v, k) /\ ~Runs(v.fil[k])
      BY <3>4, <3>5, <3>6, <3>7 DEF Keeps, Meanwhile, SamePlace
    <3> QED BY <3>7, <3>8
  <2>3. CASE w.fil[k].type # "SEC"
    <3>1. \E s \in feed_stop(w, k) : \E a \in release_ts(s, k) :
          \E c \in detached(a, k) : v \in flushed(c, k)
      BY <2>1, <2>3 DEF filter_stop, Then
    <3>a. PICK s \in feed_stop(w, k) : \E a \in release_ts(s, k) :
          \E c \in detached(a, k) : v \in flushed(c, k)
      BY <3>1
    <3>2. PICK a \in release_ts(s, k) :
          \E c \in detached(a, k) : v \in flushed(c, k)
      BY <3>a
    <3>3. PICK c \in detached(a, k) : v \in flushed(c, k)
      BY <3>2
    <3>4. /\ Orderly(a, NoFeed) /\ ~Runs(a.fil[k])
          /\ Keeps(w.fil[k], a.fil[k]) /\ Meanwhile(w, a, k)
      BY <1>2, <2>3, StopPes
    <3>6. /\ Orderly(c, NoFeed) /\ ~Runs(c.fil[k]) /\ Keeps(a.fil[k], c.fil[k])
          /\ Meanwhile(a, c, k)
      BY <3>3, <3>4, Detach
    <3>7. /\ Orderly(v, NoFeed) /\ SamePlace(c.fil[k], v.fil[k]) /\ Keeps(c.fil[k], v.fil[k])
          /\ v.fil[k].buf = {} /\ Meanwhile(c, v, k)
      BY <3>3, <3>6, Flush
    <3>8. Keeps(w.fil[k], v.fil[k]) /\ Meanwhile(w, v, k) /\ ~Runs(v.fil[k])
      BY <3>4, <3>6, <3>7 DEF Keeps, Meanwhile, SamePlace
    <3> QED BY <3>7, <3>8
  <2> QED BY <2>2, <2>3
<1> QED BY <1>1, <1>2

-----------------------------------------------------------------------------
(* Starting a filter *)

(* Filter k is being started: it does not run yet. *)
Starting(w, v, k) == /\ ~Runs(v.fil[k]) /\ Keeps(w.fil[k], v.fil[k])
                     /\ v.fil[k].buf = w.fil[k].buf /\ Meanwhile(w, v, k)

LEMMA SameWorld == ASSUME NEW w \in Worlds PROVE With(w, w.d) = w
  BY DEF Worlds, With

(* A feed that was free waits: no filter runs on it. *)
LEMMA Arrive ==
  ASSUME NEW w, Orderly(w, NoFeed), NEW f \in Feeds, w.d.feed[f].state = "FREE",
         NEW e, Sound(e), OnlyFeed(w.d, e, f),
         e.feed[f].type = "SEC" => e.feed[f].chain = {},
         NEW v \in Worlds, v.d = e, v.fil = w.fil, v.priv = w.priv, v.dead = w.dead,
         \A g \in Feeds \ {f} : v.tspriv[g] = w.tspriv[g]
  PROVE  Orderly(v, f) /\ \A j \in Devs : Runs(v.fil[j]) => v.fil[j].feed # f
<1>1. ASSUME NEW j \in Devs, Runs(w.fil[j])  PROVE w.fil[j].feed # f /\ Fed(v, j, f)
  <2>1. Fed(w, j, NoFeed)
    BY <1>1 DEF Orderly
  <2>2. w.fil[j].feed \in Feeds \ {f} /\ w.fil[j].feed # NoFeed
    BY <2>1, DemuxAssumption DEF Fed
  <2> QED BY <2>1, <2>2, SMTT(40) DEF Fed, OnlyFeed
<1>2. Owned(v, f)
  <2>1. Owned(w, NoFeed) /\ NoFeed \notin Feeds
    BY DemuxAssumption DEF Orderly
  <2> QED BY <2>1 DEF Owned, OnlyFeed
<1>3. ChainsOwned(v)
  <2>1. ChainsOwned(w)
    BY DEF Orderly
  <2> QED BY <2>1 DEF ChainsOwned, OnlyFeed
<1>4. PidsShared(v)
  BY DEF Orderly, PidsShared
<1> QED BY <1>1, <1>2, <1>3, <1>4 DEF Orderly

(* The filter takes the feed. *)
LEMMA TakeFeed ==
  ASSUME NEW w, NEW p, Orderly(w, p), NEW k \in Devs, ~Runs(w.fil[k]), NEW f \in Feeds
  PROVE  LET v == Set(w, k, [w.fil[k] EXCEPT !.feed = f])
         IN  /\ Orderly(v, p) /\ Starting(w, v, k)
             /\ v.d = w.d /\ v.tspriv = w.tspriv /\ v.fil[k].feed = f
             /\ v.fil[k].pes = w.fil[k].pes
             /\ \A j \in Devs \ {k} : v.fil[j] = w.fil[j]
<1> DEFINE y == [w.fil[k] EXCEPT !.feed = f]
           v == Set(w, k, y)
<1>1. w \in Worlds /\ w.fil[k] \in DevFilter /\ Consistent(w.fil[k])
  BY DEF Orderly, Worlds
<1>a. /\ y \in DevFilter /\ Alias(w.fil[k], y)
      /\ y.buf = w.fil[k].buf /\ y.feed = f /\ y.pes = w.fil[k].pes
  BY <1>1 DEF DevFilter, Alias
<1> HIDE DEF y
<1>2. /\ y \in DevFilter /\ Consistent(y) /\ SamePlace(w.fil[k], y) /\ ~Runs(y)
      /\ Keeps(w.fil[k], y) /\ y.buf = w.fil[k].buf /\ y.feed = f /\ y.pes = w.fil[k].pes
  BY <1>1, <1>a, SameSelf
<1>3. Orderly(v, p)
  BY <1>2, Rewrite
<1>4. /\ v.d = w.d /\ v.tspriv = w.tspriv /\ v.fil[k] = y
      /\ \A j \in Devs \ {k} : v.fil[j] = w.fil[j]
  BY <1>1, <1>2, WorldSet
<1>5. Starting(w, v, k)
  BY <1>2, <1>4 DEF Starting, Meanwhile
<1> QED BY <1>2, <1>3, <1>4, <1>5 DEF y

LEMMA NewFeed ==
  ASSUME Calm, NEW w, Orderly(w, NoFeed), NEW k \in Devs, ~Runs(w.fil[k]),
         w.fil[k].type = "SEC",
         \A j \in Devs : Runs(w.fil[j]) /\ w.fil[j].type = "SEC"
                          => w.fil[j].pid # w.fil[k].pid,
         NEW r \in new_feed(w, k)
  PROVE  \/ r.ret # "ok" /\ Orderly(r.w, NoFeed) /\ Starting(w, r.w, k)
         \/ /\ r.ret = "ok" /\ Starting(w, r.w, k)
            /\ \E p \in Feeds : Orderly(r.w, p) /\ WaitsFor(r.w, p, k)
<1>1. w \in Worlds /\ w.d \in Demux /\ Sound(w.d) /\ w.fil[k] \in DevFilter
  BY DEF Orderly, Sound, Worlds
<1>2. w.fil[k].pid \in Pids
  BY DEF Orderly, Consistent
<1>3. PICK a \in allocate_section_feed(w.d) :
        r \in IF a.ret # "ok" THEN Ret(With(w, a.d), a.ret)
              ELSE UNION {LET v == Set(With(w, s.d), k, [w.fil[k] EXCEPT !.feed = a.slot])
                          IN  IF s.ret = "ok" THEN Ret(v, "ok")
                              ELSE UNION {Ret(u, s.ret) : u \in feed_restart(v, k)} :
                          s \in section_feed_set(a.d, a.slot, w.fil[k].pid, w.fil[k].crc)}
  BY DEF new_feed
<1>4. CASE a.ret # "ok"
  <2>1. r = [w |-> With(w, a.d), ret |-> a.ret] /\ a.d = w.d
    BY <1>1, <1>3, <1>4, AllocateSectionEffect DEF Ret
  <2>2. r.w = w /\ r.ret # "ok"
    BY <1>1, <1>4, <2>1, SameWorld
  <2> QED BY <2>2 DEF Starting, Keeps, Meanwhile
<1>5. CASE a.ret = "ok"
  <2> DEFINE f == a.slot
  <2>1. /\ f \in Feeds /\ w.d.feed[f].state = "FREE" /\ Sound(a.d) /\ OnlyFeed(w.d, a.d, f)
        /\ a.d.feed[f].state = "ALLOCATED" /\ a.d.feed[f].type = "SEC"
        /\ a.d.feed[f].chain = {} /\ ~a.d.feed[f].filtering
    BY <1>1, <1>5, AllocateSectionEffect
  <2>2. PICK s \in section_feed_set(a.d, f, w.fil[k].pid, w.fil[k].crc) :
          r \in LET v == Set(With(w, s.d), k, [w.fil[k] EXCEPT !.feed = f])
                IN  IF s.ret = "ok" THEN Ret(v, "ok")
                    ELSE UNION {Ret(u, s.ret) : u \in feed_restart(v, k)}
    BY <1>3, <1>5
  <2>3. PICK b \in BOOLEAN : s \in section_feed_set(a.d, f, w.fil[k].pid, b)
    <3>1. w.fil[k].crc \in BOOLEAN
      BY <1>1 DEF DevFilter
    <3>2. CASE w.fil[k].crc = TRUE
      BY <2>2, <3>2
    <3>3. CASE w.fil[k].crc = FALSE
      BY <2>2, <3>3
    <3> QED BY <3>1, <3>2, <3>3
  <2>4. /\ s.ret = "ok" /\ Sound(s.d) /\ OnlyFeed(a.d, s.d, f)
        /\ f \in s.d.list /\ s.d.feed[f].pid = w.fil[k].pid
        /\ s.d.feed[f].type = "SEC" /\ s.d.feed[f].chain = {}
        /\ s.d.feed[f].state = "READY" /\ ~s.d.feed[f].filtering
    <3>1. f \in Feeds /\ a.d.feed[f].state # "FREE"
      BY <2>1
    <3> HIDE DEF f
    <3> QED BY <1>2, <2>1, <2>3, <3>1, SectionSetEffect DEF Calm
  <2> DEFINE u == With(w, s.d)
             v == Set(u, k, [w.fil[k] EXCEPT !.feed = f])
  <2>5. r.w = v /\ r.ret = "ok"
    BY <2>2, <2>4 DEF Ret
  <2> HIDE DEF f
  <2>6. OnlyFeed(w.d, s.d, f)
    BY <2>1, <2>4 DEF OnlyFeed
  <2>7. /\ u \in Worlds /\ u.d = s.d /\ u.fil = w.fil /\ u.priv = w.priv
        /\ u.tspriv = w.tspriv /\ u.dead = w.dead
    BY <1>1, <2>4, WorldWith DEF Sound
  <2> HIDE DEF u
  <2>8. Orderly(u, f) /\ \A j \in Devs : Runs(u.fil[j]) => u.fil[j].feed # f
    BY <2>1, <2>4, <2>6, <2>7, Arrive
  <2>9. /\ Orderly(v, f) /\ Starting(u, v, k) /\ v.d = u.d /\ v.fil[k].feed = f
        /\ \A j \in Devs \ {k} : v.fil[j] = u.fil[j]
    <3>1. v = Set(u, k, [u.fil[k] EXCEPT !.feed = f]) /\ ~Runs(u.fil[k])
      BY <2>7
    <3> QED BY <2>1, <2>8, <3>1, TakeFeed
  <2> HIDE DEF v
  <2>10. Starting(w, v, k)
    BY <2>7, <2>9 DEF Starting, Meanwhile
  <2>11. WaitsFor(v, f, k)
    BY <2>1, <2>4, <2>7, <2>9 DEF WaitsFor, Starting, Keeps
  <2> QED BY <2>1, <2>5, <2>9, <2>10, <2>11
<1> QED BY <1>4, <1>5

(* find_feed returns a feed that waits for k, new or shared, or nothing.    *)
LEMMA FindFeed ==
  ASSUME Calm, NEW w, Orderly(w, NoFeed), NEW k \in Devs, ~Runs(w.fil[k]),
         w.fil[k].type = "SEC", w.fil[k].state \in Armed, NEW r \in find_feed(w, k)
  PROVE  \/ r.ret # "ok" /\ Orderly(r.w, NoFeed) /\ Starting(w, r.w, k)
         \/ /\ r.ret = "ok" /\ Starting(w, r.w, k)
            /\ \E p \in Feeds : Orderly(r.w, p) /\ WaitsFor(r.w, p, k)
<1> DEFINE S == {j \in Devs : /\ w.fil[j].state \in Running
                             /\ w.fil[j].type = "SEC"
                             /\ w.fil[j].pid = w.fil[k].pid}
           shared == {w.fil[j].feed : j \in sharer(w, w.fil[k].pid)} \ {NoFeed}
<1>1. w \in Worlds /\ w.d \in Demux /\ Sound(w.d) /\ w.fil[k] \in DevFilter
  BY DEF Orderly, Sound, Worlds
<1>2. /\ \A j \in Devs : Consistent(w.fil[j]) /\ (Runs(w.fil[j]) => Fed(w, j, NoFeed))
      /\ PidsShared(w)
  BY DEF Orderly
<1>3. sharer(w, w.fil[k].pid) = First(S) /\ S \subseteq Nat
  BY DEF sharer, Devs
<1>4. \A j \in S : Runs(w.fil[j]) /\ w.fil[j].feed \in Feeds /\ w.fil[j].feed # NoFeed
  BY <1>2, DemuxAssumption, SMTT(40) DEF Fed, Runs
<1>5. CASE shared = {}
  <2>1. First(S) = {}
    <3>1. \A j \in First(S) : j \in S
      BY DEF First
    <3>2. ASSUME NEW j \in First(S)  PROVE FALSE
      <4>1. w.fil[j].feed # NoFeed
        BY <1>4, <3>1, <3>2
      <4> HIDE DEF S
      <4>2. w.fil[j].feed \in shared
        BY <1>3, <3>2, <4>1
      <4> QED BY <1>5, <4>2
    <3> QED BY <3>2
  <2>2. S = {}
    BY <1>3, <2>1, FirstExists
  <2>3. \A j \in Devs : Runs(w.fil[j]) /\ w.fil[j].type = "SEC" => w.fil[j].pid # w.fil[k].pid
    BY <2>2 DEF Runs
  <2>4. r \in new_feed(w, k)
    BY <1>5 DEF find_feed
  <2> QED BY <2>3, <2>4, NewFeed
<1>6. CASE shared # {}
  <2>1. r \in UNION {UNION {Ret(v, "ok") :
                    v \in feed_stop(Set(w, k, [w.fil[k] EXCEPT !.feed = f]), k)} :
                  f \in shared}
    BY <1>6 DEF find_feed
  <2>2. PICK f \in shared : r \in UNION {Ret(v, "ok") :
                    v \in feed_stop(Set(w, k, [w.fil[k] EXCEPT !.feed = f]), k)}
    BY <2>1
  <2>3. PICK j \in S : f = w.fil[j].feed
    BY <1>3, <2>2 DEF First
  <2> HIDE DEF shared
  <2>4. /\ f \in Feeds /\ j \in Devs /\ Runs(w.fil[j]) /\ w.fil[j].type = "SEC"
        /\ w.fil[j].pid = w.fil[k].pid /\ w.fil[j].feed = f
    BY <1>4, <2>3
  <2>5. /\ f \in w.d.list /\ w.d.feed[f].state # "FREE" /\ w.d.feed[f].type = "SEC"
        /\ w.d.feed[f].pid = w.fil[k].pid
    BY <1>2, <2>4 DEF Fed
  <2> HIDE DEF S
  <2> DEFINE u == Set(w, k, [w.fil[k] EXCEPT !.feed = f])
  <2>6. /\ Orderly(u, NoFeed) /\ Starting(w, u, k) /\ u.d = w.d /\ u.fil[k].feed = f
        /\ \A i \in Devs \ {k} : u.fil[i] = w.fil[i]
    BY <2>4, TakeFeed
  <2> DEFINE x == u.fil[k]
             y == del_timer([x EXCEPT !.state = "SET"])
  <2>7. /\ u \in Worlds /\ x \in DevFilter /\ Consistent(x) /\ x.type = "SEC" /\ x.feed = f
        /\ x.state \in Armed /\ ~Runs(x) /\ x.pid = w.fil[k].pid
    BY <2>6 DEF Orderly, Worlds, Starting, Keeps
  <2>8. PICK v \in feed_stop(u, k) : r.w = v /\ r.ret = "ok"
    BY <2>2 DEF Ret
  <2> HIDE DEF u
  <2>9. PICK q \in section_feed_stop_filtering(u.d, f) : v = Set(With(u, q.d), k, y)
    BY <2>7 DEF feed_stop, Window, Calm
  <2>10. /\ Sound(q.d) /\ OnlyFeed(u.d, q.d, f) /\ f \in q.d.list
         /\ SameFeed(u.d.feed[f], q.d.feed[f])
         /\ q.d.feed[f].state = "READY" /\ ~q.d.feed[f].filtering
    BY <1>1, <2>4, <2>5, <2>6, SectionStopEffect DEF Calm
  <2>11. /\ y \in DevFilter /\ Consistent(y) /\ SamePlace(x, y) /\ ~Runs(y)
         /\ Keeps(x, y) /\ y.buf = x.buf /\ y.feed = f /\ y.pid = x.pid
    <3> HIDE DEF x
    <3>1. /\ y \in DevFilter /\ y.state = "SET" /\ ~y.timer /\ y.type = x.type
          /\ y.feed = f /\ y.pid = x.pid /\ y.file = x.file /\ y.buf = x.buf
      BY <2>7 DEF del_timer, DevFilter, Armed
    <3> HIDE DEF y
    <3> QED BY <2>7, <3>1 DEF Consistent, SamePlace, Runs, Running, Armed, Keeps
  <2> DEFINE a == With(u, q.d)
  <2>12. a \in Worlds /\ a.d = q.d /\ a.fil = u.fil
    BY <2>7, <2>10, WorldWith DEF Sound
  <2>13. Orderly(a, f)
    BY <2>4, <2>5, <2>6, <2>10, Pause
  <2>14. v = Set(a, k, y)
    BY <2>9
  <2>x. x = u.fil[k]
    OBVIOUS
  <2> HIDE DEF a, x, y
  <2>15. Orderly(v, f)
    BY <2>11, <2>12, <2>13, <2>14, <2>x, Rewrite
  <2>16. /\ Set(a, k, y).d = a.d /\ Set(a, k, y).fil[k] = y
         /\ \A i \in Devs \ {k} : Set(a, k, y).fil[i] = a.fil[i]
    BY <2>11, <2>12, WorldSet
  <2>17. /\ v.d = q.d /\ v.fil[k] = y /\ \A i \in Devs \ {k} : v.fil[i] = w.fil[i]
    BY <2>6, <2>12, <2>14, <2>16
  <2>18. Starting(w, v, k)
    BY <2>6, <2>11, <2>17, <2>x DEF Starting, Meanwhile, Keeps
  <2>19. WaitsFor(v, f, k)
    <3>1. ASSUME NEW i \in Devs, Runs(v.fil[i]), v.fil[i].type = "SEC",
                 v.fil[i].pid = v.fil[k].pid
          PROVE  v.fil[i].feed = f
      <4>1. i # k /\ v.fil[i] = w.fil[i] /\ v.fil[k].pid = w.fil[k].pid
        BY <2>7, <2>11, <2>17, <3>1
      <4> QED BY <1>2, <2>4, <3>1, <4>1 DEF PidsShared
    <3> QED BY <2>4, <2>5, <2>6, <2>7, <2>10, <2>11, <2>17, <3>1 DEF WaitsFor, SameFeed
  <2> QED BY <2>4, <2>8, <2>15, <2>18, <2>19
<1> QED BY <1>5, <1>6

(* No filter slot is left: the feed goes on for the others. *)
LEMMA NoFilterLeft ==
  ASSUME Calm, NEW w, NEW p, Orderly(w, p), NEW k \in Devs, WaitsFor(w, p, k),
         NEW v \in no_filter(w, k)
  PROVE  Orderly(v, NoFeed) /\ v.fil[k] = w.fil[k] /\ Meanwhile(w, v, k)
<1>1. PICK u \in feed_restart(w, k) :
        v \in {With(u, r.d) : r \in section_feed_start_filtering(u.d, u.fil[k].feed)}
  BY DEF no_filter
<1>2. PICK r \in section_feed_start_filtering(u.d, u.fil[k].feed) : v = With(u, r.d)
  BY <1>1
<1>3. /\ Orderly(u, NoFeed) /\ u.fil[k] = w.fil[k] /\ Meanwhile(w, u, k)
      /\ u.d.feed[p].filtering \/ u.d.feed[p].chain = {}
  BY Restart
<1>4. u.fil[k].feed = p
  BY <1>3 DEF WaitsFor
<1>5. r.d = u.d
  BY <1>2, <1>3, <1>4 DEF section_feed_start_filtering, Interrupted, Return, Outcome
<1>6. v = u
  BY <1>2, <1>3, <1>5, SameWorld DEF Orderly
<1> QED BY <1>3, <1>6

(* The filter gets its slot in the chain of the feed, and the feed runs.    *)
LEMMA RunSection ==
  ASSUME Calm, NEW w, NEW p, Orderly(w, p), NEW k \in Devs, WaitsFor(w, p, k),
         w.fil[k].type = "SEC", w.fil[k].state \in Armed,
         NEW r \in section_feed_allocate_filter(w.d, p), r.ret = "ok",
         NEW v \in run_section(With(w, r.d), k, r.slot)
  PROVE  /\ Orderly(v, NoFeed) /\ Keeps(w.fil[k], v.fil[k])
         /\ v.fil[k].buf = w.fil[k].buf /\ Meanwhile(w, v, k)
<1> DEFINE i == r.slot
           u == With(w, r.d)
           x == [u.fil[k] EXCEPT !.sec = i]
           y == [filter_timer(x) EXCEPT !.state = "GO"]
<1>1. /\ w \in Worlds /\ w.d \in Demux /\ Sound(w.d) /\ w.fil[k] \in DevFilter /\ w.dead = "no"
      /\ Consistent(w.fil[k])
  BY DEF Orderly, Sound, Worlds
<1>2. /\ \A j \in Devs : Consistent(w.fil[j]) /\ (Runs(w.fil[j]) => Fed(w, j, p))
      /\ Owned(w, p) /\ ChainsOwned(w) /\ PidsShared(w)
  BY DEF Orderly
<1>3. /\ p \in Feeds /\ ~Runs(w.fil[k]) /\ w.fil[k].feed = p
      /\ p \in w.d.list /\ ~w.d.feed[p].filtering
      /\ w.d.feed[p].state # "FREE" /\ w.d.feed[p].type = "SEC"
      /\ w.d.feed[p].pid = w.fil[k].pid
      /\ \A j \in Devs :
           Runs(w.fil[j]) /\ w.fil[j].type = "SEC" /\ w.fil[j].pid = w.fil[k].pid
             => w.fil[j].feed = p
  BY DEF WaitsFor
<1>4. /\ Sound(r.d) /\ OnlyFeed(w.d, r.d, p) /\ i \in Filters
      /\ w.d.filter[i].state = "FREE" /\ p \in r.d.list
      /\ Relinked(w.d.feed[p], r.d.feed[p], w.d.feed[p].chain \cup {i})
  BY <1>1, <1>3, AllocateFilterEffect
<1>5. ASSUME NEW g \in Feeds, w.d.feed[g].state # "FREE"  PROVE i \notin w.d.feed[g].chain
  BY <1>1, <1>4, <1>5 DEF Sound, ChainsMatch
<1>6. /\ r.d.feed[p].state # "FREE" /\ ~r.d.feed[p].filtering
      /\ r.d.feed[p].chain = w.d.feed[p].chain \cup {i}
      /\ r.d.feed[p].type = "SEC" /\ r.d.feed[p].pid = w.fil[k].pid
  BY <1>3, <1>4 DEF Relinked
<1>7. /\ u \in Worlds /\ u.d = r.d /\ u.fil = w.fil /\ u.priv = w.priv
      /\ u.tspriv = w.tspriv /\ u.dead = w.dead
  BY <1>1, <1>4, WorldWith DEF Sound
<1>a. v \in run_section(u, k, i)
  OBVIOUS
<1> HIDE DEF u
<1>8. /\ x \in DevFilter /\ y \in DevFilter /\ Consistent(y) /\ Runs(y) /\ Keeps(w.fil[k], y)
      /\ y.buf = w.fil[k].buf /\ x.feed = p /\ y.feed = p /\ y.sec = i /\ y.type = "SEC"
      /\ y.pid = w.fil[k].pid
  <2> DEFINE z == w.fil[k]
  <2>1. z \in DevFilter /\ Consistent(z) /\ z.feed = p /\ z.type = "SEC" /\ z.state \in Armed
        /\ x = [z EXCEPT !.sec = i]
    BY <1>1, <1>3, <1>7
  <2> HIDE DEF z, i
  <2>2. /\ x \in DevFilter /\ x.feed = p /\ x.sec = i /\ x.buf = z.buf /\ Alias(z, x)
    BY <1>4, <2>1 DEF DevFilter, Alias
  <2> HIDE DEF x
  <2>3. /\ y \in DevFilter /\ y.state = "GO" /\ (y.timer => y.timeout) /\ y.type = x.type
        /\ y.pid = x.pid /\ y.file = x.file /\ y.feed = x.feed /\ y.sec = x.sec
        /\ y.buf = x.buf
    <3>1. y = [x EXCEPT !.timer = x.timeout, !.state = "GO"]
      BY <2>2 DEF filter_timer, DevFilter
    <3> HIDE DEF y
    <3>2. y \in DevFilter
      BY <2>2, <3>1 DEF DevFilter, Armed, Running
    <3>3. /\ y.state = "GO" /\ (y.timer => y.timeout) /\ y.type = x.type
          /\ y.pid = x.pid /\ y.file = x.file /\ y.feed = x.feed /\ y.sec = x.sec
          /\ y.buf = x.buf
      BY <2>2, <3>1 DEF DevFilter
    <3> QED BY <3>2, <3>3
  <2> HIDE DEF y
  <2>4. Consistent(y) /\ Runs(y) /\ Keeps(z, y) /\ y.type = "SEC" /\ y.pid = z.pid
    BY <2>1, <2>2, <2>3 DEF Alias, Consistent, Runs, Running, Armed, Keeps
  <2> QED BY <2>2, <2>3, <2>4 DEF z
<1>b. y = [filter_timer(x) EXCEPT !.state = "GO"]
  OBVIOUS
<1> HIDE DEF u, y, i
<1> DEFINE V(s) == [With(u, s.d) EXCEPT !.fil[k] = x, !.priv[i] = k]
<1>c. v \in UNION {IF s.ret # "ok" THEN {V(s)} ELSE
                    {Set(V(s), k, [z EXCEPT !.state = "GO"]) :
                       z \in Window(filter_timer(x), filter_timer(x))} :
                   s \in section_feed_start_filtering(u.d, x.feed)}
  BY <1>a DEF run_section
<1> HIDE DEF x
<1>9. PICK s \in section_feed_start_filtering(u.d, x.feed) :
        v \in IF s.ret # "ok" THEN {V(s)} ELSE
              {Set(V(s), k, [z EXCEPT !.state = "GO"]) :
                 z \in Window(filter_timer(x), filter_timer(x))}
  BY <1>c
<1>10. /\ s.ret = "ok" /\ Sound(s.d) /\ OnlyFeed(r.d, s.d, p)
       /\ p \in s.d.list /\ SameFeed(r.d.feed[p], s.d.feed[p])
       /\ s.d.feed[p].state = "GO" /\ s.d.feed[p].filtering
  <2>1. r.d.feed[p].chain # {}
    BY <1>6
  <2>2. s \in section_feed_start_filtering(r.d, p)
    BY <1>8, <1>7, <1>9
  <2> HIDE DEF V
  <2> QED BY <1>3, <1>4, <1>6, <2>1, <2>2, SectionStartEffect, SMTT(40) DEF Calm
<1> DEFINE v0 == V(s)
<1>11. v = Set(v0, k, y)
  <2>1. v \in {Set(v0, k, [z EXCEPT !.state = "GO"]) :
                 z \in Window(filter_timer(x), filter_timer(x))}
    BY <1>9, <1>10
  <2>2. Window(filter_timer(x), filter_timer(x)) = {filter_timer(x)}
    BY DEF Window, Calm
  <2> HIDE DEF v0
  <2> QED BY <1>b, <2>1, <2>2
<1>12. /\ With(u, s.d) \in Worlds /\ With(u, s.d).d = s.d /\ With(u, s.d).fil = w.fil
       /\ With(u, s.d).priv = w.priv /\ With(u, s.d).tspriv = w.tspriv
       /\ With(u, s.d).dead = "no"
  BY <1>1, <1>7, <1>10, WorldWith DEF Sound
<1>13. /\ v0 \in Worlds /\ v0.d = s.d /\ v0.tspriv = w.tspriv /\ v0.dead = "no"
       /\ \A j \in Devs \ {k} : v0.fil[j] = w.fil[j]
       /\ v0.priv[i] = k /\ \A j \in Filters \ {i} : v0.priv[j] = w.priv[j]
  BY <1>4, <1>8, <1>12 DEF Worlds
<1> HIDE DEF v0
<1>14. /\ Set(v0, k, y) \in Worlds
       /\ Set(v0, k, y).d = v0.d /\ Set(v0, k, y).priv = v0.priv
       /\ Set(v0, k, y).tspriv = v0.tspriv /\ Set(v0, k, y).dead = v0.dead
       /\ Set(v0, k, y).fil[k] = y
       /\ \A j \in Devs \ {k} : Set(v0, k, y).fil[j] = v0.fil[j]
  BY <1>8, <1>13, WorldSet
<1>15. /\ v \in Worlds /\ v.d = s.d /\ v.tspriv = w.tspriv /\ v.dead = "no"
       /\ v.fil[k] = y /\ \A j \in Devs \ {k} : v.fil[j] = w.fil[j]
       /\ v.priv[i] = k /\ \A j \in Filters \ {i} : v.priv[j] = w.priv[j]
  BY <1>11, <1>13, <1>14
<1>16. /\ OnlyFeed(w.d, v.d, p) /\ p \in v.d.list /\ v.d.feed[p].filtering
       /\ v.d.feed[p].state = "GO" /\ v.d.feed[p].type = "SEC"
       /\ v.d.feed[p].pid = w.fil[k].pid
       /\ v.d.feed[p].chain = w.d.feed[p].chain \cup {i}
  BY <1>4, <1>6, <1>10, <1>15, SMTT(40) DEF OnlyFeed, SameFeed
<1>17. ASSUME NEW j \in Devs, Runs(v.fil[j])  PROVE Fed(v, j, NoFeed)
  <2>1. CASE j = k
    BY <1>3, <1>8, <1>15, <1>16, <2>1 DEF Fed
  <2>2. CASE j # k
    <3>1. v.fil[j] = w.fil[j] /\ Fed(w, j, p) /\ w.fil[j].feed \in Feeds
      BY <1>2, <1>15, <1>17, <2>2 DEF Fed
    <3>2. w.fil[j].type = "SEC" => w.fil[j].sec # i /\ w.fil[j].sec \in Filters
      BY <1>1, <1>5, <3>1, SMTT(40) DEF Fed, Demux, Feed
    <3>3. CASE w.fil[j].feed = p
      BY <1>3, <1>15, <1>16, <3>1, <3>2, <3>3 DEF Fed
    <3>4. CASE w.fil[j].feed # p
      <4>1. w.fil[j].type = "SEC" => v.priv[w.fil[j].sec] = w.priv[w.fil[j].sec]
        BY <1>15, <3>2
      <4> QED BY <1>15, <1>16, <3>1, <3>4, <4>1, FedElsewhere
    <3> QED BY <3>3, <3>4
  <2> QED BY <2>1, <2>2
<1>18. Owned(v, NoFeed)
  <2> SUFFICES ASSUME NEW g \in Feeds, v.d.feed[g].state # "FREE"
               PROVE  \E j \in Devs : Runs(v.fil[j]) /\ v.fil[j].feed = g
    BY DEF Owned
  <2>1. CASE g = p
    BY <1>8, <1>15, <2>1
  <2>2. CASE g # p
    <3>1. w.d.feed[g].state # "FREE"
      BY <1>16, <2>2 DEF OnlyFeed
    <3>2. PICK j \in Devs : Runs(w.fil[j]) /\ w.fil[j].feed = g
      BY <1>2, <2>2, <3>1 DEF Owned
    <3> QED BY <1>3, <1>15, <3>2
  <2> QED BY <2>1, <2>2
<1>19. ChainsOwned(v)
  <2> SUFFICES ASSUME NEW g \in Feeds, v.d.feed[g].state # "FREE", v.d.feed[g].type = "SEC",
                      NEW j \in v.d.feed[g].chain
               PROVE  /\ v.priv[j] \in Devs
                      /\ Runs(v.fil[v.priv[j]]) /\ v.fil[v.priv[j]].type = "SEC"
                      /\ v.fil[v.priv[j]].sec = j /\ v.fil[v.priv[j]].feed = g
    BY DEF ChainsOwned
  <2>1. w.d.feed[g].state # "FREE" /\ w.d.feed[g].type = "SEC"
    BY <1>3, <1>16 DEF OnlyFeed
  <2>2. CASE j \in w.d.feed[g].chain
    <3>1. j # i /\ j \in Filters
      BY <1>1, <1>5, <2>1, <2>2 DEF Demux, Feed
    <3>2. /\ w.priv[j] \in Devs /\ Runs(w.fil[w.priv[j]]) /\ w.fil[w.priv[j]].type = "SEC"
          /\ w.fil[w.priv[j]].sec = j /\ w.fil[w.priv[j]].feed = g
      BY <1>2, <2>1, <2>2 DEF ChainsOwned
    <3> QED BY <1>3, <1>15, <3>1, <3>2
  <2>3. CASE j \notin w.d.feed[g].chain
    <3>1. g = p /\ j = i
      BY <1>16, <2>3 DEF OnlyFeed
    <3> QED BY <1>8, <1>15, <3>1
  <2> QED BY <2>2, <2>3
<1>20. PidsShared(v)
  <2>1. ASSUME NEW a \in Devs, NEW b \in Devs, Runs(v.fil[a]), Runs(v.fil[b]),
               v.fil[a].type = "SEC", v.fil[b].type = "SEC", v.fil[a].pid = v.fil[b].pid
        PROVE  v.fil[a].feed = v.fil[b].feed
    <3>1. CASE a # k /\ b # k
      BY <1>2, <1>15, <2>1, <3>1 DEF PidsShared
    <3>2. CASE a = k /\ b # k
      BY <1>3, <1>8, <1>15, <2>1, <3>2
    <3>3. CASE a # k /\ b = k
      BY <1>3, <1>8, <1>15, <2>1, <3>3
    <3> QED BY <3>1, <3>2, <3>3
  <2> QED BY <2>1 DEF PidsShared
<1>21. \A j \in Devs : Consistent(v.fil[j])
  BY <1>2, <1>8, <1>15
<1>22. Orderly(v, NoFeed)
  BY <1>10, <1>15, <1>17, <1>18, <1>19, <1>20, <1>21 DEF Orderly
<1> QED BY <1>8, <1>15, <1>22 DEF Meanwhile

LEMMA StartSection ==
  ASSUME Calm, NEW w, Orderly(w, NoFeed), NEW k \in Devs, ~Runs(w.fil[k]),
         w.fil[k].type = "SEC", w.fil[k].state \in Armed, NEW v \in start_section(w, k)
  PROVE  /\ Orderly(v, NoFeed) /\ Keeps(w.fil[k], v.fil[k])
         /\ v.fil[k].buf = w.fil[k].buf /\ Meanwhile(w, v, k)
<1> DEFINE bare == [w.fil[k] EXCEPT !.feed = NoFeed, !.sec = NoFilter]
           u == Set(w, k, bare)
<1>1. w \in Worlds /\ w.fil[k] \in DevFilter /\ Consistent(w.fil[k])
  BY DEF Orderly, Worlds
<1>a. bare \in DevFilter /\ Alias(w.fil[k], bare) /\ bare.buf = w.fil[k].buf
  BY <1>1 DEF DevFilter, Alias
<1>3. PICK found \in find_feed(u, k) :
        v \in IF found.ret # "ok" THEN {found.w} ELSE
              UNION {IF r.ret # "ok" THEN no_filter(With(found.w, r.d), k)
                     ELSE run_section(With(found.w, r.d), k, r.slot) :
                     r \in section_feed_allocate_filter(found.w.d, found.w.fil[k].feed)}
  BY DEF start_section
<1> HIDE DEF bare
<1>2. /\ bare \in DevFilter /\ Consistent(bare) /\ SamePlace(w.fil[k], bare)
      /\ ~Runs(bare) /\ Keeps(w.fil[k], bare) /\ bare.buf = w.fil[k].buf
      /\ bare.type = "SEC" /\ bare.state \in Armed
  BY <1>1, <1>a, SameSelf DEF Alias
<1>4. Orderly(u, NoFeed)
  BY <1>2, Rewrite
<1>5. /\ u.d = w.d /\ u.fil[k] = bare /\ \A j \in Devs \ {k} : u.fil[j] = w.fil[j]
  BY <1>1, <1>2, WorldSet
<1> HIDE DEF u
<1>6. \/ found.ret # "ok" /\ Orderly(found.w, NoFeed) /\ Starting(u, found.w, k)
      \/ /\ found.ret = "ok" /\ Starting(u, found.w, k)
         /\ \E p \in Feeds : Orderly(found.w, p) /\ WaitsFor(found.w, p, k)
  BY <1>2, <1>4, <1>5, FindFeed
<1> DEFINE a == found.w
<1>7. /\ ~Runs(a.fil[k]) /\ Keeps(w.fil[k], a.fil[k]) /\ a.fil[k].type = "SEC"
      /\ a.fil[k].state \in Armed
      /\ a.fil[k].buf = w.fil[k].buf /\ Meanwhile(w, a, k)
  BY <1>2, <1>5, <1>6 DEF Starting, Keeps, Meanwhile
<1>8. CASE found.ret # "ok"
  BY <1>3, <1>6, <1>7, <1>8
<1>9. CASE found.ret = "ok"
  <2>1. PICK p \in Feeds : Orderly(a, p) /\ WaitsFor(a, p, k)
    BY <1>6, <1>9
  <2>2. PICK r \in section_feed_allocate_filter(a.d, a.fil[k].feed) :
          v \in IF r.ret # "ok" THEN no_filter(With(a, r.d), k)
                ELSE run_section(With(a, r.d), k, r.slot)
    BY <1>3, <1>9
  <2> HIDE DEF a
  <2>3. /\ a \in Worlds /\ Sound(a.d) /\ a.fil[k].feed = p /\ p \in a.d.list
        /\ a.d.feed[p].state # "FREE"
    BY <2>1 DEF Orderly, WaitsFor
  <2>4. CASE r.ret # "ok"
    <3>1. r.d = a.d
      BY <2>2, <2>3, <2>4, AllocateFilterEffect
    <3>2. v \in no_filter(a, k)
      BY <2>2, <2>3, <2>4, <3>1, SameWorld
    <3>3. Orderly(v, NoFeed) /\ v.fil[k] = a.fil[k] /\ Meanwhile(a, v, k)
      BY <2>1, <3>2, NoFilterLeft
    <3> QED BY <1>7, <3>3 DEF Meanwhile
  <2>5. CASE r.ret = "ok"
    <3>1. v \in run_section(With(a, r.d), k, r.slot) /\ r \in section_feed_allocate_filter(a.d, p)
      BY <2>2, <2>3, <2>5
    <3>2. /\ Orderly(v, NoFeed) /\ Keeps(a.fil[k], v.fil[k])
          /\ v.fil[k].buf = a.fil[k].buf /\ Meanwhile(a, v, k)
      BY <1>7, <2>1, <2>5, <3>1, RunSection
    <3> QED BY <1>7, <3>2 DEF Meanwhile, Keeps
  <2> QED BY <2>4, <2>5
<1> QED BY <1>8, <1>9

(* A call that hands out no feed *)
LEMMA NoneTaken ==
  ASSUME NEW w, Orderly(w, NoFeed), NEW e, Sound(e), NoFeedTaken(w.d, e)
  PROVE  Orderly(With(w, e), NoFeed)
<1> DEFINE v == With(w, e)
<1>1. /\ v \in Worlds /\ v.d = e /\ v.fil = w.fil /\ v.priv = w.priv
      /\ v.tspriv = w.tspriv /\ v.dead = w.dead
  BY WorldWith DEF Orderly, Sound
<1> HIDE DEF v
<1>2. \A j \in Devs : Runs(v.fil[j]) => Fed(v, j, NoFeed)
  BY <1>1, SMTT(40) DEF Orderly, Fed, NoFeedTaken
<1>3. Owned(v, NoFeed)
  BY <1>1 DEF Orderly, Owned, NoFeedTaken
<1>4. ChainsOwned(v)
  BY <1>1 DEF Orderly, ChainsOwned, NoFeedTaken
<1>5. PidsShared(v)
  BY <1>1 DEF Orderly, PidsShared
<1>6. Orderly(v, NoFeed)
  BY <1>1, <1>2, <1>3, <1>4, <1>5 DEF Orderly
<1> QED BY <1>6 DEF v

(* The feed of a PES filter runs, for this filter alone. *)
LEMMA RunTs ==
  ASSUME Calm, NEW w, NEW p \in Feeds, Orderly(w, p), NEW k \in Devs,
         ~Runs(w.fil[k]), w.fil[k].type # "SEC", w.fil[k].state \in Armed,
         w.fil[k].feed = p, w.tspriv[p] = k,
         p \in w.d.list, w.d.feed[p].state = "READY", w.d.feed[p].type = "TS",
         w.d.feed[p].chain # {}, w.d.feed[p].pid = w.fil[k].pid, w.fil[k].pid \in Pids,
         \A j \in Devs : Runs(w.fil[j]) => w.fil[j].feed # p,
         NEW v \in run_ts(w, k)
  PROVE  /\ Orderly(v, NoFeed) /\ Keeps(w.fil[k], v.fil[k])
         /\ v.fil[k].buf = w.fil[k].buf /\ Meanwhile(w, v, k)
<1> DEFINE y == [w.fil[k] EXCEPT !.state = "GO"]
<1>1. /\ w \in Worlds /\ Sound(w.d) /\ w.fil[k] \in DevFilter /\ Consistent(w.fil[k])
      /\ w.dead = "no"
  BY DEF Orderly, Worlds
<1>2. /\ \A j \in Devs : Consistent(w.fil[j]) /\ (Runs(w.fil[j]) => Fed(w, j, p))
      /\ Owned(w, p) /\ ChainsOwned(w) /\ PidsShared(w)
  BY DEF Orderly
<1>3. PICK r \in ts_feed_start_filtering(w.d, w.fil[k].feed) :
        v \in IF r.ret # "ok" THEN {With(w, r.d)}
              ELSE {Set(With(w, r.d), k, [With(w, r.d).fil[k] EXCEPT !.state = "GO"])}
  BY DEF run_ts
<1>4. /\ r.ret = "ok" /\ Sound(r.d) /\ OnlyFeed(w.d, r.d, p)
      /\ p \in r.d.list /\ SameFeed(w.d.feed[p], r.d.feed[p])
      /\ r.d.feed[p].state = "GO" /\ r.d.feed[p].filtering
  <2>1. r \in ts_feed_start_filtering(w.d, p) /\ w.d.feed[p].state # "FREE"
    BY <1>3
  <2> QED BY <1>1, <2>1, TsStartEffect DEF Calm
<1> DEFINE u == With(w, r.d)
<1>5. /\ u \in Worlds /\ u.d = r.d /\ u.fil = w.fil /\ u.priv = w.priv
      /\ u.tspriv = w.tspriv /\ u.dead = w.dead
  BY <1>1, <1>4, WorldWith DEF Sound
<1>6. v = Set(u, k, y)
  BY <1>3, <1>4, <1>5
<1>a. /\ y \in DevFilter /\ y.state = "GO" /\ y.timer = w.fil[k].timer
      /\ y.type = w.fil[k].type /\ y.pid = w.fil[k].pid /\ y.file = w.fil[k].file
      /\ y.buf = w.fil[k].buf /\ y.feed = p
  BY <1>1 DEF DevFilter, Armed, Running
<1> HIDE DEF u, y
<1>7. /\ y \in DevFilter /\ Consistent(y) /\ Runs(y) /\ Keeps(w.fil[k], y)
      /\ y.buf = w.fil[k].buf /\ y.feed = p /\ y.type # "SEC" /\ y.pid = w.fil[k].pid
  BY <1>1, <1>a DEF Consistent, Runs, Running, Armed, Keeps
<1>8. /\ Set(u, k, y) \in Worlds
      /\ Set(u, k, y).d = u.d /\ Set(u, k, y).priv = u.priv
      /\ Set(u, k, y).tspriv = u.tspriv /\ Set(u, k, y).dead = u.dead
      /\ Set(u, k, y).fil[k] = y
      /\ \A j \in Devs \ {k} : Set(u, k, y).fil[j] = u.fil[j]
  BY <1>5, <1>7, WorldSet
<1>9. /\ v \in Worlds /\ v.d = r.d /\ v.tspriv = w.tspriv /\ v.priv = w.priv /\ v.dead = "no"
      /\ v.fil[k] = y /\ \A j \in Devs \ {k} : v.fil[j] = w.fil[j]
  BY <1>1, <1>5, <1>6, <1>8
<1>10. ASSUME NEW j \in Devs, Runs(v.fil[j])  PROVE Fed(v, j, NoFeed)
  <2>1. CASE j = k
    BY <1>4, <1>7, <1>9, <2>1, SMTT(40) DEF Fed, SameFeed
  <2>2. CASE j # k
    <3>1. v.fil[j] = w.fil[j] /\ Fed(w, j, p) /\ w.fil[j].feed # p
      BY <1>2, <1>9, <1>10, <2>2
    <3> QED BY <1>4, <1>9, <3>1, FedElsewhere
  <2> QED BY <2>1, <2>2
<1>11. Owned(v, NoFeed)
  <2> SUFFICES ASSUME NEW g \in Feeds, v.d.feed[g].state # "FREE"
               PROVE  \E j \in Devs : Runs(v.fil[j]) /\ v.fil[j].feed = g
    BY DEF Owned
  <2>1. CASE g = p
    BY <1>7, <1>9, <2>1
  <2>2. CASE g # p
    <3>1. w.d.feed[g].state # "FREE"
      BY <1>4, <1>9, <2>2 DEF OnlyFeed
    <3>2. PICK j \in Devs : Runs(w.fil[j]) /\ w.fil[j].feed = g
      BY <1>2, <2>2, <3>1 DEF Owned
    <3> QED BY <1>9, <3>2
  <2> QED BY <2>1, <2>2
<1>12. ChainsOwned(v)
  <2> SUFFICES ASSUME NEW g \in Feeds, v.d.feed[g].state # "FREE", v.d.feed[g].type = "SEC",
                      NEW j \in v.d.feed[g].chain
               PROVE  /\ v.priv[j] \in Devs
                      /\ Runs(v.fil[v.priv[j]]) /\ v.fil[v.priv[j]].type = "SEC"
                      /\ v.fil[v.priv[j]].sec = j /\ v.fil[v.priv[j]].feed = g
    BY DEF ChainsOwned
  <2>1. /\ w.d.feed[g].state # "FREE" /\ w.d.feed[g].type = "SEC"
        /\ j \in w.d.feed[g].chain
    BY <1>4, <1>9 DEF OnlyFeed, SameFeed
  <2>2. /\ w.priv[j] \in Devs /\ Runs(w.fil[w.priv[j]]) /\ w.fil[w.priv[j]].type = "SEC"
        /\ w.fil[w.priv[j]].sec = j /\ w.fil[w.priv[j]].feed = g
    BY <1>2, <2>1 DEF ChainsOwned
  <2> QED BY <1>9, <2>2
<1>13. PidsShared(v)
  <2>1. \A j \in Devs : v.fil[j].type = "SEC" => j # k /\ v.fil[j] = w.fil[j]
    BY <1>7, <1>9
  <2> QED BY <1>2, <2>1 DEF PidsShared
<1>14. \A j \in Devs : Consistent(v.fil[j])
  BY <1>2, <1>7, <1>9
<1>15. Orderly(v, NoFeed)
  BY <1>4, <1>9, <1>10, <1>11, <1>12, <1>13, <1>14 DEF Orderly
<1>16. Meanwhile(w, v, k)
  BY <1>9 DEF Meanwhile
<1> QED BY <1>7, <1>9, <1>15, <1>16

LEMMA StartPes ==
  ASSUME Calm, NEW w, Orderly(w, NoFeed), NEW k \in Devs, ~Runs(w.fil[k]),
         w.fil[k].type # "SEC", w.fil[k].state \in Armed, NEW v \in start_ts(w, k)
  PROVE  /\ Orderly(v, NoFeed) /\ Keeps(w.fil[k], v.fil[k])
         /\ v.fil[k].buf = w.fil[k].buf /\ Meanwhile(w, v, k)
<1> DEFINE x == w.fil[k]
           configured(b) ==
             UNION {IF r.ret = "ok" THEN run_ts(With(b, r.d), k)
                    ELSE release_ts(With(b, r.d), k) :
                    r \in ts_feed_set(b.d, b.fil[k].feed, x.pid, x.pes # OtherPes, x.pes)}
<1>1. /\ w \in Worlds /\ Sound(w.d) /\ x \in DevFilter /\ Consistent(x)
  BY DEF Orderly, Worlds
<1>2. PICK r \in allocate_ts_feed(w.d) :
        v \in IF r.ret # "ok"
              THEN {Set(With(w, r.d), k, [x EXCEPT !.feed = NoFeed])}
              ELSE configured([With(w, r.d) EXCEPT
                     !.fil[k] = [x EXCEPT !.feed = r.slot], !.tspriv[r.slot] = k])
  BY DEF start_ts
<1>3. CASE r.ret # "ok"
  <2> DEFINE u == With(w, r.d)
             y == [x EXCEPT !.feed = NoFeed]
  <2>1. Sound(r.d) /\ NoFeedTaken(w.d, r.d)
    BY <1>1, <1>2, <1>3, AllocateTsEffect
  <2>2. Orderly(u, NoFeed) /\ u.fil = w.fil /\ u \in Worlds
    BY <1>1, <2>1, NoneTaken, WorldWith DEF Sound
  <2>a. y \in DevFilter /\ Alias(x, y) /\ y.buf = x.buf
    BY <1>1 DEF DevFilter, Alias
  <2>4. v = Set(u, k, y)
    BY <1>2, <1>3
  <2> HIDE DEF u, y, configured
  <2>3. /\ y \in DevFilter /\ Consistent(y) /\ SamePlace(x, y) /\ Keeps(x, y)
        /\ y.buf = x.buf
    BY <1>1, <2>a, SameSelf
  <2>5. Orderly(v, NoFeed)
    BY <2>2, <2>3, <2>4, Rewrite
  <2>6. Set(u, k, y).fil[k] = y /\ \A j \in Devs \ {k} : Set(u, k, y).fil[j] = u.fil[j]
    BY <2>2, <2>3, WorldSet
  <2> QED BY <2>2, <2>3, <2>4, <2>5, <2>6 DEF Meanwhile
<1>4. CASE r.ret = "ok"
  <2> DEFINE f == r.slot
             y == [x EXCEPT !.feed = f]
             b == [With(w, r.d) EXCEPT !.fil[k] = y, !.tspriv[f] = k]
             c == [With(w, r.d) EXCEPT !.tspriv[f] = k]
  <2>1. /\ f \in Feeds /\ w.d.feed[f].state = "FREE" /\ Sound(r.d) /\ OnlyFeed(w.d, r.d, f)
        /\ r.d.feed[f].state = "ALLOCATED" /\ r.d.feed[f].type = "TS"
        /\ r.d.feed[f].chain # {} /\ ~r.d.feed[f].filtering
    BY <1>1, <1>2, <1>4, AllocateTsEffect
  <2>2. v \in configured(b)
    BY <1>2, <1>4
  <2> HIDE DEF f, configured
  <2>3. /\ With(w, r.d) \in Worlds /\ With(w, r.d).d = r.d /\ With(w, r.d).fil = w.fil
        /\ With(w, r.d).priv = w.priv /\ With(w, r.d).tspriv = w.tspriv
        /\ With(w, r.d).dead = w.dead
    BY <1>1, <2>1, WorldWith DEF Sound
  <2>4. /\ c \in Worlds /\ c.d = r.d /\ c.fil = w.fil /\ c.priv = w.priv /\ c.dead = w.dead
        /\ c.tspriv[f] = k /\ \A g \in Feeds \ {f} : c.tspriv[g] = w.tspriv[g]
    BY <2>1, <2>3 DEF Worlds
  <2>5. b = Set(c, k, [c.fil[k] EXCEPT !.feed = f])
    BY <1>1, <2>3, <2>4 DEF Set, Worlds
  <2> HIDE DEF c, b, y
  <2>6. Orderly(c, f) /\ \A j \in Devs : Runs(c.fil[j]) => c.fil[j].feed # f
    BY <2>1, <2>4, Arrive
  <2>7. /\ Orderly(b, f) /\ Starting(c, b, k) /\ b.d = c.d /\ b.tspriv = c.tspriv
        /\ b.fil[k].feed = f /\ b.fil[k].pes = c.fil[k].pes
        /\ \A j \in Devs \ {k} : b.fil[j] = c.fil[j]
    <3>1. ~Runs(c.fil[k])
      BY <2>4
    <3> QED BY <2>1, <2>5, <2>6, <3>1, TakeFeed
  <2>8. /\ ~Runs(b.fil[k]) /\ Keeps(w.fil[k], b.fil[k]) /\ b.fil[k].buf = w.fil[k].buf
        /\ Meanwhile(w, b, k) /\ b.fil[k].pid = w.fil[k].pid /\ b \in Worlds
        /\ b.fil[k].type # "SEC" /\ b.fil[k].state \in Armed
    BY <2>4, <2>7 DEF Starting, Meanwhile, Keeps, Orderly
  <2>9. PICK s \in ts_feed_set(b.d, b.fil[k].feed, x.pid, x.pes # OtherPes, x.pes) :
          v \in IF s.ret = "ok" THEN run_ts(With(b, s.d), k) ELSE release_ts(With(b, s.d), k)
    BY <2>2 DEF configured
  <2>10. PICK decoder \in BOOLEAN, pes \in PesTypes \cup {OtherPes} :
           s \in ts_feed_set(b.d, f, x.pid, decoder, pes)
    <3>1. x.pes \in PesTypes \cup {OtherPes}
      BY <1>1 DEF DevFilter
    <3>2. s \in ts_feed_set(b.d, f, x.pid, x.pes # OtherPes, x.pes)
      BY <2>7, <2>9
    <3> HIDE DEF x
    <3>3. CASE (x.pes # OtherPes) = TRUE
      <4>1. s \in ts_feed_set(b.d, f, x.pid, TRUE, x.pes)
        BY <3>2, <3>3
      <4> QED BY <3>1, <4>1
    <3>4. CASE (x.pes # OtherPes) = FALSE
      <4>1. s \in ts_feed_set(b.d, f, x.pid, FALSE, x.pes)
        BY <3>2, <3>4
      <4> QED BY <3>1, <4>1
    <3> QED BY <3>3, <3>4
  <2>11. \/ s.d = b.d /\ s.ret # "ok"
         \/ /\ s.ret = "ok" /\ Sound(s.d) /\ OnlyFeed(b.d, s.d, f)
            /\ f \in s.d.list /\ s.d.feed[f].pid = x.pid /\ x.pid \in Pids
            /\ s.d.feed[f].type = b.d.feed[f].type /\ s.d.feed[f].chain = b.d.feed[f].chain
            /\ s.d.feed[f].state = "READY" /\ ~s.d.feed[f].filtering
    <3>1. Sound(b.d) /\ b.d.feed[f].state # "FREE" /\ ~b.d.feed[f].filtering
      BY <2>1, <2>4, <2>7
    <3> HIDE DEF x
    <3>2. x.pid \in Pids \cup {BadPid}
      BY <1>1 DEF x, Consistent, DevFilter
    <3> DEFINE pid == x.pid
    <3>3. s \in ts_feed_set(b.d, f, pid, decoder, pes) /\ pid \in Pids \cup {BadPid}
      BY <2>10, <3>2
    <3> HIDE DEF pid
    <3>4. \/ s.d = b.d /\ s.ret # "ok"
          \/ /\ s.ret = "ok" /\ Sound(s.d) /\ OnlyFeed(b.d, s.d, f)
             /\ f \in s.d.list /\ s.d.feed[f].pid = pid /\ pid \in Pids
             /\ s.d.feed[f].type = b.d.feed[f].type /\ s.d.feed[f].chain = b.d.feed[f].chain
             /\ s.d.feed[f].state = "READY" /\ ~s.d.feed[f].filtering
      BY <2>1, <3>1, <3>3, TsSetEffect
    <3> QED BY <3>4 DEF pid
  <2>12. \A j \in Devs : Runs(b.fil[j]) => b.fil[j].feed # f
    BY <2>6, <2>7, <2>8
  <2>13. CASE s.ret = "ok"
    <3> DEFINE a == With(b, s.d)
    <3>1. /\ a \in Worlds /\ a.d = s.d /\ a.fil = b.fil /\ a.priv = b.priv
          /\ a.tspriv = b.tspriv /\ a.dead = b.dead
      BY <2>8, <2>11, <2>13, WorldWith DEF Sound
    <3>2. Orderly(a, f)
      <4>1. Orderly(w, NoFeed) /\ OnlyFeed(w.d, s.d, f)
        BY <2>1, <2>4, <2>7, <2>11, <2>13 DEF OnlyFeed
      <4>2. /\ a \in Worlds /\ a.d = s.d
            /\ \A j \in Devs : Runs(a.fil[j]) => Fed(a, j, f)
        <5>1. ASSUME NEW j \in Devs, Runs(b.fil[j])  PROVE Fed(a, j, f)
          <6>1. Fed(b, j, f) /\ b.fil[j].feed \in Feeds \ {f}
            BY <2>7, <2>12, <5>1 DEF Orderly, Fed
          <6>2. OnlyFeed(b.d, a.d, f)
            BY <2>11, <2>13, <3>1
          <6> HIDE DEF a
          <6> QED BY <3>1, <6>1, <6>2, FedElsewhere
        <5> QED BY <3>1, <5>1
      <4>3. Owned(a, f) /\ ChainsOwned(a) /\ PidsShared(a)
        <5>1. Owned(a, f)
          BY <2>7, <2>11, <2>13, <3>1 DEF Orderly, Owned, OnlyFeed
        <5>2. ChainsOwned(a)
          <6>1. ChainsOwned(b) /\ s.d.feed[f].type = "TS"
            BY <2>1, <2>4, <2>7, <2>11, <2>13 DEF Orderly
          <6> QED BY <2>11, <2>13, <3>1, <6>1 DEF ChainsOwned, OnlyFeed
        <5>3. PidsShared(a)
          BY <2>7, <3>1 DEF Orderly, PidsShared
        <5> QED BY <5>1, <5>2, <5>3
      <4> QED BY <2>7, <2>11, <2>13, <3>1, <4>2, <4>3 DEF Orderly
    <3>3. v \in run_ts(a, k)
      BY <2>9, <2>13
    <3> HIDE DEF a
    <3>4. /\ a.d.feed[f].chain # {} /\ a.d.feed[f].type = "TS" /\ a.d.feed[f].pid = a.fil[k].pid
          /\ f \in a.d.list /\ a.d.feed[f].state = "READY" /\ a.tspriv[f] = k
          /\ a.fil[k].pid \in Pids
      BY <2>1, <2>4, <2>7, <2>8, <2>11, <2>13, <3>1
    <3>5. /\ ~Runs(a.fil[k]) /\ a.fil[k].type # "SEC" /\ a.fil[k].state \in Armed
          /\ a.fil[k].feed = f /\ \A j \in Devs : Runs(a.fil[j]) => a.fil[j].feed # f
      BY <2>7, <2>8, <2>12, <3>1
    <3>6. /\ Orderly(v, NoFeed) /\ Keeps(a.fil[k], v.fil[k])
          /\ v.fil[k].buf = a.fil[k].buf /\ Meanwhile(a, v, k)
      BY <2>1, <3>2, <3>3, <3>4, <3>5, RunTs
    <3> QED BY <2>8, <3>1, <3>6 DEF Meanwhile, Keeps
  <2>14. CASE s.ret # "ok"
    <3>1. With(b, s.d) = b
      BY <2>8, <2>11, <2>14, SameWorld
    <3>2. v \in release_ts(b, k)
      BY <2>9, <2>14, <3>1
    <3>3. PICK q \in release_ts_feed(b.d, f) : v = With(b, q.d)
      BY <2>7, <3>2 DEF release_ts
    <3>4. Sound(b.d) /\ b.d.feed[f].state # "FREE" /\ ~b.d.feed[f].filtering
      BY <2>1, <2>4, <2>7
    <3>5. Sound(q.d) /\ OnlyFeed(b.d, q.d, f) /\ q.d.feed[f].state = "FREE"
      BY <2>1, <3>3, <3>4, ReleaseTsEffect DEF Calm
    <3>6. Orderly(v, NoFeed)
      BY <2>1, <2>7, <2>12, <3>3, <3>5, GiveBack
    <3>7. v.fil = b.fil
      BY <2>8, <3>3, <3>5, WorldWith DEF Sound
    <3> QED BY <2>8, <3>6, <3>7 DEF Meanwhile
  <2> QED BY <2>13, <2>14
<1> QED BY <1>3, <1>4

(* dvb_dmxdev_filter_start *)
LEMMA FilterStart ==
  ASSUME Calm, NEW w, Orderly(w, NoFeed), NEW k \in Devs, NEW v \in filter_start(w, k)
  PROVE  /\ Orderly(v, NoFeed) /\ Keeps(w.fil[k], v.fil[k]) /\ Meanwhile(w, v, k)
         /\ Fresh(w.fil[k]) => Fresh(v.fil[k])
<1>1. CASE w.fil[k].state \notin Armed
  <2>1. v = w
    BY <1>1 DEF filter_start
  <2> QED BY <2>1 DEF Keeps, Meanwhile
<1>2. CASE w.fil[k].state \in Armed
  <2>1. \E a \in filter_stop(w, k) : \E b \in flushed(a, k) :
          v \in IF b.fil[k].type = "SEC" THEN start_section(b, k) ELSE start_ts(b, k)
    BY <1>2 DEF filter_start, Then
  <2>2. PICK a \in filter_stop(w, k) : \E b \in flushed(a, k) :
          v \in IF b.fil[k].type = "SEC" THEN start_section(b, k) ELSE start_ts(b, k)
    BY <2>1
  <2>3. PICK b \in flushed(a, k) :
          v \in IF b.fil[k].type = "SEC" THEN start_section(b, k) ELSE start_ts(b, k)
    BY <2>2
  <2>4. /\ Orderly(a, NoFeed) /\ ~Runs(a.fil[k]) /\ Keeps(w.fil[k], a.fil[k])
        /\ Meanwhile(w, a, k)
    BY FilterStop
  <2>5. /\ Orderly(b, NoFeed) /\ ~Runs(b.fil[k]) /\ Keeps(a.fil[k], b.fil[k])
        /\ b.fil[k].buf = {} /\ Meanwhile(a, b, k)
    BY <2>4, Flush DEF SamePlace
  <2>6. b.fil[k].state \in Armed
    BY <1>2, <2>4, <2>5 DEF Keeps
  <2>7. /\ Orderly(v, NoFeed) /\ Keeps(b.fil[k], v.fil[k])
        /\ v.fil[k].buf = b.fil[k].buf /\ Meanwhile(b, v, k)
    <3>1. CASE b.fil[k].type = "SEC"
      BY <2>3, <2>5, <2>6, <3>1, StartSection
    <3>2. CASE b.fil[k].type # "SEC"
      BY <2>3, <2>5, <2>6, <3>2, StartPes
    <3> QED BY <3>1, <3>2
  <2>8. Keeps(w.fil[k], v.fil[k]) /\ Meanwhile(w, v, k) /\ v.fil[k].buf = {}
    BY <2>4, <2>5, <2>7 DEF Keeps, Meanwhile
  <2> QED BY <2>7, <2>8 DEF Fresh
<1> QED BY <1>1, <1>2

-----------------------------------------------------------------------------
(* The actions *)

InOrder(w) == Orderly(w, NoFeed) /\ \A k \in Devs : Fresh(w.fil[k])

LEMMA Inside ==
  ASSUME IInv
  PROVE  /\ InOrder(World) /\ World \in Worlds
         /\ World.fil = fil /\ World.d = dmx /\ World.priv = priv
         /\ World.tspriv = tspriv /\ World.dead = dead
  BY DEF IInv, World, InOrder, Orderly

LEMMA Ends ==
  ASSUME NEW w, InOrder(w), Becomes(w)
  PROVE  IInv'
<1>1. w \in Worlds
  BY DEF InOrder, Orderly
<1>2. World' = w
  BY <1>1 DEF Becomes, World, Worlds
<1>3. fil' = w.fil
  BY DEF Becomes
<1> QED BY <1>2, <1>3 DEF InOrder, IInv

LEMMA StaysFresh ==
  ASSUME NEW w, NEW v, NEW k \in Devs, \A j \in Devs : Fresh(w.fil[j]),
         Meanwhile(w, v, k), Fresh(v.fil[k])
  PROVE  \A j \in Devs : Fresh(v.fil[j])
  BY DEF Meanwhile, Fresh

(* A step that concerns one filter, and not its place in the demux *)
LEMMA OneFilter ==
  ASSUME NEW w, InOrder(w), NEW k \in Devs, NEW y \in DevFilter,
         Consistent(y), SamePlace(w.fil[k], y), Fresh(y)
  PROVE  InOrder(Set(w, k, y))
<1>1. w \in Worlds
  BY DEF InOrder, Orderly
<1>2. Orderly(Set(w, k, y), NoFeed)
  BY Rewrite DEF InOrder
<1>3. Set(w, k, y).fil[k] = y /\ \A j \in Devs \ {k} : Set(w, k, y).fil[j] = w.fil[j]
  BY <1>1, WorldSet
<1> HIDE DEF Set
<1> QED BY <1>2, <1>3 DEF InOrder

LEMMA Local ==
  ASSUME IInv, NEW k \in Devs, NEW y \in DevFilter,
         Consistent(y), SamePlace(fil[k], y), Fresh(y),
         fil' = [fil EXCEPT ![k] = y], UNCHANGED <<dmx, priv, tspriv, dead>>
  PROVE  IInv'
<1>1. InOrder(World) /\ World.fil = fil
  BY Inside
<1>2. InOrder(Set(World, k, y))
  BY <1>1, OneFilter
<1>3. Becomes(Set(World, k, y))
  BY DEF Becomes, Set, World
<1> QED BY <1>2, <1>3, Ends

(* What the invariant says of one filter *)
LEMMA Each ==
  ASSUME IInv, NEW k \in Devs
  PROVE  fil[k] \in DevFilter /\ Consistent(fil[k]) /\ Fresh(fil[k])
  BY DEF IInv, Orderly, World, Worlds

LEMMA InvInit == Init => IInv
<1> SUFFICES ASSUME Init PROVE IInv
  OBVIOUS
<1>1. [f \in Feeds |-> OtherPes] \in [Feeds -> PesTypes \cup {OtherPes}]
  OBVIOUS
<1>2. Sound(dmx) /\ \A f \in Feeds : dmx.feed[f].state = "FREE"
  BY <1>1, SoundInit DEF Init
<1>3. Closed \in DevFilter /\ Consistent(Closed) /\ ~Runs(Closed) /\ Fresh(Closed)
  BY DmxDevAssumption DEF Closed, DevFilter, Consistent, Runs, Running, Armed, Fresh
<1>4. World \in Worlds /\ World.dead = "no" /\ World.d = dmx /\ World.fil = fil
  BY <1>2, <1>3 DEF World, Worlds, Init, Sound
<1>5. \A k \in Devs : fil[k] = Closed
  BY DEF Init
<1> HIDE DEF Closed
<1>6. Orderly(World, NoFeed)
  BY <1>2, <1>3, <1>4, <1>5 DEF Orderly, Owned, ChainsOwned, PidsShared
<1> QED BY <1>3, <1>5, <1>6 DEF IInv

LEMMA OpenStep ==
  ASSUME IInv, NEW k \in Devs, Open(k)
  PROVE  IInv'
<1> DEFINE y == [Closed EXCEPT !.state = "ALLOCATED", !.file = TRUE]
<1>1. fil[k].state = "FREE"
  BY DEF Open, First
<1>2. /\ y \in DevFilter /\ Consistent(y) /\ SamePlace(fil[k], y) /\ Fresh(y)
  BY <1>1, DmxDevAssumption
  DEF Closed, DevFilter, Consistent, SamePlace, Runs, Running, Armed, Fresh
<1>3. fil' = [fil EXCEPT ![k] = y] /\ UNCHANGED <<dmx, priv, tspriv, dead>>
  BY DEF Open
<1> HIDE DEF y
<1> QED BY <1>2, <1>3, Local

LEMMA StopStep ==
  ASSUME Calm, IInv, NEW k \in Devs, NEW v \in filter_stop(World, k)
  PROVE  /\ InOrder(v) /\ ~Runs(v.fil[k]) /\ v.fil[k].buf = {}
         /\ Keeps(fil[k], v.fil[k]) /\ v \in Worlds
<1>1. InOrder(World) /\ World.fil = fil
  BY Inside
<1>2. /\ Orderly(v, NoFeed) /\ ~Runs(v.fil[k]) /\ Keeps(fil[k], v.fil[k])
      /\ v.fil[k].buf = {} /\ Meanwhile(World, v, k)
  BY <1>1, FilterStop DEF InOrder
<1>3. Fresh(v.fil[k])
  BY <1>2 DEF Fresh
<1> QED BY <1>1, <1>2, <1>3, StaysFresh DEF InOrder, Orderly

LEMMA StartStep ==
  ASSUME Calm, NEW w, InOrder(w), NEW k \in Devs, NEW v \in filter_start(w, k)
  PROVE  InOrder(v)
  BY FilterStart, StaysFresh DEF InOrder

LEMMA CloseStep ==
  ASSUME Calm, IInv, NEW k \in Devs, Close(k)
  PROVE  IInv'
<1>1. PICK w \in filter_free(World, k) : Becomes(w)
  BY DEF Close, Calm
<1>2. PICK v \in filter_stop(World, k) : w = Set(v, k, Closed)
  BY DEF filter_free, Then
<1>3. InOrder(v) /\ ~Runs(v.fil[k])
  BY StopStep
<1>4. Closed \in DevFilter /\ Consistent(Closed) /\ ~Runs(Closed) /\ Fresh(Closed)
  BY DmxDevAssumption DEF Closed, DevFilter, Consistent, Runs, Running, Armed, Fresh
<1>5. InOrder(Set(v, k, Closed))
  BY <1>3, <1>4, OneFilter DEF SamePlace
<1> QED BY <1>1, <1>2, <1>5, Ends

LEMMA SetFilterStep ==
  ASSUME Calm, IInv, NEW k \in Devs, SetFilter(k)
  PROVE  IInv'
<1>1. PICK req \in SecRequests[k] : \E w \in filter_stop(World, k) :
        LET v == set_section(w, k, req)
        IN  Becomes(v) \/ \E u \in filter_start(v, k) : Becomes(u)
  BY DEF SetFilter
<1>2. PICK w \in filter_stop(World, k) :
        LET v == set_section(w, k, req)
        IN  Becomes(v) \/ \E u \in filter_start(v, k) : Becomes(u)
  BY <1>1
<1>3. /\ InOrder(w) /\ ~Runs(w.fil[k]) /\ w.fil[k].buf = {} /\ Keeps(fil[k], w.fil[k])
      /\ w \in Worlds
  BY StopStep
<1> DEFINE y == [w.fil[k] EXCEPT !.state = "SET", !.type = "SEC", !.pid = req.pid,
                   !.oneshot = req.oneshot, !.timeout = req.timeout, !.crc = req.crc]
<1>4. req \in [pid : Pids, oneshot : BOOLEAN, timeout : BOOLEAN, crc : BOOLEAN]
  BY DmxDevAssumption
<1>5. w.fil[k] \in DevFilter /\ Consistent(w.fil[k]) /\ w.fil[k].file
  BY <1>3 DEF InOrder, Orderly, Worlds, Keeps, SetFilter
<1>6. /\ y \in DevFilter /\ y.state = "SET" /\ y.type = "SEC" /\ y.pid \in Pids
      /\ y.timer = w.fil[k].timer /\ y.file = w.fil[k].file /\ y.buf = {}
  BY <1>3, <1>4, <1>5, ZenonT(40) DEF DevFilter, Armed
<1>7. set_section(w, k, req) = Set(w, k, y)
  BY DEF set_section
<1> HIDE DEF y
<1>a. Consistent(y) /\ SamePlace(w.fil[k], y) /\ Fresh(y)
  BY <1>3, <1>5, <1>6 DEF Consistent, SamePlace, Runs, Running, Armed, Fresh
<1>8. InOrder(Set(w, k, y))
  BY <1>3, <1>6, <1>a, OneFilter
<1>9. Becomes(Set(w, k, y)) \/ \E u \in filter_start(Set(w, k, y), k) : Becomes(u)
  BY <1>2, <1>7
<1> QED BY <1>8, <1>9, StartStep, Ends

LEMMA SetPesFilterStep ==
  ASSUME Calm, IInv, NEW k \in Devs, SetPesFilter(k)
  PROVE  IInv'
<1>1. PICK req \in PesRequests[k] : \E w \in filter_stop(World, k) :
        LET v == set_pes(w, k, req)
        IN  Becomes(v) \/ \E u \in filter_start(v, k) : Becomes(u)
  BY DEF SetPesFilter
<1>2. PICK w \in filter_stop(World, k) :
        LET v == set_pes(w, k, req)
        IN  Becomes(v) \/ \E u \in filter_start(v, k) : Becomes(u)
  BY <1>1
<1>3. /\ InOrder(w) /\ ~Runs(w.fil[k]) /\ w.fil[k].buf = {} /\ Keeps(fil[k], w.fil[k])
      /\ w \in Worlds
  BY StopStep
<1> DEFINE y == [w.fil[k] EXCEPT !.state = "SET", !.type = "PES", !.pid = req.pid,
                   !.pes = req.pes, !.output = req.output]
<1>4. req \in [pid : Pids \cup {BadPid}, pes : PesTypes \cup {OtherPes},
               output : {"DECODER", "TAP"}]
  BY DmxDevAssumption
<1>5. w.fil[k] \in DevFilter /\ Consistent(w.fil[k]) /\ w.fil[k].file
  BY <1>3 DEF InOrder, Orderly, Worlds, Keeps, SetPesFilter
<1>6. /\ y \in DevFilter /\ y.state = "SET" /\ y.type = "PES" /\ y.pid \in Pids \cup {BadPid}
      /\ y.timer = w.fil[k].timer /\ y.file = w.fil[k].file /\ y.buf = {}
  BY <1>3, <1>4, <1>5 DEF DevFilter, Armed
<1>7. set_pes(w, k, req) = Set(w, k, y)
  BY DEF set_pes
<1> HIDE DEF y
<1>a. Consistent(y) /\ SamePlace(w.fil[k], y) /\ Fresh(y)
  BY <1>3, <1>5, <1>6 DEF Consistent, SamePlace, Runs, Running, Armed, Fresh
<1>8. InOrder(Set(w, k, y))
  BY <1>3, <1>6, <1>a, OneFilter
<1>9. Becomes(Set(w, k, y)) \/ \E u \in filter_start(Set(w, k, y), k) : Becomes(u)
  BY <1>2, <1>7
<1> QED BY <1>8, <1>9, StartStep, Ends

LEMMA FlushStep ==
  ASSUME IInv, NEW k \in Devs, SetBufferSize(k)
  PROVE  IInv'
<1> DEFINE y == [fil[k] EXCEPT !.buf = {}]
<1>1. fil[k] \in DevFilter /\ Consistent(fil[k])
  BY Each
<1>2. y \in DevFilter /\ Consistent(y) /\ SamePlace(fil[k], y) /\ Fresh(y)
  BY <1>1 DEF DevFilter, Consistent, SamePlace, Runs, Fresh
<1>3. Becomes(Set(World, k, y))
  BY DEF SetBufferSize, flushed, World
<1>4. InOrder(World) /\ World.fil = fil
  BY Inside
<1> HIDE DEF y
<1> QED BY <1>2, <1>3, <1>4, OneFilter, Ends

LEMMA ReadStep ==
  ASSUME IInv, NEW k \in Devs, Read(k)
  PROVE  IInv'
<1>1. /\ fil[k] \in DevFilter /\ Consistent(fil[k])
  BY Each
<1>2. PICK e \in {"none", fil[k].err} : fil' = [fil EXCEPT ![k] = [@ EXCEPT !.err = e, !.buf = {}]]
  <2>1. CASE fil' = [fil EXCEPT ![k].err = "none", ![k].buf = {}]
    BY <2>1
  <2>2. CASE fil' = [fil EXCEPT ![k].buf = {}]
    <3>1. [fil[k] EXCEPT !.buf = {}] = [fil[k] EXCEPT !.err = fil[k].err, !.buf = {}]
      BY <1>1 DEF DevFilter
    <3> QED BY <2>2, <3>1
  <2> QED BY <2>1, <2>2 DEF Read
<1> DEFINE y == [fil[k] EXCEPT !.err = e, !.buf = {}]
<1>3. /\ y \in DevFilter /\ y.buf = {} /\ y.state = fil[k].state /\ y.type = fil[k].type
      /\ y.pid = fil[k].pid /\ y.timer = fil[k].timer /\ y.timeout = fil[k].timeout
      /\ y.file = fil[k].file /\ y.feed = fil[k].feed /\ y.sec = fil[k].sec
  BY <1>1, ZenonT(40) DEF DevFilter
<1>4. fil' = [fil EXCEPT ![k] = y] /\ UNCHANGED <<dmx, priv, tspriv, dead>>
  BY <1>2 DEF Read
<1> HIDE DEF y
<1>5. Consistent(y) /\ SamePlace(fil[k], y) /\ Fresh(y)
  BY <1>1, <1>3 DEF Consistent, SamePlace, Runs, Fresh
<1> QED BY <1>3, <1>4, <1>5, Local

LEMMA TimeoutStep ==
  ASSUME IInv, NEW k \in Devs, Timeout(k)
  PROVE  IInv'
<1> DEFINE y == timed_out(fil[k])
<1>1. /\ fil[k] \in DevFilter /\ Consistent(fil[k]) /\ Fresh(fil[k])
  BY Each
<1>a. /\ y \in DevFilter /\ y.state = "TIMEDOUT" /\ ~y.timer /\ y.type = fil[k].type
      /\ y.pid = fil[k].pid /\ y.file = fil[k].file /\ y.buf = fil[k].buf
      /\ y.feed = fil[k].feed /\ y.sec = fil[k].sec
  <2>1. y = [fil[k] EXCEPT !.state = "TIMEDOUT", !.err = "ETIMEDOUT", !.timer = FALSE]
    BY DEF timed_out
  <2> HIDE DEF y
  <2>2. y \in DevFilter
    BY <1>1, <2>1 DEF DevFilter, Armed, Running
  <2>3. /\ y.state = "TIMEDOUT" /\ ~y.timer /\ y.type = fil[k].type
        /\ y.pid = fil[k].pid /\ y.file = fil[k].file /\ y.buf = fil[k].buf
        /\ y.feed = fil[k].feed /\ y.sec = fil[k].sec
    BY <1>1, <2>1 DEF DevFilter
  <2> QED BY <2>2, <2>3
<1>3. fil' = [fil EXCEPT ![k] = y] /\ UNCHANGED <<dmx, priv, tspriv, dead>> /\ fil[k].timer
  BY DEF Timeout
<1> HIDE DEF y
<1>2. y \in DevFilter /\ Consistent(y) /\ SamePlace(fil[k], y) /\ Fresh(y)
  BY <1>1, <1>3, <1>a DEF Consistent, SamePlace, Runs, Running, Armed, Fresh
<1> QED BY <1>2, <1>3, Local

(* Whoever the packet path reaches is running, on the pid of the feed. *)
LEMMA Reached ==
  ASSUME IInv, NEW f \in Live
  PROVE  /\ f \in Feeds
         /\ dmx.feed[f].type = "SEC" => \A i \in dmx.feed[f].chain :
              /\ priv[i] \in Devs
              /\ LET x == fil[priv[i]] IN
                 /\ Runs(x) /\ x.type = "SEC" /\ x.pid = dmx.feed[f].pid
                 /\ x.sec = i /\ x.feed = f
         /\ dmx.feed[f].type # "SEC" =>
              /\ tspriv[f] \in Devs
              /\ LET x == fil[tspriv[f]] IN
                 /\ Runs(x) /\ x.type # "SEC" /\ x.pid = dmx.feed[f].pid /\ x.feed = f
<1>1. /\ Orderly(World, NoFeed) /\ World.d = dmx /\ World.fil = fil /\ World.priv = priv
      /\ World.tspriv = tspriv
  BY Inside DEF InOrder
<1>2. /\ Sound(dmx) /\ \A j \in Devs : Runs(fil[j]) => Fed(World, j, NoFeed)
      /\ Owned(World, NoFeed) /\ ChainsOwned(World)
  BY <1>1 DEF Orderly
<1> HIDE DEF World
<1>3. f \in Feeds /\ dmx.feed[f].filtering /\ f # NoFeed
  BY <1>2, DemuxAssumption DEF Live, Sound, Demux
<1>4. dmx.feed[f].state # "FREE"
  BY <1>2, <1>3 DEF Sound, DriverRunsFiltering
<1>5. CASE dmx.feed[f].type = "SEC"
  <2> SUFFICES ASSUME NEW i \in dmx.feed[f].chain
               PROVE  /\ priv[i] \in Devs
                      /\ Runs(fil[priv[i]]) /\ fil[priv[i]].type = "SEC"
                      /\ fil[priv[i]].pid = dmx.feed[f].pid
                      /\ fil[priv[i]].sec = i /\ fil[priv[i]].feed = f
    BY <1>3, <1>5
  <2>1. /\ priv[i] \in Devs /\ Runs(fil[priv[i]]) /\ fil[priv[i]].type = "SEC"
        /\ fil[priv[i]].sec = i /\ fil[priv[i]].feed = f
    BY <1>1, <1>2, <1>3, <1>4, <1>5 DEF ChainsOwned
  <2> QED BY <1>1, <1>2, <2>1 DEF Fed
<1>6. CASE dmx.feed[f].type # "SEC"
  <2>1. PICK j \in Devs : Runs(fil[j]) /\ fil[j].feed = f
    BY <1>1, <1>2, <1>3, <1>4 DEF Owned
  <2>2. fil[j].type # "SEC" /\ tspriv[f] = j /\ fil[j].pid = dmx.feed[f].pid
    BY <1>1, <1>2, <1>6, <2>1 DEF Fed
  <2> QED BY <1>3, <1>6, <2>1, <2>2
<1> QED BY <1>5, <1>6

LEMMA WrittenFilter ==
  ASSUME NEW x \in DevFilter, Consistent(x), Fresh(x), Runs(x),
         NEW y \in written(x, x.pid)
  PROVE  y \in DevFilter /\ Consistent(y) /\ SamePlace(x, y) /\ Fresh(y) /\ y.state = x.state
         /\ y.timer = x.timer /\ y.type = x.type
<1>1. x.pid \in Pids
  BY DEF Consistent
<1>2. /\ y \in DevFilter /\ y.buf \subseteq {x.pid} /\ y.state = x.state /\ y.type = x.type
      /\ y.pid = x.pid /\ y.timer = x.timer /\ y.timeout = x.timeout
      /\ y.file = x.file /\ y.feed = x.feed /\ y.sec = x.sec
  <2> DEFINE full == x.buf \cup {x.pid}
  <2>1. full \in SUBSET Pids /\ full \subseteq {x.pid}
    BY <1>1 DEF DevFilter, Fresh
  <2>2. y = [x EXCEPT !.buf = full] \/ y = [x EXCEPT !.buf = {}, !.err = "EOVERFLOW"]
    BY DEF written
  <2> HIDE DEF full
  <2>3. CASE y = [x EXCEPT !.buf = full]
    BY <2>1, <2>3 DEF DevFilter
  <2>4. CASE y = [x EXCEPT !.buf = {}, !.err = "EOVERFLOW"]
    BY <2>4 DEF DevFilter
  <2> QED BY <2>2, <2>3, <2>4
<1> QED BY <1>2 DEF Consistent, SamePlace, Runs, Fresh

LEMMA SectionStep ==
  ASSUME IInv, NEW f \in Feeds, NEW i \in Filters, Section(f, i)
  PROVE  IInv'
<1> DEFINE k == priv[i]
           x == fil[k]
           z == [x EXCEPT !.timer = FALSE]
<1>1. /\ k \in Devs /\ Runs(x) /\ x.type = "SEC" /\ x.pid = dmx.feed[f].pid
  BY Reached DEF Section
<1>2. PICK y \in section_callback(x, dmx.feed[f].pid) : fil' = [fil EXCEPT ![k] = y]
  BY DEF Section
<1>3. x \in DevFilter /\ Consistent(x) /\ Fresh(x)
  BY <1>1, Each
<1>4. UNCHANGED <<dmx, priv, tspriv, dead>>
  BY DEF Section
<1> HIDE DEF x
<1>b. /\ z \in DevFilter /\ z.buf = x.buf /\ z.state = x.state /\ z.type = x.type
      /\ z.pid = x.pid /\ ~z.timer /\ z.timeout = x.timeout
      /\ z.file = x.file /\ z.feed = x.feed /\ z.sec = x.sec
  BY <1>3 DEF DevFilter
<1> HIDE DEF z
<1>5. /\ z \in DevFilter /\ Consistent(z) /\ Fresh(z) /\ SamePlace(x, z) /\ z.pid = x.pid
      /\ z.state = x.state /\ ~z.timer /\ z.type = x.type
  BY <1>3, <1>b DEF Consistent, Fresh, SamePlace, Runs
<1>6. y \in DevFilter /\ Consistent(y) /\ SamePlace(x, y) /\ Fresh(y)
  <2>1. CASE y = x
    BY <1>3, <2>1 DEF SamePlace
  <2>2. CASE y # x
    <3>1. PICK a \in written(z, x.pid) : y = finished(a)
      BY <1>1, <1>2, <2>2 DEF section_callback, z
    <3>2. /\ a \in DevFilter /\ Consistent(a) /\ SamePlace(z, a) /\ Fresh(a)
          /\ a.state = z.state /\ a.timer = z.timer /\ a.type = z.type
      BY <1>1, <1>5, <3>1, WrittenFilter DEF SamePlace
    <3>3. Runs(a) /\ ~a.timer /\ a.type = "SEC"
      BY <1>1, <1>5, <3>2 DEF Runs
    <3>4. /\ y \in DevFilter /\ Consistent(y) /\ SamePlace(a, y) /\ Fresh(y)
      BY <3>1, <3>2, <3>3
      DEF finished, DevFilter, Consistent, SamePlace, Runs, Running, Armed, Fresh
    <3> QED BY <1>5, <3>2, <3>4 DEF SamePlace
  <2> QED BY <2>1, <2>2
<1> QED BY <1>1, <1>2, <1>4, <1>6, Local DEF x

LEMMA PayloadStep ==
  ASSUME IInv, NEW f \in Feeds, Payload(f)
  PROVE  IInv'
<1> DEFINE k == tspriv[f]
           x == fil[k]
<1>1. /\ k \in Devs /\ Runs(x) /\ x.pid = dmx.feed[f].pid
  BY Reached DEF Payload
<1>2. PICK y \in ts_callback(x, dmx.feed[f].pid) : fil' = [fil EXCEPT ![k] = y]
  BY DEF Payload
<1>3. x \in DevFilter /\ Consistent(x) /\ Fresh(x)
  BY <1>1, Each
<1>4. UNCHANGED <<dmx, priv, tspriv, dead>>
  BY DEF Payload
<1> HIDE DEF x
<1>5. y \in DevFilter /\ Consistent(y) /\ SamePlace(x, y) /\ Fresh(y)
  <2>1. y = x \/ y \in written(x, x.pid)
    BY <1>1, <1>2 DEF ts_callback
  <2> QED BY <1>1, <1>3, <2>1, WrittenFilter DEF SamePlace
<1> QED BY <1>1, <1>2, <1>4, <1>5, Local DEF x

-----------------------------------------------------------------------------
(* Whatever is interrupted, refused or expires in between: types, and the   *)
(* timers of the filters                                                    *)

Timed(x) ==
  /\ x.timer => x.state = "GO" /\ x.timeout /\ x.type = "SEC" /\ x.feed # NoFeed
  /\ x.state \in Armed => x.pid \in Pids \cup {BadPid}
Tame(w) ==
  /\ w \in Worlds /\ Registered(w.d)
  /\ \A j \in Devs : Timed(w.fil[j])

(* What the parts of an ioctl on a filter leave alone, and do not start *)
Spot(x, y) == /\ y.type = x.type /\ y.feed = x.feed /\ y.pid = x.pid
              /\ y.timer => x.timer
              /\ x.state \in Armed => y.state \in Armed

LEMMA TameSet ==
  ASSUME NEW w, Tame(w), NEW k \in Devs, NEW x \in DevFilter, Timed(x)
  PROVE  /\ Tame(Set(w, k, x)) /\ Set(w, k, x).fil[k] = x /\ Set(w, k, x).d = w.d
         /\ \A j \in Devs \ {k} : Set(w, k, x).fil[j] = w.fil[j]
<1>1. /\ Set(w, k, x) \in Worlds /\ Set(w, k, x).d = w.d
      /\ Set(w, k, x).fil[k] = x
      /\ \A j \in Devs \ {k} : Set(w, k, x).fil[j] = w.fil[j]
  BY WorldSet DEF Tame
<1> QED BY <1>1 DEF Tame

LEMMA TameWith ==
  ASSUME NEW w, Tame(w), NEW d, Registered(d)
  PROVE  Tame(With(w, d)) /\ With(w, d).fil = w.fil /\ With(w, d).d = d
<1>1. With(w, d) \in Worlds /\ With(w, d).fil = w.fil /\ With(w, d).d = d
  BY WorldWith DEF Tame, Registered
<1> QED BY <1>1 DEF Tame

LEMMA TameFilter ==
  ASSUME NEW w, Tame(w), NEW k \in Devs
  PROVE  w.fil[k] \in DevFilter /\ Timed(w.fil[k]) /\ Registered(w.d)
  BY DEF Tame, Worlds

LEMMA TameFeedStart ==
  ASSUME NEW w, Tame(w), NEW j \in Devs, NEW k \in Devs, w.fil[j].state \in Armed,
         NEW v \in feed_start(w, j)
  PROVE  Tame(v) /\ Spot(w.fil[k], v.fil[k])
<1> DEFINE x == [w.fil[j] EXCEPT !.state = "GO"]
<1>1. w.fil[j] \in DevFilter /\ Timed(w.fil[j]) /\ Registered(w.d)
  BY TameFilter
<1>2. /\ x \in DevFilter /\ Timed(x) /\ x.type = w.fil[j].type /\ x.feed = w.fil[j].feed
      /\ x.pid = w.fil[j].pid /\ x.timer = w.fil[j].timer /\ x.state \in Armed
  BY <1>1 DEF DevFilter, Timed, Armed, Running
<1>3. \/ x.feed = NoFeed /\ v = [Set(w, j, x) EXCEPT !.dead = "oops"]
      \/ /\ x.feed # NoFeed
         /\ \E r \in section_feed_start_filtering(w.d, x.feed) \cup ts_feed_start_filtering(w.d, x.feed) :
              v = Set(With(w, r.d), j, x)
  BY DEF feed_start
<1> HIDE DEF x
<1>4. CASE x.feed = NoFeed /\ v = [Set(w, j, x) EXCEPT !.dead = "oops"]
  <2> DEFINE u == Set(w, j, x)
  <2>1. Tame(u) /\ u.fil[j] = x /\ \A i \in Devs \ {j} : u.fil[i] = w.fil[i]
    BY <1>2, TameSet
  <2>2. v = [u EXCEPT !.dead = "oops"]
    BY <1>4
  <2> HIDE DEF u
  <2>3. v \in Worlds /\ v.fil = u.fil /\ v.d = u.d
    BY <2>1, <2>2 DEF Tame, Worlds
  <2>4. Tame(v)
    BY <2>1, <2>3 DEF Tame
  <2> QED BY <1>2, <2>1, <2>3, <2>4 DEF Spot
<1>5. ASSUME x.feed # NoFeed,
             NEW r \in section_feed_start_filtering(w.d, x.feed) \cup ts_feed_start_filtering(w.d, x.feed),
             v = Set(With(w, r.d), j, x)
      PROVE  Tame(v) /\ Spot(w.fil[k], v.fil[k])
  <2> DEFINE u == With(w, r.d)
  <2>0. x.feed \in Feeds
    BY <1>2, <1>5 DEF DevFilter
  <2>1. Registered(r.d)
    BY <1>1, <2>0, SectionStartRegistered, TsStartRegistered
  <2>2. Tame(u) /\ u.fil = w.fil /\ v = Set(u, j, x)
    BY <1>5, <2>1, TameWith
  <2> HIDE DEF u
  <2>3. Tame(v) /\ v.fil[j] = x /\ \A i \in Devs \ {j} : v.fil[i] = w.fil[i]
    BY <1>2, <2>2, TameSet
  <2> QED BY <1>2, <2>3 DEF Spot
<1> QED BY <1>3, <1>4, <1>5

LEMMA TameRestart ==
  ASSUME NEW w, Tame(w), NEW k \in Devs, w.fil[k].feed \in Feeds,
         NEW v \in feed_restart(w, k)
  PROVE  Tame(v) /\ Spot(w.fil[k], v.fil[k])
<1>1. ASSUME NEW j \in sharer(w, w.fil[k].pid), v \in feed_start(w, j)
      PROVE  Tame(v) /\ Spot(w.fil[k], v.fil[k])
  <2>1. j \in Devs /\ w.fil[j].state \in Armed
    BY <1>1 DEF sharer, First, Armed
  <2> QED BY <1>1, <2>1, TameFeedStart
<1>2. ASSUME NEW r \in release_section_feed(w.d, w.fil[k].feed), v = With(w, r.d)
      PROVE  Tame(v) /\ Spot(w.fil[k], v.fil[k])
  <2>1. Registered(r.d)
    BY <1>2, TameFilter, ReleaseSectionRegistered
  <2>2. Tame(v) /\ v.fil = w.fil
    BY <1>2, <2>1, TameWith
  <2> QED BY <2>2 DEF Spot
<1>3. \/ \E j \in sharer(w, w.fil[k].pid) : v \in feed_start(w, j)
      \/ \E r \in release_section_feed(w.d, w.fil[k].feed) : v = With(w, r.d)
  BY DEF feed_restart
<1> QED BY <1>1, <1>2, <1>3

LEMMA TameReleaseFilter ==
  ASSUME NEW w, Tame(w), NEW k \in Devs, w.fil[k].feed \in Feeds,
         NEW v \in release_filter(w, k)
  PROVE  Tame(v) /\ Spot(w.fil[k], v.fil[k])
<1>1. CASE w.fil[k].sec = NoFilter
  BY <1>1 DEF release_filter, Spot
<1>2. CASE w.fil[k].sec # NoFilter
  <2>1. w.fil[k].sec \in Filters /\ Registered(w.d)
    BY <1>2, TameFilter DEF DevFilter
  <2>2. PICK r \in section_feed_release_filter(w.d, w.fil[k].feed, w.fil[k].sec) :
          v = [With(w, r.d) EXCEPT !.dead = IF r.ret = "DEADLOCK" THEN "hung" ELSE @]
    BY <1>2 DEF release_filter
  <2>3. Registered(r.d)
    BY <2>1, ReleaseFilterRegistered
  <2>4. Tame(With(w, r.d)) /\ With(w, r.d).fil = w.fil
    BY <2>3, TameWith
  <2> DEFINE u == With(w, r.d)
  <2>5. v = [u EXCEPT !.dead = IF r.ret = "DEADLOCK" THEN "hung" ELSE @]
    BY <2>2
  <2> HIDE DEF u
  <2>6. Tame(u) /\ u.fil = w.fil
    BY <2>4 DEF u
  <2>7. v \in Worlds /\ v.fil = u.fil /\ v.d = u.d
    BY <2>5, <2>6 DEF Tame, Worlds
  <2>8. Tame(v)
    BY <2>6, <2>7 DEF Tame
  <2> QED BY <2>6, <2>7, <2>8 DEF Spot
<1> QED BY <1>1, <1>2

(* Stopping the feed leaves no timer, whoever has expired meanwhile. *)
LEMMA TameFeedStop ==
  ASSUME NEW w, Tame(w), NEW k \in Devs, w.fil[k].feed \in Feeds, w.fil[k].state \in Armed,
         NEW v \in feed_stop(w, k)
  PROVE  /\ Tame(v) /\ Spot(w.fil[k], v.fil[k])
         /\ ~v.fil[k].timer
<1> DEFINE x == [w.fil[k] EXCEPT !.state = "SET"]
<1>1. w.fil[k] \in DevFilter /\ Timed(w.fil[k]) /\ Registered(w.d)
  BY TameFilter
<1>2. /\ x \in DevFilter /\ x.state = "SET" /\ x.type = w.fil[k].type /\ x.feed = w.fil[k].feed
      /\ x.pid = w.fil[k].pid /\ x.timer = w.fil[k].timer
  BY <1>1 DEF DevFilter, Armed
<1>3. PICK r \in section_feed_stop_filtering(w.d, x.feed) \cup ts_feed_stop_filtering(w.d, x.feed) :
        \E y \in IF x.type = "SEC" THEN Window(x, del_timer(x)) ELSE {x} :
          v = Set(With(w, r.d), k, y)
  BY DEF feed_stop
<1> HIDE DEF x
<1>4. PICK y \in (IF x.type = "SEC" THEN Window(x, del_timer(x)) ELSE {x}) :
        v = Set(With(w, r.d), k, y)
  BY <1>3
<1>5. y \in {x} \/ (x.type = "SEC" /\ y \in {del_timer(x), timed_out(x)})
  BY <1>4 DEF Window
<1>6. /\ y \in DevFilter /\ y.state \in {"SET", "TIMEDOUT"} /\ y.type = x.type /\ y.feed = x.feed
      /\ y.pid = x.pid /\ ~y.timer
  <2>1. x.type # "SEC" => ~x.timer
    BY <1>1, <1>2 DEF Timed
  <2>2. CASE x.type # "SEC"
    BY <1>2, <1>4, <2>1, <2>2
  <2>3. CASE x.type = "SEC" /\ y = del_timer(x)
    BY <1>2, <2>3 DEF del_timer, DevFilter
  <2>4. CASE x.type = "SEC" /\ y = timed_out(x)
    BY <1>2, <2>4 DEF timed_out, DevFilter, Armed, Running
  <2> QED BY <1>4, <2>2, <2>3, <2>4 DEF Window
<1>7. Timed(y) /\ Spot(w.fil[k], y)
  BY <1>1, <1>2, <1>6 DEF Timed, Spot, Armed, Running
<1>8. Registered(r.d)
  BY <1>1, <1>2, SectionStopRegistered, TsStopRegistered
<1> DEFINE u == With(w, r.d)
<1>9. Tame(u) /\ v = Set(u, k, y)
  BY <1>4, <1>8, TameWith
<1> HIDE DEF u
<1>10. Tame(v) /\ v.fil[k] = y
  BY <1>6, <1>7, <1>9, TameSet
<1> QED BY <1>6, <1>7, <1>10

LEMMA TameFlush ==
  ASSUME NEW w, Tame(w), NEW k \in Devs, NEW v \in flushed(w, k)
  PROVE  Tame(v) /\ Spot(w.fil[k], v.fil[k])
<1> DEFINE x == [w.fil[k] EXCEPT !.buf = {}]
<1>1. w.fil[k] \in DevFilter /\ Timed(w.fil[k])
  BY TameFilter
<1>2. /\ x \in DevFilter /\ Timed(x) /\ Spot(w.fil[k], x)
  BY <1>1 DEF DevFilter, Timed, Spot
<1>3. v = Set(w, k, x)
  BY DEF flushed
<1> HIDE DEF x
<1> QED BY <1>2, <1>3, TameSet

(* dvb_dmxdev_filter_stop *)
LEMMA TameStop ==
  ASSUME NEW w, Tame(w), NEW k \in Devs, NEW v \in filter_stop(w, k)
  PROVE  /\ Tame(v) /\ ~v.fil[k].timer
         /\ v.fil[k].type = w.fil[k].type /\ v.fil[k].pid = w.fil[k].pid
         /\ w.fil[k].state \in Armed => v.fil[k].state \in Armed
<1> DEFINE Left(u) == /\ Tame(u) /\ ~u.fil[k].timer
                      /\ u.fil[k].type = w.fil[k].type /\ u.fil[k].pid = w.fil[k].pid
                      /\ w.fil[k].state \in Armed => u.fil[k].state \in Armed
<1>1. w.fil[k] \in DevFilter /\ Timed(w.fil[k])
  BY TameFilter
<1>2. CASE w.fil[k].state \notin Running
  <2>1. v = w
    BY <1>2 DEF filter_stop
  <2> QED BY <1>1, <1>2, <2>1 DEF Timed, Running
<1>3. CASE w.fil[k].state \in Running
  <2> DEFINE release(u) == release_filter(u, k)
             restart(u) == feed_restart(u, k)
             free(u) == release_ts(u, k)
             detach(u) == detached(u, k)
             flush(u) == flushed(u, k)
             stopped == feed_stop(w, k)
             W == IF w.fil[k].feed = NoFeed THEN {w} ELSE
                  IF w.fil[k].type = "SEC"
                  THEN Then(Then(Then(stopped, release), restart), detach)
                  ELSE Then(Then(stopped, free), detach)
  <2>1. v \in Then(W, flush)
    BY <1>3, Zenon DEF filter_stop
  <2>2. PICK q \in W : v \in flushed(q, k)
    BY <2>1 DEF Then
  <2>3. Left(q)
    <3>1. CASE w.fil[k].feed = NoFeed
      <4>1. q = w
        BY <2>2, <3>1
      <4> QED BY <1>1, <3>1, <4>1 DEF Timed
    <3>2. CASE w.fil[k].feed # NoFeed
      <4>0. w.fil[k].feed \in Feeds /\ w.fil[k].state \in Armed
        BY <1>1, <1>3, <3>2 DEF DevFilter, Armed
      <4> DEFINE Mid(u) == /\ Tame(u) /\ ~u.fil[k].timer /\ u.fil[k].feed \in Feeds
                           /\ u.fil[k].type = w.fil[k].type /\ u.fil[k].pid = w.fil[k].pid
                           /\ u.fil[k].state \in Armed
      <4>1. \A u \in stopped : Mid(u)
        BY <4>0, TameFeedStop DEF Spot
      <4>2. ASSUME NEW u, Mid(u), NEW t \in release_filter(u, k)  PROVE Mid(t)
        BY <4>2, TameReleaseFilter DEF Spot
      <4>3. ASSUME NEW u, Mid(u), NEW t \in feed_restart(u, k)  PROVE Mid(t)
        BY <4>3, TameRestart DEF Spot
      <4>4. ASSUME NEW u, Mid(u), NEW t \in release_ts(u, k)  PROVE Mid(t)
        <5>1. PICK r \in release_ts_feed(u.d, u.fil[k].feed) : t = With(u, r.d)
          BY <4>4 DEF release_ts
        <5>2. Registered(r.d)
          BY <4>4, TameFilter, ReleaseTsRegistered
        <5>3. Tame(t) /\ t.fil = u.fil
          BY <4>4, <5>1, <5>2, TameWith
        <5> QED BY <4>4, <5>3
      <4>5. ASSUME NEW u, Mid(u), NEW t \in detached(u, k)  PROVE Left(t)
        <5> DEFINE y == [u.fil[k] EXCEPT !.feed = NoFeed, !.sec = NoFilter]
        <5>1. u.fil[k] \in DevFilter /\ Timed(u.fil[k])
          BY <4>5, TameFilter
        <5>2. /\ y \in DevFilter /\ Timed(y) /\ ~y.timer /\ y.type = w.fil[k].type
              /\ y.pid = w.fil[k].pid /\ y.state \in Armed
          BY <4>5, <5>1 DEF DevFilter, Timed
        <5>3. t = Set(u, k, y)
          BY <4>5 DEF detached
        <5> HIDE DEF y
        <5>4. Tame(t) /\ t.fil[k] = y
          BY <4>5, <5>2, <5>3, TameSet
        <5> QED BY <5>2, <5>4
      <4> HIDE DEF stopped, Mid, Left
      <4>6. CASE w.fil[k].type = "SEC"
        <5>1. PICK c \in Then(Then(stopped, release), restart) : q \in detached(c, k)
          BY <2>2, <3>2, <4>6 DEF Then
        <5>2. PICK b \in Then(stopped, release) : c \in feed_restart(b, k)
          BY <5>1 DEF Then
        <5>3. PICK a \in stopped : b \in release_filter(a, k)
          BY <5>2 DEF Then
        <5> QED BY <4>1, <4>2, <4>3, <4>5, <5>1, <5>2, <5>3
      <4>7. CASE w.fil[k].type # "SEC"
        <5>1. PICK c \in Then(stopped, free) : q \in detached(c, k)
          BY <2>2, <3>2, <4>7 DEF Then
        <5>2. PICK a \in stopped : c \in release_ts(a, k)
          BY <5>1 DEF Then
        <5> QED BY <4>1, <4>4, <4>5, <5>1, <5>2
      <4> QED BY <4>6, <4>7
    <3> QED BY <3>1, <3>2
  <2>4. Tame(v) /\ Spot(q.fil[k], v.fil[k])
    BY <2>2, <2>3, TameFlush
  <2> QED BY <2>3, <2>4 DEF Spot
<1> QED BY <1>2, <1>3

(* A feed of its own, or the feed of a running filter of the same pid; a    *)
(* filter that was refused one goes without.                                *)
Waiting(u, k) == /\ Tame(u) /\ ~u.fil[k].timer /\ u.fil[k].type = "SEC"
                 /\ u.fil[k].state \in Armed

LEMMA WaitingWith ==
  ASSUME NEW w, NEW k \in Devs, Waiting(w, k), NEW d, Registered(d)
  PROVE  Waiting(With(w, d), k) /\ With(w, d).d = d /\ With(w, d).fil = w.fil
<1>1. Tame(With(w, d)) /\ With(w, d).fil = w.fil /\ With(w, d).d = d
  BY TameWith DEF Waiting
<1> QED BY <1>1 DEF Waiting

LEMMA WaitingFilter ==
  ASSUME NEW w, NEW k \in Devs, Waiting(w, k), NEW x \in DevFilter,
         x.state = w.fil[k].state, x.type = "SEC", x.pid = w.fil[k].pid, ~x.timer
  PROVE  Waiting(Set(w, k, x), k) /\ Set(w, k, x).fil[k] = x
<1>1. Timed(x)
  BY TameFilter DEF Timed, Waiting
<1>2. Tame(Set(w, k, x)) /\ Set(w, k, x).fil[k] = x
  BY <1>1, TameSet DEF Waiting
<1> QED BY <1>2 DEF Waiting

LEMMA WaitingFeed ==
  ASSUME NEW w, NEW k \in Devs, Waiting(w, k), NEW f \in Feeds
  PROVE  /\ Waiting(Set(w, k, [w.fil[k] EXCEPT !.feed = f]), k)
         /\ Set(w, k, [w.fil[k] EXCEPT !.feed = f]).fil[k].feed = f
<1> DEFINE x == [w.fil[k] EXCEPT !.feed = f]
<1>1. w.fil[k] \in DevFilter
  BY TameFilter DEF Waiting
<1>2. /\ x \in DevFilter /\ x.state = w.fil[k].state /\ x.type = w.fil[k].type
      /\ x.pid = w.fil[k].pid /\ x.timer = w.fil[k].timer /\ x.feed = f
  BY <1>1 DEF DevFilter
<1>3. x.type = "SEC" /\ ~x.timer
  BY <1>2 DEF Waiting
<1> HIDE DEF x
<1>4. Waiting(Set(w, k, x), k) /\ Set(w, k, x).fil[k].feed = f
  BY <1>2, <1>3, WaitingFilter
<1> QED BY <1>4 DEF x

LEMMA WaitingRestart ==
  ASSUME NEW w, NEW k \in Devs, Waiting(w, k), w.fil[k].feed \in Feeds,
         NEW v \in feed_restart(w, k)
  PROVE  Waiting(v, k) /\ v.fil[k].feed = w.fil[k].feed
<1>1. Tame(v) /\ Spot(w.fil[k], v.fil[k])
  BY TameRestart DEF Waiting
<1> QED BY <1>1 DEF Waiting, Spot

LEMMA TameNewFeed ==
  ASSUME NEW w, NEW k \in Devs, Waiting(w, k), NEW q \in new_feed(w, k)
  PROVE  Waiting(q.w, k) /\ (q.ret = "ok" => q.w.fil[k].feed \in Feeds)
<1>1. /\ w.fil[k] \in DevFilter /\ Registered(w.d) /\ w.fil[k].pid \in Pids \cup {BadPid}
  BY TameFilter DEF Waiting, Timed
<1>2. PICK a \in allocate_section_feed(w.d) :
        q \in IF a.ret # "ok" THEN Ret(With(w, a.d), a.ret)
              ELSE UNION {LET v == Set(With(w, s.d), k, [w.fil[k] EXCEPT !.feed = a.slot])
                          IN  IF s.ret = "ok" THEN Ret(v, "ok")
                              ELSE UNION {Ret(u, s.ret) : u \in feed_restart(v, k)} :
                          s \in section_feed_set(a.d, a.slot, w.fil[k].pid, w.fil[k].crc)}
  BY DEF new_feed
<1>3. Registered(a.d) /\ (a.ret = "ok" => a.slot \in Feeds)
  BY <1>1, <1>2, AllocateSectionRegistered
<1>4. CASE a.ret # "ok"
  <2>1. q.w = With(w, a.d) /\ q.ret # "ok"
    BY <1>2, <1>4 DEF Ret
  <2> QED BY <1>3, <2>1, WaitingWith
<1>5. CASE a.ret = "ok"
  <2> DEFINE f == a.slot
  <2>1. PICK s \in section_feed_set(a.d, f, w.fil[k].pid, w.fil[k].crc) :
          q \in LET v == Set(With(w, s.d), k, [w.fil[k] EXCEPT !.feed = f])
                IN  IF s.ret = "ok" THEN Ret(v, "ok")
                    ELSE UNION {Ret(u, s.ret) : u \in feed_restart(v, k)}
    BY <1>2, <1>5
  <2>2. PICK b \in BOOLEAN : s \in section_feed_set(a.d, f, w.fil[k].pid, b)
    <3>1. w.fil[k].crc \in BOOLEAN
      BY <1>1 DEF DevFilter
    <3>2. CASE w.fil[k].crc = TRUE
      BY <2>1, <3>2
    <3>3. CASE w.fil[k].crc = FALSE
      BY <2>1, <3>3
    <3> QED BY <3>1, <3>2, <3>3
  <2>3. f \in Feeds
    BY <1>3, <1>5
  <2> HIDE DEF f
  <2>4. Registered(s.d)
    BY <1>1, <1>3, <2>2, <2>3, SectionSetRegistered
  <2> DEFINE u == With(w, s.d)
             v == Set(u, k, [w.fil[k] EXCEPT !.feed = f])
  <2>5. Waiting(u, k) /\ u.fil = w.fil
    BY <2>4, WaitingWith
  <2>6. q \in IF s.ret = "ok" THEN Ret(v, "ok")
              ELSE UNION {Ret(t, s.ret) : t \in feed_restart(v, k)}
    BY <2>1
  <2> HIDE DEF u
  <2>7. Waiting(v, k) /\ v.fil[k].feed = f
    <3>1. v = Set(u, k, [u.fil[k] EXCEPT !.feed = f])
      BY <2>5
    <3> QED BY <2>3, <2>5, <3>1, WaitingFeed
  <2> HIDE DEF v
  <2>8. CASE s.ret = "ok"
    <3>1. q.w = v
      BY <2>6, <2>8 DEF Ret
    <3> QED BY <2>3, <2>7, <3>1
  <2>9. CASE s.ret # "ok"
    <3>1. PICK t \in feed_restart(v, k) : q.w = t /\ q.ret = s.ret
      BY <2>6, <2>9 DEF Ret
    <3> QED BY <2>3, <2>7, <2>9, <3>1, WaitingRestart
  <2> QED BY <2>8, <2>9
<1> QED BY <1>4, <1>5

LEMMA TameFindFeed ==
  ASSUME NEW w, NEW k \in Devs, Waiting(w, k), NEW q \in find_feed(w, k)
  PROVE  Waiting(q.w, k) /\ (q.ret = "ok" => q.w.fil[k].feed \in Feeds)
<1> DEFINE shared == {w.fil[j].feed : j \in sharer(w, w.fil[k].pid)} \ {NoFeed}
<1>1. CASE shared = {}
  <2>1. q \in new_feed(w, k)
    BY <1>1 DEF find_feed
  <2> QED BY <2>1, TameNewFeed
<1>2. CASE shared # {}
  <2>1. q \in UNION {UNION {Ret(v, "ok") :
                    v \in feed_stop(Set(w, k, [w.fil[k] EXCEPT !.feed = f]), k)} :
                  f \in shared}
    BY <1>2 DEF find_feed
  <2>2. PICK f \in shared : q \in UNION {Ret(v, "ok") :
                    v \in feed_stop(Set(w, k, [w.fil[k] EXCEPT !.feed = f]), k)}
    BY <2>1
  <2>3. f \in Feeds
    <3>1. PICK j \in sharer(w, w.fil[k].pid) : f = w.fil[j].feed /\ f # NoFeed
      BY <2>2
    <3>2. j \in Devs
      BY <3>1 DEF sharer, First
    <3> QED BY <3>1, <3>2, TameFilter DEF Waiting, DevFilter
  <2> HIDE DEF shared
  <2> DEFINE u == Set(w, k, [w.fil[k] EXCEPT !.feed = f])
  <2>4. Waiting(u, k) /\ u.fil[k].feed = f
    BY <2>3, WaitingFeed
  <2>5. PICK v \in feed_stop(u, k) : q.w = v
    BY <2>2 DEF Ret
  <2> HIDE DEF u
  <2>6. Tame(v) /\ Spot(u.fil[k], v.fil[k]) /\ ~v.fil[k].timer
    BY <2>3, <2>4, <2>5, TameFeedStop DEF Waiting
  <2> QED BY <2>3, <2>4, <2>5, <2>6 DEF Waiting, Spot
<1> QED BY <1>1, <1>2

LEMMA TameRunSection ==
  ASSUME NEW w, NEW k \in Devs, Waiting(w, k), w.fil[k].feed \in Feeds,
         NEW i \in Filters, NEW v \in run_section(w, k, i)
  PROVE  Tame(v)
<1> DEFINE x == [w.fil[k] EXCEPT !.sec = i]
           b(r) == [With(w, r.d) EXCEPT !.fil[k] = x, !.priv[i] = k]
<1>1. w.fil[k] \in DevFilter /\ Timed(w.fil[k]) /\ Registered(w.d)
  BY TameFilter DEF Waiting
<1>2. /\ x \in DevFilter /\ x.feed \in Feeds /\ x.type = "SEC" /\ x.state \in Armed
      /\ ~x.timer /\ x.pid \in Pids \cup {BadPid}
  BY <1>1 DEF DevFilter, Waiting, Timed
<1>3. PICK r \in section_feed_start_filtering(w.d, x.feed) :
        v \in IF r.ret # "ok" THEN {b(r)} ELSE
              {Set(b(r), k, [y EXCEPT !.state = "GO"]) :
                 y \in Window(filter_timer(x), filter_timer(x))}
  BY DEF run_section
<1> HIDE DEF x
<1>4. Registered(r.d)
  BY <1>1, <1>2, <1>3, SectionStartRegistered
<1> DEFINE u == With(w, r.d)
<1>5. Tame(u) /\ b(r) = [u EXCEPT !.fil[k] = x, !.priv[i] = k]
  BY <1>4, TameWith DEF Waiting
<1> HIDE DEF u
<1>6. Tame(b(r))
  <2>1. Timed(x)
    BY <1>2 DEF Timed
  <2> DEFINE t == [u EXCEPT !.priv[i] = k]
  <2>2. t \in Worlds /\ t.d = u.d /\ t.fil = u.fil
    BY <1>5 DEF Tame, Worlds
  <2>3. Tame(t)
    BY <1>5, <2>2 DEF Tame
  <2>4. b(r) = Set(t, k, x)
    <3>1. u \in Worlds
      BY <1>5 DEF Tame
    <3> QED BY <1>5, <3>1 DEF Set, Worlds
  <2> HIDE DEF t
  <2> QED BY <1>2, <2>1, <2>3, <2>4, TameSet
<1>7. ASSUME r.ret = "ok"  PROVE Tame(v)
  <2> DEFINE c == b(r)
  <2>1. PICK y \in Window(filter_timer(x), filter_timer(x)) :
          v = Set(c, k, [y EXCEPT !.state = "GO"])
    BY <1>3, <1>7
  <2> HIDE DEF b
  <2> DEFINE z == [y EXCEPT !.state = "GO"]
             g == filter_timer(x)
  <2>2. /\ g \in DevFilter /\ (g.timer => g.timeout) /\ g.feed = x.feed /\ g.type = x.type
        /\ g.pid = x.pid
    <3>1. g = [x EXCEPT !.timer = x.timeout]
      BY DEF filter_timer
    <3> HIDE DEF g
    <3> QED BY <1>2, <3>1 DEF DevFilter
  <2>3. y = g \/ y = timed_out(g)
    BY <2>1 DEF Window
  <2> HIDE DEF g
  <2>4. /\ y \in DevFilter /\ (y.timer => y.timeout) /\ y.feed = x.feed /\ y.type = x.type
        /\ y.pid = x.pid
    <3>1. CASE y = g
      BY <2>2, <3>1
    <3>2. CASE y = timed_out(g)
      <4>1. y = [g EXCEPT !.state = "TIMEDOUT", !.err = "ETIMEDOUT", !.timer = FALSE]
        BY <3>2 DEF timed_out
      <4> QED BY <2>2, <4>1 DEF DevFilter, Armed, Running
    <3> QED BY <2>3, <3>1, <3>2
  <2>5. /\ z \in DevFilter /\ (z.timer => z.timeout) /\ z.state = "GO" /\ z.feed = x.feed
        /\ z.type = x.type /\ z.pid = x.pid
    BY <2>4 DEF DevFilter, Armed, Running
  <2> HIDE DEF z
  <2>6. Timed(z)
    BY <1>2, <2>5, DemuxAssumption DEF Timed
  <2>7. Tame(c) /\ v = Set(c, k, z)
    BY <1>6, <2>1 DEF z
  <2> HIDE DEF c
  <2> QED BY <2>5, <2>6, <2>7, TameSet
<1> QED BY <1>3, <1>6, <1>7

(* dvb_dmxdev_filter_start, case DMXDEV_TYPE_SEC *)
LEMMA TameStartSection ==
  ASSUME NEW w, NEW k \in Devs, Waiting(w, k), NEW v \in start_section(w, k)
  PROVE  Tame(v)
<1> DEFINE bare == [w.fil[k] EXCEPT !.feed = NoFeed, !.sec = NoFilter]
           u == Set(w, k, bare)
<1>1. PICK found \in find_feed(u, k) :
        v \in IF found.ret # "ok" THEN {found.w} ELSE
              UNION {IF r.ret # "ok" THEN no_filter(With(found.w, r.d), k)
                     ELSE run_section(With(found.w, r.d), k, r.slot) :
                     r \in section_feed_allocate_filter(found.w.d, found.w.fil[k].feed)}
  BY DEF start_section
<1>2. Waiting(u, k)
  <2>1. w.fil[k] \in DevFilter
    BY TameFilter DEF Waiting
  <2>2. /\ bare \in DevFilter /\ bare.state = w.fil[k].state /\ bare.type = w.fil[k].type
        /\ bare.pid = w.fil[k].pid /\ bare.timer = w.fil[k].timer
    BY <2>1 DEF DevFilter
  <2> HIDE DEF bare
  <2> QED BY <2>2, WaitingFilter DEF Waiting
<1> HIDE DEF u
<1> DEFINE a == found.w
<1>3. Waiting(a, k) /\ (found.ret = "ok" => a.fil[k].feed \in Feeds)
  BY <1>1, <1>2, TameFindFeed
<1>4. CASE found.ret # "ok"
  BY <1>1, <1>3, <1>4 DEF Waiting
<1>5. CASE found.ret = "ok"
  <2>1. PICK r \in section_feed_allocate_filter(a.d, a.fil[k].feed) :
          v \in IF r.ret # "ok" THEN no_filter(With(a, r.d), k)
                ELSE run_section(With(a, r.d), k, r.slot)
    BY <1>1, <1>5
  <2> HIDE DEF a
  <2>2. Registered(r.d) /\ (r.ret = "ok" => r.slot \in Filters)
    BY <1>3, <1>5, <2>1, AllocateFilterRegistered DEF Waiting, Tame
  <2> DEFINE c == With(a, r.d)
  <2>3. Waiting(c, k) /\ c.fil[k].feed \in Feeds
    BY <1>3, <1>5, <2>2, WaitingWith
  <2>4. v \in IF r.ret # "ok" THEN no_filter(c, k) ELSE run_section(c, k, r.slot)
    BY <2>1
  <2> HIDE DEF c
  <2>5. CASE r.ret # "ok"
    <3>1. PICK b \in feed_restart(c, k) :
            v \in {With(b, s.d) : s \in section_feed_start_filtering(b.d, b.fil[k].feed)}
      BY <2>4, <2>5 DEF no_filter
    <3>2. PICK s \in section_feed_start_filtering(b.d, b.fil[k].feed) : v = With(b, s.d)
      BY <3>1
    <3>3. Waiting(b, k) /\ b.fil[k].feed \in Feeds
      BY <2>3, <3>1, WaitingRestart
    <3>4. Registered(s.d)
      BY <3>2, <3>3, SectionStartRegistered DEF Waiting, Tame
    <3> QED BY <3>2, <3>3, <3>4, WaitingWith DEF Waiting
  <2>6. CASE r.ret = "ok"
    BY <2>2, <2>3, <2>4, <2>6, TameRunSection
  <2> QED BY <2>5, <2>6
<1> QED BY <1>4, <1>5

(* dvb_dmxdev_filter_start, case DMXDEV_TYPE_PES *)
LEMMA TameStartTs ==
  ASSUME NEW w, NEW k \in Devs, Tame(w), ~w.fil[k].timer, w.fil[k].state \in Armed,
         NEW v \in start_ts(w, k)
  PROVE  Tame(v)
<1> DEFINE x == w.fil[k]
           configured(b) ==
             UNION {IF r.ret = "ok" THEN run_ts(With(b, r.d), k)
                    ELSE release_ts(With(b, r.d), k) :
                    r \in ts_feed_set(b.d, b.fil[k].feed, x.pid, x.pes # OtherPes, x.pes)}
           y(f) == [x EXCEPT !.feed = f]
<1>1. x \in DevFilter /\ Timed(x) /\ Registered(w.d) /\ x.pid \in Pids \cup {BadPid}
  BY TameFilter DEF Timed
<1>2. PICK r \in allocate_ts_feed(w.d) :
        v \in IF r.ret # "ok"
              THEN {Set(With(w, r.d), k, [x EXCEPT !.feed = NoFeed])}
              ELSE configured([With(w, r.d) EXCEPT
                     !.fil[k] = [x EXCEPT !.feed = r.slot], !.tspriv[r.slot] = k])
  BY DEF start_ts
<1>3. Registered(r.d) /\ (r.ret = "ok" => r.slot \in Feeds)
  BY <1>1, <1>2, AllocateTsRegistered
<1> DEFINE u == With(w, r.d)
<1>4. Tame(u) /\ u.d = r.d
  BY <1>3, TameWith
<1>5. ASSUME NEW f \in Feeds \cup {NoFeed}
      PROVE  /\ y(f) \in DevFilter /\ Timed(y(f)) /\ y(f).feed = f
             /\ ~y(f).timer /\ y(f).state \in Armed /\ y(f).pes = x.pes
  BY <1>1 DEF DevFilter, Timed
<1>6. v \in IF r.ret # "ok" THEN {Set(u, k, y(NoFeed))}
            ELSE configured([u EXCEPT !.fil[k] = y(r.slot), !.tspriv[r.slot] = k])
  BY <1>2
<1> HIDE DEF u, x, y, configured
<1>7. CASE r.ret # "ok"
  <2>1. v = Set(u, k, y(NoFeed)) /\ y(NoFeed) \in DevFilter /\ Timed(y(NoFeed))
    BY <1>5, <1>6, <1>7
  <2> QED BY <1>4, <2>1, TameSet
<1>8. CASE r.ret = "ok"
  <2> DEFINE f == r.slot
             t == [u EXCEPT !.tspriv[f] = k]
             b == Set(t, k, y(f))
  <2>1. f \in Feeds
    BY <1>3, <1>8
  <2>2. v \in configured([u EXCEPT !.fil[k] = y(f), !.tspriv[f] = k])
    BY <1>6, <1>8
  <2> HIDE DEF f
  <2>3. u \in Worlds
    BY <1>4 DEF Tame
  <2>4. t \in Worlds /\ t.d = u.d /\ t.fil = u.fil
    BY <2>1, <2>3 DEF Worlds
  <2>5. Tame(t)
    BY <1>4, <2>4 DEF Tame
  <2>6. v \in configured(b)
    <3>1. [u EXCEPT !.fil[k] = y(f), !.tspriv[f] = k] = b
      BY <2>3 DEF Set, Worlds
    <3> QED BY <2>2, <3>1
  <2>a. b = Set(t, k, y(f))
    OBVIOUS
  <2> HIDE DEF t, b
  <2>7. Tame(b) /\ b.fil[k] = y(f)
    <3>1. y(f) \in DevFilter /\ Timed(y(f))
      BY <1>5, <2>1
    <3> QED BY <2>5, <2>a, <3>1, TameSet
  <2>8. b.fil[k].feed = f /\ ~b.fil[k].timer /\ b.fil[k].state \in Armed
    BY <1>5, <2>1, <2>7
  <2>9. PICK s \in ts_feed_set(b.d, b.fil[k].feed, x.pid, x.pes # OtherPes, x.pes) :
          v \in IF s.ret = "ok" THEN run_ts(With(b, s.d), k) ELSE release_ts(With(b, s.d), k)
    BY <2>6 DEF configured
  <2>10. PICK decoder \in BOOLEAN, pes \in PesTypes \cup {OtherPes} :
           s \in ts_feed_set(b.d, f, x.pid, decoder, pes)
    <3>1. x.pes \in PesTypes \cup {OtherPes}
      BY <1>1 DEF DevFilter
    <3>2. s \in ts_feed_set(b.d, f, x.pid, x.pes # OtherPes, x.pes)
      BY <2>8, <2>9
    <3>3. CASE (x.pes # OtherPes) = TRUE
      <4>1. s \in ts_feed_set(b.d, f, x.pid, TRUE, x.pes)
        BY <3>2, <3>3
      <4> QED BY <3>1, <4>1
    <3>4. CASE (x.pes # OtherPes) = FALSE
      <4>1. s \in ts_feed_set(b.d, f, x.pid, FALSE, x.pes)
        BY <3>2, <3>4
      <4> QED BY <3>1, <4>1
    <3> QED BY <3>3, <3>4
  <2>11. Registered(s.d)
    <3> DEFINE pid == x.pid
    <3>1. s \in ts_feed_set(b.d, f, pid, decoder, pes) /\ pid \in Pids \cup {BadPid}
      BY <1>1, <2>10
    <3> HIDE DEF pid
    <3> QED BY <2>1, <2>7, <3>1, TsSetRegistered DEF Tame
  <2> DEFINE c == With(b, s.d)
  <2>12. Tame(c) /\ c.fil = b.fil
    BY <2>7, <2>11, TameWith
  <2>13. v \in IF s.ret = "ok" THEN run_ts(c, k) ELSE release_ts(c, k)
    BY <2>9
  <2> HIDE DEF c
  <2>14. c.fil[k].feed \in Feeds /\ ~c.fil[k].timer /\ c.fil[k].state \in Armed
    BY <2>1, <2>8, <2>12
  <2>15. CASE s.ret # "ok"
    <3>1. PICK e \in release_ts_feed(c.d, c.fil[k].feed) : v = With(c, e.d)
      BY <2>13, <2>15 DEF release_ts
    <3>2. Registered(e.d)
      BY <2>12, <2>14, <3>1, ReleaseTsRegistered DEF Tame
    <3> QED BY <2>12, <3>1, <3>2, TameWith
  <2>16. CASE s.ret = "ok"
    <3>1. PICK e \in ts_feed_start_filtering(c.d, c.fil[k].feed) :
            v \in LET a == With(c, e.d)
                  IN  IF e.ret # "ok" THEN {a} ELSE {Set(a, k, [a.fil[k] EXCEPT !.state = "GO"])}
      BY <2>13, <2>16 DEF run_ts
    <3>2. Registered(e.d)
      BY <2>12, <2>14, <3>1, TsStartRegistered DEF Tame
    <3> DEFINE a == With(c, e.d)
               z == [a.fil[k] EXCEPT !.state = "GO"]
    <3>3. Tame(a) /\ a.fil = c.fil
      BY <2>12, <3>2, TameWith
    <3>4. v = a \/ v = Set(a, k, z)
      BY <3>1
    <3> HIDE DEF a
    <3>5. /\ z \in DevFilter /\ ~z.timer /\ z.pid \in Pids \cup {BadPid}
      <4>1. a.fil[k] \in DevFilter /\ Timed(a.fil[k])
        BY <3>3, TameFilter
      <4>2. ~a.fil[k].timer /\ a.fil[k].state \in Armed
        BY <2>14, <3>3
      <4> HIDE DEF a
      <4> QED BY <4>1, <4>2 DEF DevFilter, Timed, Armed, Running
    <3> HIDE DEF z
    <3> QED BY <3>3, <3>4, <3>5, TameSet DEF Timed
  <2> QED BY <2>15, <2>16
<1> QED BY <1>7, <1>8

LEMMA TameFilterStart ==
  ASSUME NEW w, Tame(w), NEW k \in Devs, NEW v \in filter_start(w, k)
  PROVE  Tame(v)
<1>1. CASE w.fil[k].state \notin Armed
  BY <1>1 DEF filter_start
<1>2. CASE w.fil[k].state \in Armed
  <2>1. \E a \in filter_stop(w, k) : \E b \in flushed(a, k) :
          v \in IF b.fil[k].type = "SEC" THEN start_section(b, k) ELSE start_ts(b, k)
    BY <1>2 DEF filter_start, Then
  <2>2. PICK a \in filter_stop(w, k) : \E b \in flushed(a, k) :
          v \in IF b.fil[k].type = "SEC" THEN start_section(b, k) ELSE start_ts(b, k)
    BY <2>1
  <2>3. PICK b \in flushed(a, k) :
          v \in IF b.fil[k].type = "SEC" THEN start_section(b, k) ELSE start_ts(b, k)
    BY <2>2
  <2>4. Tame(a) /\ ~a.fil[k].timer /\ a.fil[k].state \in Armed
    BY <1>2, TameStop
  <2>5. Tame(b) /\ ~b.fil[k].timer /\ b.fil[k].state \in Armed
    BY <2>3, <2>4, TameFlush DEF Spot
  <2>6. CASE b.fil[k].type = "SEC"
    BY <2>3, <2>5, <2>6, TameStartSection DEF Waiting
  <2>7. CASE b.fil[k].type # "SEC"
    BY <2>3, <2>5, <2>7, TameStartTs
  <2> QED BY <2>6, <2>7
<1> QED BY <1>1, <1>2

LEMMA TameEnds ==
  ASSUME NEW w, Tame(w), Becomes(w)
  PROVE  Tame(World)'
<1>1. World' = w
  BY DEF Becomes, World, Worlds, Tame
<1> QED BY <1>1 DEF Tame

LEMMA TameHere ==
  ASSUME Tame(World), NEW k \in Devs
  PROVE  fil[k] \in DevFilter /\ Timed(fil[k]) /\ World.fil = fil
  BY DEF World, Tame, Worlds

LEMMA TameLocal ==
  ASSUME Tame(World), NEW k \in Devs, NEW y \in DevFilter, Timed(y),
         fil' = [fil EXCEPT ![k] = y], UNCHANGED <<dmx, priv, tspriv, dead>>
  PROVE  Tame(World)'
<1>1. Tame(Set(World, k, y))
  BY TameSet
<1>2. Becomes(Set(World, k, y))
  BY DEF Becomes, Set, World
<1> QED BY <1>1, <1>2, TameEnds

LEMMA TameClosed == Closed \in DevFilter /\ Timed(Closed)
  BY DmxDevAssumption DEF Closed, DevFilter, Timed, Armed, Running

LEMMA TameInit == Init => Tame(World)
<1> SUFFICES ASSUME Init PROVE Tame(World)
  OBVIOUS
<1>1. [f \in Feeds |-> OtherPes] \in [Feeds -> PesTypes \cup {OtherPes}]
  OBVIOUS
<1>2. dmx \in Demux /\ dmx.list = {}
  <2>1. dmx \in Demux
    BY <1>1, SoundInit DEF Init, Sound
  <2>2. dmx.list = {}
    BY DEF Init, dmx_init
  <2> QED BY <2>1, <2>2
<1>3. World \in Worlds /\ World.d = dmx /\ World.fil = fil
  BY <1>2, TameClosed DEF World, Worlds, Init
<1>4. \A k \in Devs : Timed(fil[k])
  BY TameClosed DEF Init
<1> QED BY <1>2, <1>3, <1>4 DEF Tame, Registered

LEMMA TameClose ==
  ASSUME Tame(World), NEW k \in Devs, Close(k)
  PROVE  Tame(World)'
<1>1. ASSUME NEW w \in filter_free(World, k), Becomes(w)
      PROVE  Tame(World)'
  <2>1. PICK v \in filter_stop(World, k) : w = Set(v, k, Closed)
    BY <1>1 DEF filter_free, Then
  <2>2. Tame(w)
    BY <2>1, TameStop, TameClosed, TameSet
  <2> QED BY <1>1, <2>2, TameEnds
<1>2. CASE fil' = [fil EXCEPT ![k].file = FALSE] /\ UNCHANGED <<dmx, priv, tspriv, dead>>
  <2> DEFINE y == [fil[k] EXCEPT !.file = FALSE]
  <2>1. y \in DevFilter /\ Timed(y)
    BY TameHere, ZenonT(40) DEF DevFilter, Timed
  <2>2. fil' = [fil EXCEPT ![k] = y]
    BY <1>2
  <2> HIDE DEF y
  <2> QED BY <1>2, <2>1, <2>2, TameLocal
<1> QED BY <1>1, <1>2 DEF Close

(* A request is written into a filter that filter_stop left without timer. *)
LEMMA TameRequest ==
  ASSUME Tame(World), NEW k \in Devs, NEW w \in filter_stop(World, k),
         NEW x \in DevFilter, ~x.timer, x.pid \in Pids \cup {BadPid},
         LET v == Set(w, k, x)
         IN  Becomes(v) \/ \E u \in filter_start(v, k) : Becomes(u)
  PROVE  Tame(World)'
<1> DEFINE v == Set(w, k, x)
<1>1. Tame(v)
  BY TameStop, TameSet DEF Timed
<1>2. Becomes(v) \/ \E u \in filter_start(v, k) : Becomes(u)
  OBVIOUS
<1> HIDE DEF v
<1> QED BY <1>1, <1>2, TameFilterStart, TameEnds

LEMMA TameSetFilter ==
  ASSUME Tame(World), NEW k \in Devs, SetFilter(k)
  PROVE  Tame(World)'
<1>1. PICK req \in SecRequests[k] : \E w \in filter_stop(World, k) :
        LET v == set_section(w, k, req)
        IN  Becomes(v) \/ \E u \in filter_start(v, k) : Becomes(u)
  BY DEF SetFilter
<1>2. PICK w \in filter_stop(World, k) :
        LET v == set_section(w, k, req)
        IN  Becomes(v) \/ \E u \in filter_start(v, k) : Becomes(u)
  BY <1>1
<1> DEFINE y == [w.fil[k] EXCEPT !.state = "SET", !.type = "SEC", !.pid = req.pid,
                   !.oneshot = req.oneshot, !.timeout = req.timeout, !.crc = req.crc]
<1>3. req \in [pid : Pids, oneshot : BOOLEAN, timeout : BOOLEAN, crc : BOOLEAN]
  BY DmxDevAssumption
<1>4. w.fil[k] \in DevFilter /\ ~w.fil[k].timer
  BY TameStop, TameFilter
<1>5. y \in DevFilter /\ ~y.timer /\ y.pid \in Pids \cup {BadPid}
  BY <1>3, <1>4 DEF DevFilter, Armed
<1>6. set_section(w, k, req) = Set(w, k, y)
  BY DEF set_section
<1> HIDE DEF y
<1> QED BY <1>2, <1>5, <1>6, TameRequest

LEMMA TameSetPes ==
  ASSUME Tame(World), NEW k \in Devs, SetPesFilter(k)
  PROVE  Tame(World)'
<1>1. PICK req \in PesRequests[k] : \E w \in filter_stop(World, k) :
        LET v == set_pes(w, k, req)
        IN  Becomes(v) \/ \E u \in filter_start(v, k) : Becomes(u)
  BY DEF SetPesFilter
<1>2. PICK w \in filter_stop(World, k) :
        LET v == set_pes(w, k, req)
        IN  Becomes(v) \/ \E u \in filter_start(v, k) : Becomes(u)
  BY <1>1
<1> DEFINE y == [w.fil[k] EXCEPT !.state = "SET", !.type = "PES", !.pid = req.pid,
                   !.pes = req.pes, !.output = req.output]
<1>3. req \in [pid : Pids \cup {BadPid}, pes : PesTypes \cup {OtherPes},
               output : {"DECODER", "TAP"}]
  BY DmxDevAssumption
<1>4. w.fil[k] \in DevFilter /\ ~w.fil[k].timer
  BY TameStop, TameFilter
<1>5. y \in DevFilter /\ ~y.timer /\ y.pid \in Pids \cup {BadPid}
  BY <1>3, <1>4, ZenonT(40) DEF DevFilter, Armed
<1>6. set_pes(w, k, req) = Set(w, k, y)
  BY DEF set_pes
<1> HIDE DEF y
<1> QED BY <1>2, <1>5, <1>6, TameRequest

LEMMA TameCall ==
  ASSUME Tame(World), NEW k \in Devs, OwnCall(k)
  PROVE  Tame(World)'
<1>1. CASE Open(k)
  <2> DEFINE y == [Closed EXCEPT !.state = "ALLOCATED", !.file = TRUE]
  <2>1. y \in DevFilter /\ Timed(y)
    BY TameClosed DEF DevFilter, Timed, Closed, Armed, Running
  <2>2. fil' = [fil EXCEPT ![k] = y] /\ UNCHANGED <<dmx, priv, tspriv, dead>>
    BY <1>1 DEF Open
  <2> HIDE DEF y
  <2> QED BY <2>1, <2>2, TameLocal
<1>2. CASE Close(k)
  BY <1>2, TameClose
<1>3. CASE SetFilter(k)
  BY <1>3, TameSetFilter
<1>4. CASE SetPesFilter(k)
  BY <1>4, TameSetPes
<1>5. CASE Start(k)
  BY <1>5, TameFilterStart, TameEnds DEF Start
<1>6. CASE Stop(k)
  BY <1>6, TameStop, TameEnds DEF Stop
<1>7. CASE SetBufferSize(k)
  BY <1>7, TameFlush, TameEnds DEF SetBufferSize
<1>8. CASE Read(k)
  <2>0. fil[k] \in DevFilter /\ Timed(fil[k])
    BY TameHere
  <2> DEFINE y == [fil[k] EXCEPT !.err = "none", !.buf = {}]
             z == [fil[k] EXCEPT !.buf = {}]
  <2>1. y \in DevFilter /\ Timed(y) /\ z \in DevFilter /\ Timed(z)
    BY <2>0, ZenonT(40) DEF DevFilter, Timed
  <2>2. fil' = [fil EXCEPT ![k] = y] \/ fil' = [fil EXCEPT ![k] = z]
    BY <1>8 DEF Read
  <2>3. UNCHANGED <<dmx, priv, tspriv, dead>>
    BY <1>8 DEF Read
  <2> HIDE DEF y, z
  <2> QED BY <2>1, <2>2, <2>3, TameLocal
<1> QED BY <1>1, <1>2, <1>3, <1>4, <1>5, <1>6, <1>7, <1>8 DEF OwnCall

LEMMA TameTimeout ==
  ASSUME Tame(World), NEW k \in Devs, Timeout(k)
  PROVE  Tame(World)'
<1> DEFINE y == timed_out(fil[k])
<1>1. fil[k] \in DevFilter /\ Timed(fil[k]) /\ fil[k].timer
  BY TameHere DEF Timeout
<1>2. y = [fil[k] EXCEPT !.state = "TIMEDOUT", !.err = "ETIMEDOUT", !.timer = FALSE]
  BY DEF timed_out
<1>3. fil' = [fil EXCEPT ![k] = y] /\ UNCHANGED <<dmx, priv, tspriv, dead>>
  BY DEF Timeout
<1> HIDE DEF y
<1>4. y \in DevFilter /\ ~y.timer /\ y.pid \in Pids \cup {BadPid}
  BY <1>1, <1>2 DEF DevFilter, Armed, Running, Timed
<1> QED BY <1>3, <1>4, TameLocal DEF Timed

(* The packet path writes into a filter, or into none. *)
LEMMA TameWritten ==
  ASSUME NEW x \in DevFilter, Timed(x), NEW pid \in Pids, NEW y \in written(x, pid)
  PROVE  y \in DevFilter /\ Timed(y) /\ y.timer = x.timer /\ y.state = x.state
<1> DEFINE full == x.buf \cup {pid}
<1>1. full \in SUBSET Pids
  BY DEF DevFilter
<1>2. y = [x EXCEPT !.buf = full] \/ y = [x EXCEPT !.buf = {}, !.err = "EOVERFLOW"]
  BY DEF written
<1> HIDE DEF full
<1>3. CASE y = [x EXCEPT !.buf = full]
  BY <1>1, <1>3 DEF DevFilter, Timed
<1>4. CASE y = [x EXCEPT !.buf = {}, !.err = "EOVERFLOW"]
  BY <1>4 DEF DevFilter, Timed
<1> QED BY <1>2, <1>3, <1>4

LEMMA LivePid ==
  ASSUME Tame(World), NEW f \in Live
  PROVE  f \in Feeds /\ dmx.feed[f].pid \in Pids
  BY DEF Live, Tame, Registered, Demux, World

LEMMA TameSection ==
  ASSUME Tame(World), NEW f \in Feeds, NEW i \in Filters, Section(f, i)
  PROVE  Tame(World)'
<1> DEFINE k == priv[i]
           pid == dmx.feed[f].pid
<1>1. PICK y \in section_callback(fil[k], pid) : fil' = [fil EXCEPT ![k] = y]
  BY DEF Section
<1>2. UNCHANGED <<dmx, priv, tspriv, dead>> /\ pid \in Pids
  BY LivePid DEF Section
<1>3. fil \in [Devs -> DevFilter]
  BY DEF World, Tame, Worlds
<1> HIDE DEF k, pid
<1>4. CASE k \in Devs
  <2> DEFINE x == fil[k]
             z == [x EXCEPT !.timer = FALSE]
  <2>1. x \in DevFilter /\ Timed(x)
    BY <1>4, TameHere
  <2>2. y = x \/ (x.state = "GO" /\ \E a \in written(z, pid) : y = finished(a))
    BY <1>1 DEF section_callback
  <2> HIDE DEF x
  <2>3. z \in DevFilter /\ Timed(z) /\ ~z.timer /\ z.state = x.state
    BY <2>1, ZenonT(40) DEF DevFilter, Timed
  <2> HIDE DEF z
  <2>4. ASSUME x.state = "GO", NEW a \in written(z, pid), y = finished(a)
        PROVE  y \in DevFilter /\ Timed(y)
    <3>1. a \in DevFilter /\ Timed(a) /\ ~a.timer /\ a.state = "GO"
      BY <1>2, <2>3, <2>4, TameWritten
    <3> QED BY <2>4, <3>1 DEF finished, DevFilter, Timed, Armed, Running
  <2>5. y \in DevFilter /\ Timed(y)
    BY <2>1, <2>2, <2>4
  <2> QED BY <1>1, <1>2, <1>4, <2>5, TameLocal
<1>5. CASE k \notin Devs
  <2>1. fil' = fil
    BY <1>1, <1>3, <1>5
  <2> QED BY <1>2, <2>1 DEF World, Tame
<1> QED BY <1>4, <1>5

LEMMA TamePayload ==
  ASSUME Tame(World), NEW f \in Feeds, Payload(f)
  PROVE  Tame(World)'
<1> DEFINE k == tspriv[f]
           pid == dmx.feed[f].pid
<1>1. PICK y \in ts_callback(fil[k], pid) : fil' = [fil EXCEPT ![k] = y]
  BY DEF Payload
<1>2. UNCHANGED <<dmx, priv, tspriv, dead>> /\ pid \in Pids
  BY LivePid DEF Payload
<1>3. fil \in [Devs -> DevFilter]
  BY DEF World, Tame, Worlds
<1> HIDE DEF k, pid
<1>4. CASE k \in Devs
  <2>1. fil[k] \in DevFilter /\ Timed(fil[k])
    BY <1>4, TameHere
  <2>2. y = fil[k] \/ y \in written(fil[k], pid)
    BY <1>1 DEF ts_callback
  <2>3. y \in DevFilter /\ Timed(y)
    BY <1>2, <2>1, <2>2, TameWritten
  <2> QED BY <1>1, <1>2, <1>4, <2>3, TameLocal
<1>5. CASE k \notin Devs
  <2>1. fil' = fil
    BY <1>1, <1>3, <1>5
  <2> QED BY <1>2, <2>1 DEF World, Tame
<1> QED BY <1>4, <1>5

LEMMA TameNext == Tame(World) /\ [Next]_vars => Tame(World)'
<1> SUFFICES ASSUME Tame(World), [Next]_vars PROVE Tame(World)'
  OBVIOUS
<1>1. CASE UNCHANGED vars
  BY <1>1 DEF vars, Tame, World
<1>2. CASE Next
  BY <1>2, TameCall, TameTimeout, TameSection, TamePayload DEF Next
<1> QED BY <1>1, <1>2

-----------------------------------------------------------------------------
(* The theorems *)

LEMMA InvStep ==
  ASSUME Calm, IInv, [Next]_vars
  PROVE  IInv'
<1>1. CASE UNCHANGED vars
  BY <1>1 DEF vars, IInv, World
<1>2. CASE Next
  <2>1. CASE \E k \in Devs : OwnCall(k)
    <3>1. PICK k \in Devs : OwnCall(k)
      BY <2>1
    <3>2. CASE Open(k)
      BY <3>2, OpenStep
    <3>3. CASE Close(k)
      BY <3>3, CloseStep
    <3>4. CASE SetFilter(k)
      BY <3>4, SetFilterStep
    <3>5. CASE SetPesFilter(k)
      BY <3>5, SetPesFilterStep
    <3>6. CASE Start(k)
      <4>1. PICK w \in filter_start(World, k) : Becomes(w)
        BY <3>6 DEF Start
      <4> QED BY <4>1, Inside, StartStep, Ends
    <3>7. CASE Stop(k)
      <4>1. PICK w \in filter_stop(World, k) : Becomes(w)
        BY <3>7 DEF Stop
      <4> QED BY <4>1, StopStep, Ends
    <3>8. CASE SetBufferSize(k)
      BY <3>8, FlushStep
    <3>9. CASE Read(k)
      BY <3>9, ReadStep
    <3> QED BY <3>1, <3>2, <3>3, <3>4, <3>5, <3>6, <3>7, <3>8, <3>9 DEF OwnCall
  <2>2. CASE \E k \in Devs : Timeout(k)
    BY <2>2, TimeoutStep
  <2>3. CASE \E f \in Feeds, i \in Filters : Section(f, i)
    BY <2>3, SectionStep
  <2>4. CASE \E f \in Feeds : Payload(f)
    BY <2>4, PayloadStep
  <2> QED BY <1>2, <2>1, <2>2, <2>3, <2>4 DEF Next
<1> QED BY <1>1, <1>2

(* The inductive invariant: between two calls every running filter has its  *)
(* feed, every feed and section filter in use its running filter, and no    *)
(* feed waits.                                                              *)
THEOREM Invariance ==
  ASSUME Calm PROVE Spec => []IInv
<1>1. IInv /\ [Next]_vars => IInv'
  BY InvStep
<1> QED BY InvInit, <1>1, PTL DEF Spec

(* The records of dmxdev keep their types, whatever a signal interrupts,    *)
(* the driver refuses, or expires inside an ioctl.                          *)
THEOREM Typed == Spec => []TypeOK
<1>1. Tame(World) => TypeOK
  BY DEF Tame, World, Worlds, TypeOK
<1> QED BY <1>1, TameInit, TameNext, PTL DEF Spec

(* A filter in state GO stays fed whatever its neighbours on the shared     *)
(* feed do.                                                                 *)
THEOREM GoingFed ==
  ASSUME Calm PROVE Spec => []GoingIsFed
<1>1. IInv => GoingIsFed
  <2> SUFFICES ASSUME IInv, NEW k \in Devs, fil[k].state = "GO"
               PROVE  /\ fil[k].feed \in Live
                      /\ dmx.feed[fil[k].feed].pid = fil[k].pid
                      /\ IF fil[k].type = "SEC"
                         THEN /\ dmx.feed[fil[k].feed].type = "SEC"
                              /\ fil[k].sec \in dmx.feed[fil[k].feed].chain
                              /\ priv[fil[k].sec] = k
                         ELSE /\ dmx.feed[fil[k].feed].type = "TS"
                              /\ tspriv[fil[k].feed] = k
    BY DEF GoingIsFed
  <2>1. /\ Orderly(World, NoFeed) /\ World.d = dmx /\ World.fil = fil /\ World.priv = priv
        /\ World.tspriv = tspriv
    BY Inside DEF InOrder
  <2>2. Fed(World, k, NoFeed)
    BY <2>1 DEF Orderly, Runs, Running
  <2> HIDE DEF World
  <2> QED BY <2>1, <2>2, DemuxAssumption DEF Fed, Live
<1> QED BY <1>1, Invariance, PTL

(* Section filters of one pid share one feed, and share it with no filter   *)
(* of another pid or type.                                                  *)
THEOREM SharedByPid ==
  ASSUME Calm PROVE Spec => []OneFeedPerPid
<1>1. IInv => OneFeedPerPid
  <2> SUFFICES ASSUME IInv, NEW j \in Devs, NEW k \in Devs,
                      Runs(fil[j]), Runs(fil[k]), fil[j].type = "SEC"
               PROVE  fil[j].feed = fil[k].feed <=>
                      fil[k].type = "SEC" /\ fil[j].pid = fil[k].pid
    BY DEF OneFeedPerPid, Runs
  <2>1. /\ Orderly(World, NoFeed) /\ World.fil = fil
    BY Inside DEF InOrder
  <2>2. Fed(World, j, NoFeed) /\ Fed(World, k, NoFeed) /\ PidsShared(World)
    BY <2>1 DEF Orderly
  <2> HIDE DEF World
  <2> QED BY <2>1, <2>2 DEF Fed, PidsShared
<1> QED BY <1>1, Invariance, PTL

(* No feed and no section filter is lost, or used by two.                   *)
THEOREM SlotsAccounted ==
  ASSUME Calm PROVE Spec => []NoSlotLost
<1>1. IInv => NoSlotLost
  <2> SUFFICES ASSUME IInv PROVE NoSlotLost
    OBVIOUS
  <2>1. /\ Orderly(World, NoFeed) /\ World.d = dmx /\ World.fil = fil /\ World.priv = priv
        /\ World.tspriv = tspriv
    BY Inside DEF InOrder
  <2>2. /\ Sound(dmx) /\ \A j \in Devs : Runs(fil[j]) => Fed(World, j, NoFeed)
        /\ Owned(World, NoFeed) /\ ChainsOwned(World) /\ NoFeed \notin Feeds
    BY <2>1, DemuxAssumption DEF Orderly
  <2> HIDE DEF World
  <2>3. ASSUME NEW f \in Feeds, dmx.feed[f].state # "FREE"
        PROVE  \E k \in Devs : fil[k].state \in Running /\ fil[k].feed = f
    BY <2>1, <2>2, <2>3 DEF Owned, Runs
  <2>4. ASSUME NEW i \in Filters, dmx.filter[i].state # "FREE"
        PROVE  \E k \in Devs : \A j \in Devs : Uses(fil[j], i) <=> j = k
    <3> DEFINE f == dmx.filter[i].feed
    <3>1. f \in Feeds /\ dmx.feed[f].state # "FREE" /\ i \in dmx.feed[f].chain
      BY <2>2, <2>4 DEF Sound, ChainsMatch
    <3>2. ASSUME NEW g \in Feeds, dmx.feed[g].state # "FREE", i \in dmx.feed[g].chain
          PROVE  g = f
      BY <2>2, <3>2 DEF Sound, ChainsMatch
    <3> HIDE DEF f
    <3>3. PICK k \in Devs : /\ Runs(fil[k]) /\ fil[k].feed = f
                            /\ fil[k].type = "SEC" => fil[k].sec = i
                            /\ dmx.feed[f].type = "SEC" => priv[i] = k
      <4>1. CASE dmx.feed[f].type = "SEC"
        BY <2>1, <2>2, <3>1, <4>1 DEF ChainsOwned
      <4>2. CASE dmx.feed[f].type # "SEC"
        <5>1. PICK k \in Devs : Runs(fil[k]) /\ fil[k].feed = f
          BY <2>1, <2>2, <3>1 DEF Owned
        <5>2. fil[k].type # "SEC"
          BY <2>1, <2>2, <4>2, <5>1 DEF Fed
        <5> QED BY <4>2, <5>1, <5>2
      <4> QED BY <4>1, <4>2
    <3>4. ASSUME NEW j \in Devs, Uses(fil[j], i)  PROVE j = k
      <4>1. /\ Runs(fil[j]) /\ i \in dmx.feed[fil[j].feed].chain
            /\ fil[j].type = "SEC" => fil[j].sec = i
        BY <3>4 DEF Uses, Runs
      <4>2. fil[j].feed = f /\ Fed(World, j, NoFeed) /\ Fed(World, k, NoFeed)
        <5>1. Fed(World, j, NoFeed) /\ Fed(World, k, NoFeed)
          BY <2>2, <3>3, <4>1
        <5>2. fil[j].feed \in Feeds /\ dmx.feed[fil[j].feed].state # "FREE"
          BY <2>1, <5>1 DEF Fed
        <5> QED BY <3>2, <4>1, <5>1, <5>2
      <4> QED BY <2>1, <3>3, <4>1, <4>2 DEF Fed
    <3>5. Uses(fil[k], i)
      BY <2>2, <3>1, <3>3 DEF Uses, Runs
    <3> QED BY <3>4, <3>5
  <2> QED BY <2>3, <2>4 DEF NoSlotLost
<1> QED BY <1>1, Invariance, PTL

(* A stopped, finished or closed filter is never timed out, even if the     *)
(* call that stopped it was interrupted or its timer expired meanwhile.     *)
THEOREM TimersStop == Spec => []TimerOnlyWhileGoing
<1>1. Tame(World) => TimerOnlyWhileGoing
  BY TameHere DEF Timed, TimerOnlyWhileGoing
<1> QED BY <1>1, TameInit, TameNext, PTL DEF Spec

(* No NULL feed is started, and no section filter released under a running  *)
(* feed.                                                                    *)
THEOREM EverybodyLives ==
  ASSUME Calm PROVE Spec => []NobodyDies
<1>1. IInv => NobodyDies
  BY DEF IInv, Orderly, World, NobodyDies
<1> QED BY <1>1, Invariance, PTL

(* The packet path only reaches filters that are open and own the feed.     *)
THEOREM DeliveredToOwner ==
  ASSUME Calm PROVE Spec => []DeliveryToOwner
<1>1. IInv => DeliveryToOwner
  <2> SUFFICES ASSUME IInv, NEW f \in Live PROVE
        IF dmx.feed[f].type = "SEC"
        THEN \A i \in dmx.feed[f].chain : priv[i] \in Devs /\
               LET x == fil[priv[i]] IN
               x.file /\ x.type = "SEC" /\ x.sec = i /\ x.feed = f
        ELSE tspriv[f] \in Devs /\
               LET x == fil[tspriv[f]] IN x.file /\ x.type = "PES" /\ x.feed = f
    BY DEF DeliveryToOwner
  <2>1. ASSUME NEW k \in Devs, Runs(fil[k])
        PROVE  fil[k].file /\ fil[k].type \in {"SEC", "PES"}
    BY <2>1, Each DEF DevFilter, Consistent, Runs, Running, Armed
  <2> QED BY <2>1, Reached
<1> QED BY <1>1, Invariance, PTL

(* A reader gets data of the pid its filter is set to now.                  *)
THEOREM OwnPidRead ==
  ASSUME Calm PROVE Spec => []BufferOwnPid
<1>1. IInv => BufferOwnPid
  BY Each DEF Fresh, BufferOwnPid
<1> QED BY <1>1, Invariance, PTL
=============================================================================
