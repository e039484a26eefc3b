-------------------------- MODULE SongCache_proofs --------------------------
(***************************************************************************)
(* For any number of users, songs and workers: what is sent and what stays *)
(* in collect_map_ agrees with Redis and with what the users were told,    *)
(* unless two requests passed one another or Redis did not take a write.   *)
(*                                                                         *)
(* The argument follows the requests that have been in Redis and not yet   *)
(* in collect_map_. The one that was last in Redis says what Redis holds   *)
(* (Latest), and nobody who was overtaken changes the map unnoticed: a     *)
(* request that was before an overtaken one was overtaken too (Passed).    *)
(***************************************************************************)
EXTENDS SongCache, TLAPS

Crosses(t) == thread[t].pc \in {"fill", "set", "del"}

Writer(t) == thread[t].pc \in {"set", "del"}

\* What a thread holds in each phase.
Shape ==
    \A t \in Workers :
        /\ thread[t].pc # "idle" => thread[t].uid \in Users
        /\ Writer(t) => thread[t].song \in Songs
        /\ thread[t].pc \in {"lookup", "redis_get"} =>
             thread[t].list = {} /\ thread[t].overtaken = {}

\* The order in which the requests of a user were in Redis.
Order ==
    /\ \A v, w \in Workers : w \in thread[v].before =>
         w # v /\ Crosses(v) /\ Crosses(w) /\ thread[v].uid = thread[w].uid
    /\ \A v, w, x \in Workers :
         w \in thread[v].before /\ v \in thread[x].before => w \in thread[x].before

Passed ==
    \A v, w \in Workers :
        (/\ w \in thread[v].before /\ Writer(v)
         /\ thread[v].song \in thread[v].overtaken
         /\ thread[w].pc = "fill" \/ thread[w].song = thread[v].song)
            => thread[v].song \in thread[w].overtaken

\* Redis holds what the latest write says.
Latest ==
    \A w \in Workers, u \in Users, s \in Songs :
        (/\ Writing(w, u, s) /\ <<u, s>> \notin stale /\ s \notin thread[w].overtaken
         /\ \A v \in Workers : Writing(v, u, s) => w \notin thread[v].before)
            => (s \in redis[u] <=> thread[w].pc = "set")

\* The copy is right when only overtaken writes are still on their way to it.
Copy ==
    \A u \in cached, s \in Songs :
        (/\ <<u, s>> \notin stale
         /\ \A v \in Workers : Writing(v, u, s) => s \in thread[v].overtaken)
            => (s \in collect_map[u] <=> s \in redis[u])

\* What a read holds is right unless a later write is on its way.
Read ==
    \A f \in Workers, u \in Users, s \in Songs :
        (/\ thread[f].pc = "fill" /\ thread[f].uid = u /\ <<u, s>> \notin stale
         /\ s \notin thread[f].overtaken
         /\ \A v \in Workers : Writing(v, u, s) /\ f \in thread[v].before
                                 => s \in thread[v].overtaken)
            => (s \in thread[f].list <=> s \in redis[u])

\* A write that is alone is what Redis holds.
Alone ==
    \A t \in Workers, u \in Users, s \in Songs :
        Writing(t, u, s) /\ thread[t].alone =>
            /\ s \in redis[u] <=> thread[t].pc = "set"
            /\ \A v \in Workers : Writing(v, u, s) => v = t

Told ==
    \A u \in Users, s \in Songs :
        /\ s \in on[u]  => s \in redis[u]
        /\ s \in off[u] => s \notin redis[u]
        /\ s \in on[u] \cup off[u] => \A v \in Workers : ~Writing(v, u, s)

Asked ==
    \A t \in Workers : thread[t].uid \in Users =>
        thread[t].on \subseteq on[thread[t].uid] /\ thread[t].off \subseteq off[thread[t].uid]

Shown ==
    \A t \in Workers : thread[t].pc \in {"fill", "info", "send"} =>
        \A s \in Songs : <<thread[t].uid, s>> \notin stale =>
            /\ s \in thread[t].on /\ (thread[t].pc = "send" => s \in playable)
                 => s \in thread[t].list
            /\ s \in thread[t].off => s \notin thread[t].list

-----------------------------------------------------------------------------
(* Types *)

ThreadType ==
    [pc : {"idle", "lookup", "redis_get", "fill", "info", "send", "set", "del"},
     uid : Users \cup {Nobody}, song : Songs \cup {NoSong}, list : SUBSET Songs,
     on : SUBSET Songs, off : SUBSET Songs, before : SUBSET Workers,
     overtaken : SUBSET Songs, alone : BOOLEAN]

LEMMA IdleType == Idle \in ThreadType
BY DEF Idle, ThreadType

LEMMA TypeInit == Init => TypeOK
BY IdleType DEF Init, TypeOK, ThreadType

\* A request in Redis is one of a worker, and of the user.
LEMMA CrossingWorkers == \A u : Crossing(u) \subseteq Workers
BY DEF Crossing

LEMMA BeganType ==
    ASSUME TypeOK, NEW t \in Workers, NEW u \in Users, NEW s \in Songs,
           NEW pc \in {"set", "del"}, NEW taken \in BOOLEAN, Began(t, u, s, pc, taken)
    PROVE  /\ thread' \in [Workers -> ThreadType]
           /\ on' \in [Users -> SUBSET Songs] /\ off' \in [Users -> SUBSET Songs]
           /\ stale' \subseteq Users \X Songs
<1>1. on' \in [Users -> SUBSET Songs] /\ off' \in [Users -> SUBSET Songs]
  BY DEF Began, TypeOK
<1>2. stale' \subseteq Users \X Songs
  <2>1. stale' = stale \/ stale' = stale \cup {<<u, s>>}
    BY DEF Began
  <2>2. stale \subseteq Users \X Songs
    BY DEF TypeOK
  <2> QED BY <2>1, <2>2
<1>3. ASSUME NEW w \in Workers PROVE thread'[w] \in ThreadType
  <2>0. thread[w] \in ThreadType
    BY DEF TypeOK, ThreadType
  <2>1. CASE w = t
    <3>1. thread'[w] = [Idle EXCEPT !.pc = pc, !.uid = u, !.song = s, !.before = Crossing(u),
                          !.alone = taken /\ \A v \in Workers : ~Writing(v, u, s)]
      BY <2>1 DEF Began
    <3>2. PICK alone \in BOOLEAN : alone = (taken /\ \A v \in Workers : ~Writing(v, u, s))
      OBVIOUS
    <3>3. thread'[w] = [Idle EXCEPT !.pc = pc, !.uid = u, !.song = s, !.before = Crossing(u),
                          !.alone = alone]
      BY <3>1, <3>2, Zenon
    <3>4. thread'[w] = [pc |-> pc, uid |-> u, song |-> s, list |-> {}, on |-> {}, off |-> {},
                        before |-> Crossing(u), overtaken |-> {}, alone |-> alone]
      BY <3>3 DEF Idle
    <3>5. Crossing(u) \in SUBSET Workers
      BY CrossingWorkers
    <3> QED BY <3>4, <3>5 DEF ThreadType
  <2>2. CASE w # t /\ thread[w].uid # u
    BY <2>0, <2>2 DEF Began
  <2>3. CASE w # t /\ thread[w].uid = u
    <3>1. thread'[w] = [thread[w] EXCEPT !.on = @ \ {s}, !.off = @ \ {s},
                                 !.alone = @ /\ thread[w].song # s]
      BY <2>3 DEF Began
    <3> QED BY <3>1, <2>0, ZenonT(30) DEF ThreadType
  <2> QED BY <2>1, <2>2, <2>3
<1> QED BY <1>1, <1>2, <1>3 DEF Began

LEMMA ReachesType ==
    ASSUME TypeOK, NEW t \in Workers, NEW written \in SUBSET Songs, NEW next \in ThreadType,
           thread[t].uid \in Users, Reaches(t, written, next)
    PROVE  thread' \in [Workers -> ThreadType] /\ stale' \subseteq Users \X Songs
<1>1. thread[t].overtaken \subseteq Songs
  BY DEF TypeOK
<1>2. stale' \subseteq Users \X Songs
  BY <1>1 DEF Reaches, TypeOK
<1>3. ASSUME NEW w \in Workers, w # t PROVE thread'[w] \in ThreadType
  <2>1. thread[w] \in ThreadType
    BY DEF TypeOK, ThreadType
  <2>2. PICK extra \in SUBSET Songs :
           thread'[w] = [thread[w] EXCEPT !.before = @ \ {t}, !.overtaken = @ \cup extra]
    <3>1. CASE w \in thread[t].before
      <4>1. CASE thread[w].pc = "fill"
        BY <3>1, <4>1, <1>3 DEF Reaches
      <4>2. CASE thread[w].pc # "fill"
        BY <3>1, <4>2, <1>3 DEF Reaches
      <4> QED BY <4>1, <4>2
    <3>2. CASE w \notin thread[t].before
      <4>1. thread'[w] = [thread[w] EXCEPT !.before = @ \ {t}, !.overtaken = @ \cup {}]
        BY <3>2, <1>3, <2>1 DEF Reaches, ThreadType
      <4> QED BY <4>1
    <3> QED BY <3>1, <3>2
  <2> QED BY <2>1, <2>2 DEF ThreadType
<1>4. thread'[t] = next
  BY DEF Reaches
<1> QED BY <1>2, <1>3, <1>4 DEF Reaches

-----------------------------------------------------------------------------
(* What a step does to each thread *)

LEMMA BeganFields ==
    ASSUME TypeOK, NEW t \in Workers, NEW u \in Users, NEW s \in Songs,
           NEW pc, NEW taken \in BOOLEAN, Began(t, u, s, pc, taken)
    PROVE  /\ thread'[t].pc = pc /\ thread'[t].uid = u /\ thread'[t].song = s
           /\ thread'[t].on = {} /\ thread'[t].off = {} /\ thread'[t].overtaken = {}
           /\ thread'[t].before = Crossing(u)
           /\ thread'[t].alone => taken /\ \A v \in Workers : ~Writing(v, u, s)
           /\ \A w \in Workers \ {t} :
                /\ thread'[w].pc = thread[w].pc /\ thread'[w].uid = thread[w].uid
                /\ thread'[w].song = thread[w].song /\ thread'[w].list = thread[w].list
                /\ thread'[w].before = thread[w].before
                /\ thread'[w].overtaken = thread[w].overtaken
                /\ thread'[w].on \subseteq thread[w].on /\ thread'[w].off \subseteq thread[w].off
                /\ thread'[w].alone => thread[w].alone
                /\ thread[w].uid = u =>
                     /\ s \notin thread'[w].on /\ s \notin thread'[w].off
                     /\ thread[w].song = s => ~thread'[w].alone
<1>1. thread'[t] = [Idle EXCEPT !.pc = pc, !.uid = u, !.song = s, !.before = Crossing(u),
                      !.alone = taken /\ \A v \in Workers : ~Writing(v, u, s)]
  BY DEF Began
<1>2. /\ thread'[t].pc = pc /\ thread'[t].uid = u /\ thread'[t].song = s
      /\ thread'[t].on = {} /\ thread'[t].off = {} /\ thread'[t].overtaken = {}
      /\ thread'[t].before = Crossing(u)
  BY <1>1 DEF Idle
<1>3. thread'[t].alone = (taken /\ \A v \in Workers : ~Writing(v, u, s))
  BY <1>1, Zenon DEF Idle
<1>4. ASSUME NEW w \in Workers \ {t}
      PROVE  /\ thread'[w].pc = thread[w].pc /\ thread'[w].uid = thread[w].uid
             /\ thread'[w].song = thread[w].song /\ thread'[w].list = thread[w].list
             /\ thread'[w].before = thread[w].before
             /\ thread'[w].overtaken = thread[w].overtaken
             /\ thread'[w].on \subseteq thread[w].on /\ thread'[w].off \subseteq thread[w].off
             /\ thread'[w].alone => thread[w].alone
             /\ thread[w].uid = u =>
                  /\ s \notin thread'[w].on /\ s \notin thread'[w].off
                  /\ thread[w].song = s => ~thread'[w].alone
  <2>1. thread[w] \in ThreadType
    BY DEF TypeOK, ThreadType
  <2>2. CASE thread[w].uid # u
    BY <2>2 DEF Began
  <2>3. CASE thread[w].uid = u
    <3>1. thread'[w] = [thread[w] EXCEPT !.on = @ \ {s}, !.off = @ \ {s},
                                 !.alone = @ /\ thread[w].song # s]
      BY <2>3 DEF Began
    <3>2. PICK alone \in BOOLEAN : alone = (thread[w].alone /\ thread[w].song # s)
      OBVIOUS
    <3>3. thread'[w] = [thread[w] EXCEPT !.on = @ \ {s}, !.off = @ \ {s}, !.alone = alone]
      BY <3>1, <3>2, Zenon
    <3>4. thread'[w].alone = alone
      BY <3>3, <2>1 DEF ThreadType
    <3>5. /\ thread'[w].alone => thread[w].alone
          /\ thread[w].song = s => ~thread'[w].alone
      BY <3>2, <3>4, Zenon
    <3> QED BY <3>3, <3>5, <2>1 DEF ThreadType
  <2> QED BY <2>2, <2>3
<1> QED BY <1>2, <1>3, <1>4

LEMMA ReachesFields ==
    ASSUME TypeOK, NEW t \in Workers, NEW written, NEW next, Reaches(t, written, next)
    PROVE  /\ thread'[t] = next
           /\ stale' = stale \cup ({thread[t].uid} \X thread[t].overtaken)
           /\ \A w \in Workers \ {t} :
                /\ thread'[w].pc = thread[w].pc /\ thread'[w].uid = thread[w].uid
                /\ thread'[w].song = thread[w].song /\ thread'[w].list = thread[w].list
                /\ thread'[w].on = thread[w].on /\ thread'[w].off = thread[w].off
                /\ thread'[w].alone = thread[w].alone
                /\ thread'[w].before = thread[w].before \ {t}
                /\ w \notin thread[t].before => thread'[w].overtaken = thread[w].overtaken
                /\ w \in thread[t].before /\ thread[w].pc = "fill" =>
                     thread'[w].overtaken = thread[w].overtaken \cup written
                /\ w \in thread[t].before /\ thread[w].pc # "fill" =>
                     thread'[w].overtaken = thread[w].overtaken \cup (written \cap {thread[w].song})
<1>1. ASSUME NEW w \in Workers \ {t}
      PROVE  /\ thread'[w].pc = thread[w].pc /\ thread'[w].uid = thread[w].uid
             /\ thread'[w].song = thread[w].song /\ thread'[w].list = thread[w].list
             /\ thread'[w].on = thread[w].on /\ thread'[w].off = thread[w].off
             /\ thread'[w].alone = thread[w].alone
             /\ thread'[w].before = thread[w].before \ {t}
             /\ w \notin thread[t].before => thread'[w].overtaken = thread[w].overtaken
             /\ w \in thread[t].before /\ thread[w].pc = "fill" =>
                  thread'[w].overtaken = thread[w].overtaken \cup written
             /\ w \in thread[t].before /\ thread[w].pc # "fill" =>
                  thread'[w].overtaken = thread[w].overtaken \cup (written \cap {thread[w].song})
  <2>1. thread[w] \in ThreadType
    BY DEF TypeOK, ThreadType
  <2> QED BY <2>1 DEF Reaches, ThreadType
<1> QED BY <1>1 DEF Reaches

-----------------------------------------------------------------------------
(* Types and shapes are kept *)

\* A step that changes one thread only keeps the types.
LEMMA QuietType ==
    ASSUME TypeOK, NEW t \in Workers, NEW r \in ThreadType,
           thread' = [thread EXCEPT ![t] = r],
           UNCHANGED <<redis, cache, on, off, stale>>
    PROVE  TypeOK'
<1>1. thread' \in [Workers -> ThreadType]
  BY DEF TypeOK, ThreadType
<1> QED BY <1>1 DEF TypeOK, ThreadType, cache

\* What a thread is changed to on its way is of the type.
LEMMA Changed ==
    ASSUME NEW r \in ThreadType, NEW songs \in SUBSET Songs, NEW more \in SUBSET Songs,
           NEW workers \in SUBSET Workers
    PROVE  /\ [r EXCEPT !.pc = "info"] \in ThreadType
           /\ [r EXCEPT !.pc = "redis_get"] \in ThreadType
           /\ [r EXCEPT !.pc = "info", !.list = songs] \in ThreadType
           /\ [r EXCEPT !.pc = "info", !.on = songs] \in ThreadType
           /\ [r EXCEPT !.pc = "fill", !.list = songs, !.before = workers] \in ThreadType
           /\ [r EXCEPT !.pc = "info", !.before = workers, !.overtaken = more] \in ThreadType
           /\ [r EXCEPT !.pc = "send", !.list = songs] \in ThreadType
BY DEF ThreadType

LEMMA TypeStep ==
    ASSUME TypeOK, Shape, [Next]_vars
    PROVE  TypeOK'
<1>0. ASSUME NEW t \in Workers PROVE thread[t] \in ThreadType
  BY DEF TypeOK, ThreadType
<1>t. /\ redis \in [Users -> SUBSET Songs] /\ collect_map \in [Users -> SUBSET Songs]
      /\ on \in [Users -> SUBSET Songs] /\ off \in [Users -> SUBSET Songs]
  BY DEF TypeOK
<1>1. ASSUME NEW t \in Workers, NEW u \in Users, CollectList(t, u) PROVE TypeOK'
  <2>1. [Idle EXCEPT !.pc = "lookup", !.uid = u, !.on = on[u], !.off = off[u]] \in ThreadType
    BY <1>t DEF Idle, ThreadType
  <2> QED BY <2>1, <1>1, QuietType DEF CollectList
<1>2. ASSUME NEW t \in Workers, Lookup(t) PROVE TypeOK'
  <2>1. thread[t].uid \in Users
    BY <1>2 DEF Lookup, Shape
  <2>2. PICK r \in ThreadType : thread' = [thread EXCEPT ![t] = r]
    <3>1. [thread[t] EXCEPT !.pc = "info", !.list = collect_map[thread[t].uid]] \in ThreadType
      <4>1. collect_map[thread[t].uid] \in SUBSET Songs
        BY <1>t, <2>1
      <4> QED BY <4>1, <1>0, Changed, ZenonT(30)
    <3>2. [thread[t] EXCEPT !.pc = "redis_get"] \in ThreadType
      BY <1>0, Changed, ZenonT(30)
    <3> QED BY <3>1, <3>2, <1>2, ZenonT(30) DEF Lookup
  <2> QED BY <2>2, <1>2, QuietType DEF Lookup
<1>3. ASSUME NEW t \in Workers, RedisGet(t) PROVE TypeOK'
  <2>1. thread[t].uid \in Users
    BY <1>3 DEF RedisGet, Shape
  <2>2. PICK r \in ThreadType : thread' = [thread EXCEPT ![t] = r]
    <3>1. [thread[t] EXCEPT !.pc = "info"] \in ThreadType
      BY <1>0, Changed, ZenonT(30)
    <3>2. [thread[t] EXCEPT !.pc = "fill", !.list = redis[thread[t].uid],
                            !.before = Crossing(thread[t].uid)] \in ThreadType
      <4>1. redis[thread[t].uid] \in SUBSET Songs /\ Crossing(thread[t].uid) \in SUBSET Workers
        BY <1>t, <2>1, CrossingWorkers
      <4> QED BY <4>1, <1>0, Changed, ZenonT(30)
    <3> QED BY <3>1, <3>2, <1>3, ZenonT(30) DEF RedisGet
  <2> QED BY <2>2, <1>3, QuietType DEF RedisGet
<1>4. ASSUME NEW t \in Workers, RedisGetFails(t) PROVE TypeOK'
  <2>1. [thread[t] EXCEPT !.pc = "info", !.on = {}] \in ThreadType
    BY <1>0, Changed, ZenonT(30)
  <2> QED BY <2>1, <1>4, QuietType, ZenonT(30) DEF RedisGetFails
<1>5. ASSUME NEW t \in Workers, SendList(t) PROVE TypeOK'
  BY <1>5, IdleType, QuietType DEF SendList
<1>i. ASSUME NEW t \in Workers, GetMusicInfo(t) PROVE TypeOK'
  <2>1. thread[t].list \cap playable \in SUBSET Songs
    BY <1>0 DEF ThreadType
  <2>2. [thread[t] EXCEPT !.pc = "send", !.list = thread[t].list \cap playable] \in ThreadType
    BY <2>1, <1>0, Changed, ZenonT(30)
  <2>3. thread' = [thread EXCEPT ![t] =
                     [thread[t] EXCEPT !.pc = "send", !.list = thread[t].list \cap playable]]
    BY <1>i DEF GetMusicInfo
  <2> QED BY <2>2, <2>3, <1>i, QuietType, ZenonT(30) DEF GetMusicInfo
<1>6. ASSUME NEW t \in Workers, Fill(t) PROVE TypeOK'
  <2>1. thread[t].uid \in Users /\ thread[t].list \in SUBSET Songs
    BY <1>6, <1>0 DEF Fill, Shape, ThreadType
  <2>2. [thread[t] EXCEPT !.pc = "info", !.before = {}, !.overtaken = {}] \in ThreadType
    BY <1>0, Changed, ZenonT(30)
  <2>3. thread' \in [Workers -> ThreadType] /\ stale' \subseteq Users \X Songs
    BY <2>1, <2>2, <1>6, ReachesType DEF Fill
  <2> QED BY <2>1, <2>3, <1>6 DEF Fill, ThreadType, TypeOK
<1>7. ASSUME NEW t \in Workers, NEW u \in Users, NEW s \in Songs,
             SetCollect(t, u, s) \/ DelCollect(t, u, s)
      PROVE  TypeOK'
  <2>1. PICK pc \in {"set", "del"}, taken \in BOOLEAN : Began(t, u, s, pc, taken)
    BY <1>7 DEF SetCollect, DelCollect
  <2>2. redis' \in [Users -> SUBSET Songs]
    <3>1. redis' = redis \/ redis' = [redis EXCEPT ![u] = @ \cup {s}]
            \/ redis' = [redis EXCEPT ![u] = @ \ {s}]
      BY <1>7 DEF SetCollect, DelCollect
    <3> QED BY <3>1, <1>t
  <2> QED BY <2>1, <2>2, <1>7, BeganType DEF SetCollect, DelCollect, ThreadType, cache, TypeOK
<1>8. ASSUME NEW t \in Workers, SetMusicPreference(t) PROVE TypeOK'
  <2>1. thread[t].uid \in Users /\ thread[t].song \in Songs
    BY <1>8 DEF SetMusicPreference, Shape, Writer
  <2>2. thread' \in [Workers -> ThreadType] /\ stale' \subseteq Users \X Songs
    BY <2>1, <1>8, IdleType, ReachesType DEF SetMusicPreference
  <2> QED BY <2>1, <2>2, <1>8 DEF SetMusicPreference, ThreadType, TypeOK
<1>9. ASSUME NEW t \in Workers, DelCollectSong(t) PROVE TypeOK'
  <2>1. thread[t].uid \in Users /\ thread[t].song \in Songs
    BY <1>9 DEF DelCollectSong, Shape, Writer
  <2>2. thread' \in [Workers -> ThreadType] /\ stale' \subseteq Users \X Songs
    BY <2>1, <1>9, IdleType, ReachesType DEF DelCollectSong
  <2> QED BY <2>1, <2>2, <1>9 DEF DelCollectSong, ThreadType, TypeOK
<1>10. ASSUME Restart PROVE TypeOK'
  <2>1. thread' \in [Workers -> ThreadType]
    BY <1>10, IdleType DEF Restart
  <2> QED BY <2>1, <1>10 DEF Restart, ThreadType, TypeOK
<1>11. CASE UNCHANGED vars
  BY <1>11 DEF vars, cache, TypeOK
<1> QED BY <1>1, <1>2, <1>3, <1>4, <1>5, <1>i, <1>6, <1>7, <1>8, <1>9, <1>10, <1>11 DEF Next

-----------------------------------------------------------------------------
(* The requests between Redis and collect_map_ *)

Crossed == Order /\ Passed /\ Latest /\ Copy /\ Read

\* A step that puts no request between the two, and takes none away.
LEMMA QuietKeeps ==
    ASSUME TypeOK, Crossed, NEW t \in Workers, NEW r \in ThreadType,
           thread' = [thread EXCEPT ![t] = r], ~Crosses(t),
           r.pc \notin {"fill", "set", "del"}, r.before = thread[t].before,
           UNCHANGED <<redis, cached, collect_map, stale>>
    PROVE  Crossed'
<1>1. thread'[t] = r /\ \A w \in Workers \ {t} : thread'[w] = thread[w]
  BY DEF TypeOK
<1>2. Order'
  BY <1>1 DEF Crossed, Order, Crosses
<1>3. ASSUME NEW w \in Workers PROVE thread'[w].before = thread[w].before
  BY <1>1
<1>4. ASSUME NEW w \in Workers, Crosses(w)' PROVE w # t /\ thread'[w] = thread[w]
  BY <1>1, <1>4 DEF Crosses
<1>5. ASSUME NEW w \in Workers, Crosses(w) PROVE w # t /\ thread'[w] = thread[w]
  BY <1>1, <1>5 DEF Crosses
<1>6. \A w \in Workers, u \in Users, s \in Songs :
        /\ Writing(w, u, s)' <=> Writing(w, u, s)
        /\ Writing(w, u, s) => thread'[w] = thread[w]
  BY <1>4, <1>5 DEF Writing, Crosses
<1>7. Passed'
  <2> SUFFICES ASSUME NEW v \in Workers, NEW w \in Workers, w \in thread'[v].before,
                      Writer(v)', thread'[v].song \in thread'[v].overtaken,
                      thread'[w].pc = "fill" \/ thread'[w].song = thread'[v].song
               PROVE  thread'[v].song \in thread'[w].overtaken
    BY DEF Passed
  <2>1. Crosses(v) /\ Crosses(w)
    BY <1>3 DEF Crossed, Order
  <2> QED BY <2>1, <1>5 DEF Crossed, Passed, Writer
<1>8. Latest'
  <2> SUFFICES ASSUME NEW w \in Workers, NEW u \in Users, NEW s \in Songs,
                      Writing(w, u, s)', <<u, s>> \notin stale, s \notin thread'[w].overtaken,
                      \A v \in Workers : Writing(v, u, s)' => w \notin thread'[v].before
               PROVE  s \in redis[u] <=> thread'[w].pc = "set"
    BY DEF Latest
  <2>1. \A v \in Workers : Writing(v, u, s) => w \notin thread[v].before
    BY <1>3, <1>6
  <2> QED BY <2>1, <1>6 DEF Crossed, Latest
<1>9. Copy'
  BY <1>6 DEF Crossed, Copy, TypeOK
<1>10. Read'
  <2> SUFFICES ASSUME NEW f \in Workers, NEW u \in Users, NEW s \in Songs,
                      thread'[f].pc = "fill", thread'[f].uid = u, <<u, s>> \notin stale,
                      s \notin thread'[f].overtaken,
                      \A v \in Workers : Writing(v, u, s)' /\ f \in thread'[v].before
                                           => s \in thread'[v].overtaken
               PROVE  s \in thread'[f].list <=> s \in redis[u]
    BY DEF Read
  <2>1. thread'[f] = thread[f]
    BY <1>4 DEF Crosses
  <2>2. \A v \in Workers : Writing(v, u, s) /\ f \in thread[v].before => s \in thread[v].overtaken
    BY <1>3, <1>6
  <2> QED BY <2>1, <2>2 DEF Crossed, Read
<1> QED BY <1>2, <1>7, <1>8, <1>9, <1>10 DEF Crossed

\* A write has been in Redis.
LEMMA BeganKeeps ==
    ASSUME TypeOK, Crossed, NEW t \in Workers, thread[t] = Idle,
           NEW u \in Users, NEW s \in Songs, NEW pc \in {"set", "del"}, NEW taken \in BOOLEAN,
           Began(t, u, s, pc, taken), UNCHANGED cache,
           redis' = IF ~taken THEN redis
                    ELSE IF pc = "set" THEN [redis EXCEPT ![u] = @ \cup {s}]
                    ELSE [redis EXCEPT ![u] = @ \ {s}]
    PROVE  Crossed'
<1> DEFINE Others == Workers \ {t}
<1>1. /\ thread'[t].pc = pc /\ thread'[t].uid = u /\ thread'[t].song = s
      /\ thread'[t].before = Crossing(u) /\ thread'[t].overtaken = {}
  BY BeganFields
<1>2. \A w \in Others :
        /\ thread'[w].pc = thread[w].pc /\ thread'[w].uid = thread[w].uid
        /\ thread'[w].song = thread[w].song /\ thread'[w].list = thread[w].list
        /\ thread'[w].before = thread[w].before
        /\ thread'[w].overtaken = thread[w].overtaken
  BY BeganFields
<1>3. thread[t].pc = "idle"
  BY DEF Idle
<1>4. t \notin Crossing(u) /\ \A w \in Workers : t \notin thread[w].before
  BY <1>3 DEF Crossing, Crossed, Order, Crosses
<1>5. \A v \in Users, z \in Songs : v # u \/ z # s => (z \in redis'[v] <=> z \in redis[v])
  BY DEF TypeOK
<1>6. <<u, s>> \in stale' \/ (s \in redis'[u] <=> pc = "set")
  BY DEF TypeOK, Began
<1>7. stale \subseteq stale'
  BY DEF Began
<1>8. \A w \in Others, v \in Users, z \in Songs : Writing(w, v, z)' <=> Writing(w, v, z)
  BY <1>2 DEF Writing
<1>9. Writing(t, u, s)' /\ \A v \in Users, z \in Songs : Writing(t, v, z)' => v = u /\ z = s
  BY <1>1 DEF Writing
<1>10. \A w \in Others : Crosses(w) /\ thread[w].uid = u => w \in thread'[t].before
  BY <1>1 DEF Crossing, Crosses
<1>11. Order'
  <2>1. \A v, w \in Workers : w \in thread'[v].before =>
          w # v /\ Crosses(v)' /\ Crosses(w)' /\ thread'[v].uid = thread'[w].uid
    BY <1>1, <1>2, <1>4 DEF Crossed, Order, Crosses, Crossing
  <2>2. \A v, w, x \in Workers :
          w \in thread'[v].before /\ v \in thread'[x].before => w \in thread'[x].before
    BY <1>1, <1>2, <1>4 DEF Crossed, Order, Crosses, Crossing
  <2> QED BY <2>1, <2>2 DEF Order
<1>12. Passed'
  BY <1>1, <1>2, <1>4 DEF Crossed, Passed, Writer
<1>13. Latest'
  <2> SUFFICES ASSUME NEW w \in Workers, NEW v \in Users, NEW z \in Songs,
                      Writing(w, v, z)', <<v, z>> \notin stale', z \notin thread'[w].overtaken,
                      \A x \in Workers : Writing(x, v, z)' => w \notin thread'[x].before
               PROVE  z \in redis'[v] <=> thread'[w].pc = "set"
    BY DEF Latest
  <2>1. CASE w = t
    BY <2>1, <1>1, <1>6, <1>9
  <2>2. CASE w # t
    <3>1. Writing(w, v, z) /\ Crosses(w) /\ thread[w].uid = v
      BY <2>2, <1>8 DEF Writing, Crosses
    <3>2. v # u \/ z # s
      BY <2>2, <3>1, <1>9, <1>10
    <3>3. \A x \in Workers : Writing(x, v, z) => w \notin thread[x].before
      BY <1>2, <1>3, <1>8 DEF Writing
    <3> QED BY <2>2, <3>1, <3>2, <3>3, <1>2, <1>5, <1>7 DEF Crossed, Latest
  <2> QED BY <2>1, <2>2
<1>14. Copy'
  <2> SUFFICES ASSUME NEW v \in cached, NEW z \in Songs, <<v, z>> \notin stale',
                      \A x \in Workers : Writing(x, v, z)' => z \in thread'[x].overtaken
               PROVE  z \in collect_map[v] <=> z \in redis'[v]
    BY DEF Copy, cache
  <2>1. v \in Users
    BY DEF TypeOK
  <2>2. v # u \/ z # s
    BY <1>1, <1>9
  <2>3. \A x \in Workers : Writing(x, v, z) => z \in thread[x].overtaken
    BY <1>2, <1>3, <1>8, <2>1 DEF Writing
  <2> QED BY <2>1, <2>2, <2>3, <1>5, <1>7 DEF Crossed, Copy
<1>15. Read'
  <2> SUFFICES ASSUME NEW f \in Workers, NEW v \in Users, NEW z \in Songs,
                      thread'[f].pc = "fill", thread'[f].uid = v, <<v, z>> \notin stale',
                      z \notin thread'[f].overtaken,
                      \A x \in Workers : Writing(x, v, z)' /\ f \in thread'[x].before
                                           => z \in thread'[x].overtaken
               PROVE  z \in thread'[f].list <=> z \in redis'[v]
    BY DEF Read
  <2>1. f # t
    BY <1>1
  <2>2. v # u \/ z # s
    BY <2>1, <1>1, <1>2, <1>9, <1>10 DEF Crosses
  <2>3. \A x \in Workers : Writing(x, v, z) /\ f \in thread[x].before => z \in thread[x].overtaken
    BY <1>2, <1>3, <1>8 DEF Writing
  <2> QED BY <2>1, <2>2, <2>3, <1>2, <1>5, <1>7 DEF Crossed, Read
<1> QED BY <1>11, <1>12, <1>13, <1>14, <1>15 DEF Crossed

\* A read has been in Redis: it holds what is there.
LEMMA ReadKeeps ==
    ASSUME TypeOK, Shape, Crossed, NEW t \in Workers, thread[t].pc = "redis_get",
           thread[t].overtaken = {}, thread[t].uid \in Users,
           thread' = [thread EXCEPT ![t].pc = "fill", ![t].list = redis[thread[t].uid],
                                    ![t].before = Crossing(thread[t].uid)],
           UNCHANGED <<redis, cache, stale>>
    PROVE  Crossed'
<1> DEFINE Others == Workers \ {t}
           u == thread[t].uid
<1>0. thread[t] \in ThreadType
  BY DEF TypeOK, ThreadType
<1>1. /\ thread'[t].pc = "fill" /\ thread'[t].uid = u /\ thread'[t].list = redis[u]
      /\ thread'[t].before = Crossing(u) /\ thread'[t].overtaken = {}
  BY <1>0 DEF TypeOK, ThreadType
<1>2. \A w \in Others : thread'[w] = thread[w]
  BY DEF TypeOK
<1>3. \A w \in Workers : t \notin thread[w].before
  BY DEF Crossed, Order, Crosses
<1>4. \A w \in Workers, v \in Users, z \in Songs :
        /\ Writing(w, v, z)' <=> Writing(w, v, z)
        /\ Writing(w, v, z) => w \in Others
  BY <1>1, <1>2 DEF Writing
<1>c. \A w \in Workers : w \in Crossing(u) <=> w \in Others /\ Crosses(w) /\ thread[w].uid = u
  BY DEF Crossing, Crosses
<1>d. Crosses(t)' /\ \A w \in Others : Crosses(w)' <=> Crosses(w)
  BY <1>1, <1>2 DEF Crosses
<1>e. /\ \A w \in Others : thread'[w].before = thread[w].before /\ thread'[w].uid = thread[w].uid
      /\ \A w \in Workers : w \in thread'[t].before <=> w \in Crossing(u)
  BY <1>1, <1>2
<1> HIDE DEF u
<1>5. Order'
  <2>1. ASSUME NEW v \in Workers, NEW w \in Workers, w \in thread'[v].before
        PROVE  w # v /\ Crosses(v)' /\ Crosses(w)' /\ thread'[v].uid = thread'[w].uid
    <3>1. CASE v = t
      BY <2>1, <3>1, <1>1, <1>c, <1>d, <1>e
    <3>2. CASE v # t
      <4>1. w \in thread[v].before /\ w # t
        BY <2>1, <3>2, <1>3, <1>e
      <4>2. w # v /\ Crosses(v) /\ Crosses(w) /\ thread[v].uid = thread[w].uid
        BY <4>1 DEF Crossed, Order
      <4>3. Crosses(v)' /\ Crosses(w)'
        BY <3>2, <4>1, <4>2, <1>d
      <4> QED BY <3>2, <4>1, <4>2, <4>3, <1>e
    <3> QED BY <3>1, <3>2
  <2>2. ASSUME NEW v \in Workers, NEW w \in Workers, NEW x \in Workers,
               w \in thread'[v].before, v \in thread'[x].before
        PROVE  w \in thread'[x].before
    <3>1. v # t
      BY <2>2, <1>3, <1>c, <1>e
    <3>2. w \in thread[v].before
      BY <2>2, <3>1, <1>e
    <3>3. CASE x = t
      <4>1. v \in Crossing(u)
        BY <2>2, <3>3, <1>e
      <4>2. Crosses(w) /\ thread[w].uid = thread[v].uid
        BY <3>2 DEF Crossed, Order
      <4>3. w # t
        BY <3>2, <1>3
      <4> QED BY <3>3, <4>1, <4>2, <4>3, <1>c, <1>e
    <3>4. CASE x # t
      BY <2>2, <3>2, <3>4, <1>e DEF Crossed, Order
    <3> QED BY <3>3, <3>4
  <2> QED BY <2>1, <2>2 DEF Order
<1>6. Passed'
  <2> SUFFICES ASSUME NEW v \in Workers, NEW w \in Workers, w \in thread'[v].before, Writer(v)',
                      thread'[v].song \in thread'[v].overtaken,
                      thread'[w].pc = "fill" \/ thread'[w].song = thread'[v].song
               PROVE  thread'[v].song \in thread'[w].overtaken
    BY DEF Passed
  <2>1. v # t
    BY <1>1 DEF Writer
  <2>2. w # t /\ w \in thread[v].before
    BY <2>1, <1>2, <1>3
  <2> QED BY <2>1, <2>2, <1>2 DEF Crossed, Passed, Writer
<1>7. Latest'
  <2> SUFFICES ASSUME NEW w \in Workers, NEW v \in Users, NEW z \in Songs,
                      Writing(w, v, z)', <<v, z>> \notin stale, z \notin thread'[w].overtaken,
                      \A x \in Workers : Writing(x, v, z)' => w \notin thread'[x].before
               PROVE  z \in redis[v] <=> thread'[w].pc = "set"
    BY DEF Latest
  <2>1. Writing(w, v, z) /\ thread'[w] = thread[w]
    BY <1>2, <1>4
  <2>2. \A x \in Workers : Writing(x, v, z) => w \notin thread[x].before
    BY <1>2, <1>4
  <2> QED BY <2>1, <2>2 DEF Crossed, Latest
<1>8. Copy'
  <2> SUFFICES ASSUME NEW v \in cached, NEW z \in Songs, <<v, z>> \notin stale,
                      \A x \in Workers : Writing(x, v, z)' => z \in thread'[x].overtaken
               PROVE  z \in collect_map[v] <=> z \in redis[v]
    BY DEF Copy, cache
  <2>1. \A x \in Workers : Writing(x, v, z) => z \in thread[x].overtaken
    BY <1>2, <1>4 DEF TypeOK
  <2> QED BY <2>1 DEF Crossed, Copy
<1>9. Read'
  <2> SUFFICES ASSUME NEW f \in Workers, NEW v \in Users, NEW z \in Songs,
                      thread'[f].pc = "fill", thread'[f].uid = v, <<v, z>> \notin stale,
                      z \notin thread'[f].overtaken,
                      \A x \in Workers : Writing(x, v, z)' /\ f \in thread'[x].before
                                           => z \in thread'[x].overtaken
               PROVE  z \in thread'[f].list <=> z \in redis[v]
    BY DEF Read
  <2>1. CASE f = t
    BY <2>1, <1>1
  <2>2. CASE f # t
    <3>1. \A x \in Workers : Writing(x, v, z) /\ f \in thread[x].before
                               => z \in thread[x].overtaken
      BY <1>2, <1>4
    <3> QED BY <2>2, <3>1, <1>2 DEF Crossed, Read
  <2> QED BY <2>1, <2>2
<1> QED BY <1>5, <1>6, <1>7, <1>8, <1>9 DEF Crossed

\* A request reaches collect_map_: all but the copy.
LEMMA ReachesKeeps ==
    ASSUME TypeOK, Shape, Crossed, NEW t \in Workers, Crosses(t), NEW next \in ThreadType,
           NEW written \in SUBSET Songs,
           written = IF thread[t].pc = "fill" THEN {} ELSE {thread[t].song},
           Reaches(t, written, next), next.pc \notin {"fill", "set", "del"}, next.before = {},
           UNCHANGED redis
    PROVE  Order' /\ Passed' /\ Latest' /\ Read'
<1> DEFINE Others == Workers \ {t}
<1>1. thread'[t] = next /\ stale \subseteq stale'
  BY ReachesFields
<1>2. \A w \in Others :
        /\ thread'[w].pc = thread[w].pc /\ thread'[w].uid = thread[w].uid
        /\ thread'[w].song = thread[w].song /\ thread'[w].list = thread[w].list
        /\ thread'[w].before = thread[w].before \ {t}
        /\ thread[w].overtaken \subseteq thread'[w].overtaken
  BY ReachesFields
<1>3. \A w \in Others, s \in Songs : s \in thread'[w].overtaken /\ s \notin thread[w].overtaken =>
        w \in thread[t].before /\ s \in written
  BY ReachesFields
<1>4. \A w \in Others, s \in Songs :
        (/\ w \in thread[t].before /\ s \in written
         /\ thread[w].pc = "fill" \/ thread[w].song = s) => s \in thread'[w].overtaken
  BY ReachesFields
<1>5. \A w \in Workers : Crosses(w)' => w \in Others
  BY <1>1 DEF Crosses
<1>6. \A w \in Workers, u \in Users, s \in Songs :
        Writing(w, u, s)' <=> w \in Others /\ Writing(w, u, s)
  BY <1>1, <1>2 DEF Writing
<1>7. Order'
  <2>1. \A v, w \in Workers : w \in thread'[v].before =>
          w # v /\ Crosses(v)' /\ Crosses(w)' /\ thread'[v].uid = thread'[w].uid
    BY <1>1, <1>2 DEF Crossed, Order, Crosses
  <2>2. \A v, w, x \in Workers :
          w \in thread'[v].before /\ v \in thread'[x].before => w \in thread'[x].before
    BY <1>1, <1>2 DEF Crossed, Order, Crosses
  <2> QED BY <2>1, <2>2 DEF Order
<1>8. Passed'
  <2> SUFFICES ASSUME NEW v \in Workers, NEW w \in Workers, w \in thread'[v].before, Writer(v)',
                      thread'[v].song \in thread'[v].overtaken,
                      thread'[w].pc = "fill" \/ thread'[w].song = thread'[v].song
               PROVE  thread'[v].song \in thread'[w].overtaken
    BY DEF Passed
  <2>1. v \in Others /\ w \in Others /\ w \in thread[v].before
    BY <1>2, <1>5, <1>7 DEF Order
  <2>2. thread[v].song \in Songs
    BY <2>1, <1>2 DEF Shape, Writer
  <2>3. CASE thread[v].song \in thread[v].overtaken
    BY <2>1, <2>3, <1>2 DEF Crossed, Passed, Writer
  <2>4. CASE thread[v].song \notin thread[v].overtaken
    <3>1. v \in thread[t].before /\ thread[v].song \in written
      BY <2>1, <2>2, <2>4, <1>2, <1>3
    <3>2. w \in thread[t].before
      BY <2>1, <3>1 DEF Crossed, Order
    <3> QED BY <2>1, <2>2, <3>1, <3>2, <1>2, <1>4
  <2> QED BY <2>3, <2>4
<1>9. Latest'
  <2> SUFFICES ASSUME NEW w \in Workers, NEW u \in Users, NEW s \in Songs,
                      Writing(w, u, s)', <<u, s>> \notin stale', s \notin thread'[w].overtaken,
                      \A v \in Workers : Writing(v, u, s)' => w \notin thread'[v].before
               PROVE  s \in redis[u] <=> thread'[w].pc = "set"
    BY DEF Latest
  <2>1. w \in Others /\ Writing(w, u, s)
    BY <1>6
  <2>2. ASSUME NEW v \in Workers, Writing(v, u, s) PROVE w \notin thread[v].before
    <3>1. CASE v = t
      <4>1. written = {s}
        BY <2>2, <3>1 DEF Writing
      <4> QED BY <2>1, <3>1, <4>1, <1>4 DEF Writing
    <3>2. CASE v # t
      BY <2>1, <2>2, <3>2, <1>2, <1>6
    <3> QED BY <3>1, <3>2
  <2> QED BY <2>1, <2>2, <1>1, <1>2 DEF Crossed, Latest
<1>10. Read'
  <2> SUFFICES ASSUME NEW f \in Workers, NEW u \in Users, NEW s \in Songs,
                      thread'[f].pc = "fill", thread'[f].uid = u, <<u, s>> \notin stale',
                      s \notin thread'[f].overtaken,
                      \A v \in Workers : Writing(v, u, s)' /\ f \in thread'[v].before
                                           => s \in thread'[v].overtaken
               PROVE  s \in thread'[f].list <=> s \in redis[u]
    BY DEF Read
  <2>1. f \in Others /\ thread[f].pc = "fill"
    BY <1>5, <1>2 DEF Crosses
  <2>2. ASSUME NEW v \in Workers, Writing(v, u, s), f \in thread[v].before
        PROVE  s \in thread[v].overtaken
    <3>1. v # t
      <4>1. v = t => written = {s}
        BY <2>2 DEF Writing
      <4> QED BY <2>1, <2>2, <4>1, <1>4
    <3>2. s \in thread'[v].overtaken
      BY <2>1, <2>2, <3>1, <1>2, <1>6
    <3>3. s \in thread[v].overtaken \/ (v \in thread[t].before /\ s \in written)
      BY <3>1, <3>2, <1>3
    <3>4. ~ (v \in thread[t].before /\ s \in written)
      BY <2>1, <2>2, <1>4 DEF Crossed, Order
    <3> QED BY <3>3, <3>4
  <2> QED BY <2>1, <2>2, <1>1, <1>2 DEF Crossed, Read
<1> QED BY <1>7, <1>8, <1>9, <1>10

\* The copy after a read: what the read holds.
LEMMA FillKeeps ==
    ASSUME TypeOK, Shape, Crossed, NEW t \in Workers, Fill(t)
    PROVE  Crossed'
<1> DEFINE u == thread[t].uid
           next == [thread[t] EXCEPT !.pc = "info", !.before = {}, !.overtaken = {}]
<1>0. thread[t] \in ThreadType /\ thread[t].pc = "fill" /\ u \in Users
  BY DEF TypeOK, ThreadType, Fill, Shape
<1>1. next \in ThreadType /\ next.pc = "info" /\ next.before = {}
  <2>1. next \in ThreadType
    BY <1>0, Changed, ZenonT(30)
  <2> QED BY <2>1, <1>0 DEF ThreadType
<1>2. Reaches(t, {}, next) /\ UNCHANGED redis
  BY DEF Fill
<1> HIDE DEF next
<1>3. Order' /\ Passed' /\ Latest' /\ Read'
  BY <1>0, <1>1, <1>2, ReachesKeeps DEF Crosses
<1>4. /\ thread'[t] = next
      /\ \A v \in Users, s \in Songs : <<v, s>> \notin stale' =>
           <<v, s>> \notin stale /\ (v = u => s \notin thread[t].overtaken)
  BY <1>2, ReachesFields
<1>5. \A w \in Workers \ {t} :
        /\ thread'[w].pc = thread[w].pc /\ thread'[w].uid = thread[w].uid
        /\ thread'[w].song = thread[w].song
        /\ thread'[w].overtaken \subseteq thread[w].overtaken
  BY <1>2, ReachesFields
<1>6. \A v \in Workers, x \in Users, s \in Songs : Writing(v, x, s) =>
        Writing(v, x, s)' /\ v # t
  BY <1>0, <1>5 DEF Writing
<1>7. Copy'
  <2> SUFFICES ASSUME NEW v \in cached', NEW s \in Songs, <<v, s>> \notin stale',
                      \A x \in Workers : Writing(x, v, s)' => s \in thread'[x].overtaken
               PROVE  s \in collect_map'[v] <=> s \in redis[v]
    BY <1>2 DEF Copy
  <2>1. v \in cached \cup {u} /\ v \in Users
    BY <1>0 DEF Fill, TypeOK
  <2>2. \A x \in Workers : Writing(x, v, s) => s \in thread[x].overtaken
    BY <2>1, <1>5, <1>6
  <2>3. CASE v = u
    <3>1. collect_map'[v] = thread[t].list
      BY <2>1, <2>3 DEF Fill, TypeOK
    <3>2. s \in thread[t].list <=> s \in redis[v]
      BY <2>1, <2>2, <2>3, <1>0, <1>4 DEF Crossed, Read
    <3> QED BY <3>1, <3>2
  <2>4. CASE v # u
    <3>1. collect_map'[v] = collect_map[v] /\ v \in cached
      BY <2>1, <2>4 DEF Fill, TypeOK
    <3> QED BY <2>1, <2>2, <3>1, <1>4 DEF Crossed, Copy
  <2> QED BY <2>3, <2>4
<1> QED BY <1>3, <1>7 DEF Crossed

\* The copy after a write: if the write was not overtaken, it is the latest of
\* those that were not, and Redis holds what it says.
LEMMA WriteKeeps ==
    ASSUME TypeOK, Shape, Crossed, NEW t \in Workers, Writer(t),
           Reaches(t, {thread[t].song}, Idle), UNCHANGED <<redis, cached>>,
           collect_map' = IF thread[t].uid \notin cached THEN collect_map
                          ELSE IF thread[t].pc = "set"
                          THEN [collect_map EXCEPT ![thread[t].uid] = @ \cup {thread[t].song}]
                          ELSE [collect_map EXCEPT ![thread[t].uid] = @ \ {thread[t].song}]
    PROVE  Crossed'
<1> DEFINE u == thread[t].uid
           z == thread[t].song
<1>0. u \in Users /\ z \in Songs /\ thread[t].pc \in {"set", "del"}
  BY DEF Shape, Writer
<1>1. Idle.pc = "idle" /\ Idle.before = {}
  BY DEF Idle
<1>2. Order' /\ Passed' /\ Latest' /\ Read'
  BY <1>0, <1>1, IdleType, ReachesKeeps DEF Crosses
<1>3. /\ thread'[t] = Idle
      /\ \A v \in Users, s \in Songs : <<v, s>> \notin stale' =>
           <<v, s>> \notin stale /\ (v = u => s \notin thread[t].overtaken)
  BY ReachesFields
<1>4. \A w \in Workers \ {t} :
        /\ thread'[w].pc = thread[w].pc /\ thread'[w].uid = thread[w].uid
        /\ thread'[w].song = thread[w].song
        /\ \A s \in thread'[w].overtaken :
             s \in thread[w].overtaken \/ (w \in thread[t].before /\ s = z)
  BY ReachesFields
<1>5. \A v \in Workers, x \in Users, s \in Songs : Writing(v, x, s) /\ v # t => Writing(v, x, s)'
  BY <1>4 DEF Writing
<1>6. \A v \in Users, s \in Songs : v # u \/ s # z =>
        (s \in collect_map'[v] <=> s \in collect_map[v])
  BY <1>0 DEF TypeOK
<1>7. u \in cached => (z \in collect_map'[u] <=> thread[t].pc = "set")
  BY <1>0 DEF TypeOK
<1>8. Copy'
  <2> SUFFICES ASSUME NEW v \in cached, NEW s \in Songs, <<v, s>> \notin stale',
                      \A x \in Workers : Writing(x, v, s)' => s \in thread'[x].overtaken
               PROVE  s \in collect_map'[v] <=> s \in redis[v]
    BY DEF Copy
  <2>0. v \in Users
    BY DEF TypeOK
  <2>1. CASE v = u /\ s = z
    <3>1. ASSUME NEW x \in Workers, Writing(x, u, z), t \in thread[x].before PROVE FALSE
      <4>1. x # t
        BY <3>1 DEF Crossed, Order
      <4>2. z \in thread'[x].overtaken
        BY <2>1, <3>1, <4>1, <1>0, <1>5
      <4>3. CASE z \in thread[x].overtaken
        <5>1. Writer(x) /\ thread[x].song = z
          BY <3>1 DEF Writing, Writer
        <5>2. z \in thread[t].overtaken
          BY <3>1, <4>3, <5>1 DEF Crossed, Passed
        <5> QED BY <5>2, <2>1, <1>0, <1>3
      <4>4. CASE x \in thread[t].before
        <5>1. t \in thread[t].before
          BY <3>1, <4>4 DEF Crossed, Order
        <5> QED BY <5>1 DEF Crossed, Order
      <4> QED BY <4>1, <4>2, <4>3, <4>4, <1>4
    <3>2. Writing(t, u, z)
      BY <1>0 DEF Writing
    <3>3. z \in redis[u] <=> thread[t].pc = "set"
      BY <3>1, <3>2, <2>1, <1>0, <1>3 DEF Crossed, Latest
    <3> QED BY <2>1, <3>3, <1>7
  <2>2. CASE v # u \/ s # z
    <3>1. ASSUME NEW x \in Workers, Writing(x, v, s) PROVE s \in thread[x].overtaken
      <4>1. x # t
        BY <2>2, <3>1 DEF Writing
      <4>2. s = z => v # u /\ thread[x].uid = v
        BY <2>2, <3>1 DEF Writing
      <4>3. x \in thread[t].before => thread[x].uid = u
        BY DEF Crossed, Order
      <4> QED BY <3>1, <4>1, <4>2, <4>3, <2>0, <1>4, <1>5
    <3> QED BY <2>0, <2>2, <3>1, <1>3, <1>6 DEF Crossed, Copy
  <2> QED BY <2>1, <2>2
<1> QED BY <1>2, <1>8 DEF Crossed

LEMMA CrossedStep ==
    ASSUME TypeOK, Shape, Crossed, TypeOK', [Next]_vars
    PROVE  Crossed'
<1>0. ASSUME NEW t \in Workers, ~Crosses(t) PROVE thread[t].before = {}
  <2>1. thread[t].before \subseteq Workers
    BY DEF TypeOK
  <2> QED BY <2>1, <1>0 DEF Crossed, Order
<1>t. ASSUME NEW t \in Workers PROVE thread[t] \in ThreadType /\ thread'[t] \in ThreadType
  BY DEF TypeOK, ThreadType
\* The steps that are quiet.
<1>q. ASSUME NEW t \in Workers, NEW r, thread' = [thread EXCEPT ![t] = r],
             ~Crosses(t), r.pc \notin {"fill", "set", "del"}, r.before = {},
             UNCHANGED <<redis, cached, collect_map, stale>>
      PROVE  Crossed'
  <2>1. r \in ThreadType
    <3>1. thread'[t] = r
      BY <1>q DEF TypeOK
    <3> QED BY <3>1, <1>t
  <2>2. r.before = thread[t].before
    BY <1>q, <1>0
  <2> QED BY <2>1, <2>2, <1>q, QuietKeeps
<1>1. ASSUME NEW t \in Workers, NEW u \in Users, CollectList(t, u) PROVE Crossed'
  <2>1. ~Crosses(t)
    BY <1>1 DEF CollectList, Crosses, Idle
  <2> DEFINE r == [Idle EXCEPT !.pc = "lookup", !.uid = u, !.on = on[u], !.off = off[u]]
  <2>2. thread' = [thread EXCEPT ![t] = r] /\ UNCHANGED <<redis, cached, collect_map, stale>>
    BY <1>1 DEF CollectList, cache
  <2>3. r.pc = "lookup" /\ r.before = {}
    BY DEF Idle
  <2> HIDE DEF r
  <2> QED BY <2>1, <2>2, <2>3, <1>q
<1>2. ASSUME NEW t \in Workers, Lookup(t) PROVE Crossed'
  <2>1. ~Crosses(t)
    BY <1>2 DEF Lookup, Crosses
  <2>2. PICK r : /\ thread' = [thread EXCEPT ![t] = r]
                 /\ r.pc \in {"info", "redis_get"} /\ r.before = thread[t].before
    <3>1. CASE thread[t].uid \in cached /\ collect_map[thread[t].uid] # {}
      <4> DEFINE r == [thread[t] EXCEPT !.pc = "info", !.list = collect_map[thread[t].uid]]
      <4>1. thread' = [thread EXCEPT ![t] = r]
        BY <3>1, <1>2 DEF Lookup
      <4>2. r.pc = "info" /\ r.before = thread[t].before
        BY <1>t DEF ThreadType
      <4> QED BY <4>1, <4>2
    <3>2. CASE ~ (thread[t].uid \in cached /\ collect_map[thread[t].uid] # {})
      <4> DEFINE r == [thread[t] EXCEPT !.pc = "redis_get"]
      <4>1. thread' = [thread EXCEPT ![t] = r]
        BY <3>2, <1>2 DEF Lookup
      <4>2. r.pc = "redis_get" /\ r.before = thread[t].before
        BY <1>t DEF ThreadType
      <4> QED BY <4>1, <4>2
    <3> QED BY <3>1, <3>2
  <2> QED BY <2>1, <2>2, <1>0, <1>2, <1>q DEF Lookup, cache
<1>3. ASSUME NEW t \in Workers, RedisGet(t) PROVE Crossed'
  <2>1. ~Crosses(t) /\ thread[t].uid \in Users /\ thread[t].overtaken = {}
    BY <1>3 DEF RedisGet, Crosses, Shape
  <2>2. CASE redis[thread[t].uid] = {}
    <3> DEFINE r == [thread[t] EXCEPT !.pc = "info"]
    <3>1. thread' = [thread EXCEPT ![t] = r]
      BY <2>2, <1>3 DEF RedisGet
    <3>2. r.pc = "info" /\ r.before = thread[t].before
      BY <1>t DEF ThreadType
    <3> HIDE DEF r
    <3> QED BY <2>1, <3>1, <3>2, <1>0, <1>3, <1>q DEF RedisGet, cache
  <2>3. CASE redis[thread[t].uid] # {}
    BY <2>1, <2>3, <1>3, ReadKeeps DEF RedisGet
  <2> QED BY <2>2, <2>3
<1>4. ASSUME NEW t \in Workers, RedisGetFails(t) PROVE Crossed'
  <2> DEFINE r == [thread[t] EXCEPT !.pc = "info", !.on = {}]
  <2>1. ~Crosses(t) /\ thread' = [thread EXCEPT ![t] = r]
    BY <1>4 DEF RedisGetFails, Crosses
  <2>2. r.pc = "info" /\ r.before = thread[t].before
    BY <1>t DEF ThreadType
  <2> HIDE DEF r
  <2> QED BY <2>1, <2>2, <1>0, <1>4, <1>q DEF RedisGetFails, cache
<1>5. ASSUME NEW t \in Workers, SendList(t) PROVE Crossed'
  <2>1. ~Crosses(t) /\ Idle.pc = "idle" /\ Idle.before = {}
    BY <1>5 DEF SendList, Crosses, Idle
  <2> QED BY <2>1, <1>5, <1>q DEF SendList, cache
<1>i. ASSUME NEW t \in Workers, GetMusicInfo(t) PROVE Crossed'
  <2> DEFINE r == [thread[t] EXCEPT !.pc = "send", !.list = @ \cap playable]
  <2>1. ~Crosses(t) /\ thread' = [thread EXCEPT ![t] = r]
    BY <1>i DEF GetMusicInfo, Crosses
  <2>2. r.pc = "send" /\ r.before = thread[t].before
    BY <1>t DEF ThreadType
  <2> HIDE DEF r
  <2> QED BY <2>1, <2>2, <1>0, <1>i, <1>q DEF GetMusicInfo, cache
<1>6. ASSUME NEW t \in Workers, Fill(t) PROVE Crossed'
  BY <1>6, FillKeeps
<1>7. ASSUME NEW t \in Workers, NEW u \in Users, NEW s \in Songs,
             SetCollect(t, u, s) \/ DelCollect(t, u, s)
      PROVE  Crossed'
  <2>1. PICK pc \in {"set", "del"}, taken \in BOOLEAN :
          /\ Began(t, u, s, pc, taken)
          /\ redis' = IF ~taken THEN redis
                      ELSE IF pc = "set" THEN [redis EXCEPT ![u] = @ \cup {s}]
                      ELSE [redis EXCEPT ![u] = @ \ {s}]
    BY <1>7 DEF SetCollect, DelCollect
  <2>2. thread[t] = Idle /\ UNCHANGED cache
    BY <1>7 DEF SetCollect, DelCollect
  <2> QED BY <2>1, <2>2, BeganKeeps
<1>8. ASSUME NEW t \in Workers, SetMusicPreference(t) \/ DelCollectSong(t) PROVE Crossed'
  <2>1. Writer(t) /\ Reaches(t, {thread[t].song}, Idle) /\ UNCHANGED <<redis, cached>>
    BY <1>8 DEF SetMusicPreference, DelCollectSong, Writer
  <2>2. collect_map' = IF thread[t].uid \notin cached THEN collect_map
                       ELSE IF thread[t].pc = "set"
                       THEN [collect_map EXCEPT ![thread[t].uid] = @ \cup {thread[t].song}]
                       ELSE [collect_map EXCEPT ![thread[t].uid] = @ \ {thread[t].song}]
    BY <1>8 DEF SetMusicPreference, DelCollectSong
  <2> QED BY <2>1, <2>2, WriteKeeps
<1>9. ASSUME Restart PROVE Crossed'
  <2>1. \A w \in Workers : thread'[w].pc = "idle" /\ thread'[w].before = {}
    BY <1>9 DEF Restart, Idle
  <2> QED BY <2>1, <1>9 DEF Restart, Crossed, Order, Passed, Latest, Copy, Read, Writing,
                             Writer, Crosses
<1>10. CASE UNCHANGED vars
  BY <1>10 DEF vars, cache, Crossed, Order, Passed, Latest, Copy, Read, Writing, Writer, Crosses
<1> QED BY <1>1, <1>2, <1>3, <1>4, <1>5, <1>i, <1>6, <1>7, <1>8, <1>9, <1>10 DEF Next

-----------------------------------------------------------------------------
(* What the users were told *)

Answers == Shape /\ Alone /\ Told /\ Asked /\ Shown

\* A step of one thread that is not a write.
LEMMA QuietAnswers ==
    ASSUME TypeOK, Answers, NEW t \in Workers, NEW r \in ThreadType,
           thread' = [thread EXCEPT ![t] = r], ~Writer(t), r.pc \notin {"set", "del"},
           UNCHANGED <<redis, playable, on, off, stale>>,
           r.pc # "idle" => r.uid \in Users,
           r.pc \in {"lookup", "redis_get"} => r.list = {} /\ r.overtaken = {},
           r.uid \in Users => r.on \subseteq on[r.uid] /\ r.off \subseteq off[r.uid],
           r.pc \in {"fill", "info", "send"} =>
             \A s \in Songs : <<r.uid, s>> \notin stale =>
               /\ s \in r.on /\ (r.pc = "send" => s \in playable) => s \in r.list
               /\ s \in r.off => s \notin r.list
    PROVE  Answers'
<1>1. thread'[t] = r /\ \A w \in Workers \ {t} : thread'[w] = thread[w]
  BY DEF TypeOK
<1>2. \A w \in Workers, u \in Users, s \in Songs :
        /\ Writing(w, u, s)' <=> Writing(w, u, s)
        /\ Writing(w, u, s) => thread'[w] = thread[w]
  BY <1>1 DEF Writing, Writer
<1>3. Shape'
  BY <1>1 DEF Answers, Shape, Writer
<1>4. Alone'
  BY <1>2 DEF Answers, Alone
<1>5. Told'
  BY <1>2 DEF Answers, Told
<1>6. Asked'
  BY <1>1 DEF Answers, Asked
<1>7. Shown'
  BY <1>1 DEF Answers, Shown
<1> QED BY <1>3, <1>4, <1>5, <1>6, <1>7 DEF Answers

LEMMA BeganAnswers ==
    ASSUME TypeOK, Answers, NEW t \in Workers, thread[t] = Idle,
           NEW u \in Users, NEW s \in Songs, NEW pc \in {"set", "del"}, NEW taken \in BOOLEAN,
           Began(t, u, s, pc, taken), playable' = playable,
           redis' = IF ~taken THEN redis
                    ELSE IF pc = "set" THEN [redis EXCEPT ![u] = @ \cup {s}]
                    ELSE [redis EXCEPT ![u] = @ \ {s}]
    PROVE  Answers'
<1> DEFINE Others == Workers \ {t}
<1>1. /\ thread'[t].pc = pc /\ thread'[t].uid = u /\ thread'[t].song = s
      /\ thread'[t].on = {} /\ thread'[t].off = {}
      /\ thread'[t].alone => taken /\ \A v \in Workers : ~Writing(v, u, s)
  BY BeganFields
<1>2. \A w \in Others :
        /\ thread'[w].pc = thread[w].pc /\ thread'[w].uid = thread[w].uid
        /\ thread'[w].song = thread[w].song /\ thread'[w].list = thread[w].list
        /\ thread'[w].overtaken = thread[w].overtaken
        /\ thread'[w].on \subseteq thread[w].on /\ thread'[w].off \subseteq thread[w].off
        /\ thread'[w].alone => thread[w].alone
        /\ thread[w].uid = u =>
             /\ s \notin thread'[w].on /\ s \notin thread'[w].off
             /\ thread[w].song = s => ~thread'[w].alone
  BY BeganFields
<1>3. \A v \in Users, z \in Songs : v # u \/ z # s => (z \in redis'[v] <=> z \in redis[v])
  BY DEF TypeOK
<1>4. taken => (s \in redis'[u] <=> pc = "set")
  BY DEF TypeOK
<1>5. on' = [on EXCEPT ![u] = @ \ {s}] /\ off' = [off EXCEPT ![u] = @ \ {s}] /\ stale \subseteq stale'
  BY DEF Began
<1>6. \A v \in Users : /\ on'[v] = IF v = u THEN on[v] \ {s} ELSE on[v]
                       /\ off'[v] = IF v = u THEN off[v] \ {s} ELSE off[v]
  BY <1>5 DEF TypeOK
<1>7. \A w \in Others, v \in Users, z \in Songs : Writing(w, v, z)' <=> Writing(w, v, z)
  BY <1>2 DEF Writing
<1>8. \A v \in Users, z \in Songs : Writing(t, v, z)' <=> v = u /\ z = s
  BY <1>1 DEF Writing
<1>9. Shape'
  BY <1>1, <1>2 DEF Answers, Shape, Writer
<1>10. Alone'
  <2> SUFFICES ASSUME NEW w \in Workers, NEW v \in Users, NEW z \in Songs,
                      Writing(w, v, z)', thread'[w].alone
               PROVE  /\ z \in redis'[v] <=> thread'[w].pc = "set"
                      /\ \A x \in Workers : Writing(x, v, z)' => x = w
    BY DEF Alone
  <2>1. CASE w = t
    BY <2>1, <1>1, <1>4, <1>7, <1>8
  <2>2. CASE w # t
    <3>1. Writing(w, v, z) /\ thread[w].alone /\ (v # u \/ z # s)
      BY <2>2, <1>2, <1>7 DEF Writing
    <3>2. /\ z \in redis[v] <=> thread[w].pc = "set"
          /\ \A x \in Workers : Writing(x, v, z) => x = w
      BY <3>1 DEF Answers, Alone
    <3> QED BY <2>2, <3>1, <3>2, <1>2, <1>3, <1>7, <1>8
  <2> QED BY <2>1, <2>2
<1>11. Told'
  <2> SUFFICES ASSUME NEW v \in Users, NEW z \in Songs
               PROVE  /\ z \in on'[v]  => z \in redis'[v]
                      /\ z \in off'[v] => z \notin redis'[v]
                      /\ z \in on'[v] \cup off'[v] => \A w \in Workers : ~Writing(w, v, z)'
    BY DEF Told
  <2>1. CASE v = u /\ z = s
    BY <2>1, <1>6
  <2>2. CASE v # u \/ z # s
    <3>1. /\ z \in on'[v] => z \in on[v]
          /\ z \in off'[v] => z \in off[v]
      BY <1>6
    <3>2. \A w \in Workers : Writing(w, v, z)' => Writing(w, v, z)
      BY <2>2, <1>7, <1>8
    <3>3. /\ z \in on[v]  => z \in redis[v]
          /\ z \in off[v] => z \notin redis[v]
          /\ z \in on[v] \cup off[v] => \A w \in Workers : ~Writing(w, v, z)
      BY DEF Answers, Told
    <3> QED BY <2>2, <3>1, <3>2, <3>3, <1>3
  <2> QED BY <2>1, <2>2
<1>12. Asked'
  <2> SUFFICES ASSUME NEW w \in Workers, thread'[w].uid \in Users
               PROVE  /\ thread'[w].on \subseteq on'[thread'[w].uid]
                      /\ thread'[w].off \subseteq off'[thread'[w].uid]
    BY DEF Asked
  <2>1. CASE w = t
    BY <2>1, <1>1
  <2>2. CASE w # t
    <3> DEFINE v == thread[w].uid
    <3>1. v \in Users /\ thread'[w].uid = v
      BY <2>2, <1>2
    <3>2. thread[w].on \subseteq on[v] /\ thread[w].off \subseteq off[v]
      BY <3>1 DEF Answers, Asked
    <3>3. /\ thread'[w].on \subseteq thread[w].on /\ thread'[w].off \subseteq thread[w].off
          /\ v = u => s \notin thread'[w].on /\ s \notin thread'[w].off
      BY <2>2, <1>2
    <3> HIDE DEF v
    <3> QED BY <3>1, <3>2, <3>3, <1>6
  <2> QED BY <2>1, <2>2
<1>13. Shown'
  <2> SUFFICES ASSUME NEW w \in Workers, thread'[w].pc \in {"fill", "info", "send"},
                      NEW z \in Songs, <<thread'[w].uid, z>> \notin stale'
               PROVE  /\ z \in thread'[w].on /\ (thread'[w].pc = "send" => z \in playable)
                           => z \in thread'[w].list
                      /\ z \in thread'[w].off => z \notin thread'[w].list
    BY DEF Shown
  <2>1. w # t
    BY <1>1
  <2> QED BY <2>1, <1>2, <1>5 DEF Answers, Shown
<1> QED BY <1>9, <1>10, <1>11, <1>12, <1>13 DEF Answers

\* A write that is alone may be answered: Redis holds what it says.
LEMMA WriteAnswers ==
    ASSUME TypeOK, Order, Answers, NEW t \in Workers, SetMusicPreference(t) \/ DelCollectSong(t)
    PROVE  Answers'
<1> DEFINE u == thread[t].uid
           z == thread[t].song
<1>0. u \in Users /\ z \in Songs /\ Writing(t, u, z)
  BY DEF Answers, Shape, Writer, Writing, SetMusicPreference, DelCollectSong
<1>1. Reaches(t, {z}, Idle) /\ UNCHANGED <<redis, playable>>
  BY DEF SetMusicPreference, DelCollectSong
<1>2. thread'[t] = Idle /\ stale \subseteq stale'
  BY <1>1, ReachesFields
<1>3. \A w \in Workers \ {t} :
        /\ thread'[w].pc = thread[w].pc /\ thread'[w].uid = thread[w].uid
        /\ thread'[w].song = thread[w].song /\ thread'[w].list = thread[w].list
        /\ thread'[w].on = thread[w].on /\ thread'[w].off = thread[w].off
        /\ thread'[w].alone = thread[w].alone
        /\ ~Crosses(w) => thread'[w].overtaken = thread[w].overtaken
  <2>1. ASSUME NEW w \in Workers \ {t}, ~Crosses(w) PROVE w \notin thread[t].before
    BY <2>1 DEF Order
  <2> QED BY <1>1, <2>1, ReachesFields
<1>4. \A w \in Workers, v \in Users, s \in Songs :
        Writing(w, v, s)' <=> w # t /\ Writing(w, v, s)
  BY <1>2, <1>3 DEF Writing, Idle
<1>5. \A v \in Users :
        /\ on[v] \subseteq on'[v] /\ off[v] \subseteq off'[v]
        /\ \A s \in on'[v] : s \in on[v] \/ (v = u /\ s = z /\ thread[t].alone /\ thread[t].pc = "set")
        /\ \A s \in off'[v] : s \in off[v] \/ (v = u /\ s = z /\ thread[t].alone /\ thread[t].pc = "del")
  BY DEF SetMusicPreference, DelCollectSong, TypeOK
<1>6. Shape'
  BY <1>2, <1>3 DEF Answers, Shape, Writer, Idle, Crosses
<1>7. Alone'
  BY <1>1, <1>3, <1>4 DEF Answers, Alone
<1>8. Told'
  <2>1. thread[t].alone => /\ z \in redis[u] <=> thread[t].pc = "set"
                           /\ \A v \in Workers : Writing(v, u, z) => v = t
    BY <1>0 DEF Answers, Alone
  <2> QED BY <1>0, <1>1, <1>4, <1>5, <2>1 DEF Answers, Told
<1>9. Asked'
  <2> SUFFICES ASSUME NEW w \in Workers, thread'[w].uid \in Users
               PROVE  /\ thread'[w].on \subseteq on'[thread'[w].uid]
                      /\ thread'[w].off \subseteq off'[thread'[w].uid]
    BY DEF Asked
  <2>1. CASE w = t
    BY <2>1, <1>2 DEF Idle
  <2>2. CASE w # t
    BY <2>2, <1>3, <1>5 DEF Answers, Asked
  <2> QED BY <2>1, <2>2
<1>10. Shown'
  <2> SUFFICES ASSUME NEW w \in Workers, thread'[w].pc \in {"fill", "info", "send"},
                      NEW s \in Songs, <<thread'[w].uid, s>> \notin stale'
               PROVE  /\ s \in thread'[w].on /\ (thread'[w].pc = "send" => s \in playable)
                           => s \in thread'[w].list
                      /\ s \in thread'[w].off => s \notin thread'[w].list
    BY <1>1 DEF Shown
  <2>1. w # t
    BY <1>2 DEF Idle
  <2> QED BY <2>1, <1>2, <1>3 DEF Answers, Shown
<1> QED BY <1>6, <1>7, <1>8, <1>9, <1>10 DEF Answers

LEMMA AnswersStep ==
    ASSUME TypeOK, Crossed, Answers, TypeOK', [Next]_vars
    PROVE  Answers'
<1>t. ASSUME NEW t \in Workers PROVE thread[t] \in ThreadType /\ thread'[t] \in ThreadType
  BY DEF TypeOK, ThreadType
<1>0. ASSUME NEW t \in Workers, NEW r, thread' = [thread EXCEPT ![t] = r] PROVE r \in ThreadType
  <2>1. thread'[t] = r
    BY <1>0 DEF TypeOK
  <2> QED BY <2>1, <1>t
<1>1. ASSUME NEW t \in Workers, NEW u \in Users, CollectList(t, u) PROVE Answers'
  <2> DEFINE r == [Idle EXCEPT !.pc = "lookup", !.uid = u, !.on = on[u], !.off = off[u]]
  <2>1. thread' = [thread EXCEPT ![t] = r] /\ ~Writer(t) /\ UNCHANGED <<redis, playable, on, off, stale>>
    BY <1>1 DEF CollectList, Writer, Idle, cache
  <2>2. /\ r.pc = "lookup" /\ r.uid = u /\ r.list = {} /\ r.overtaken = {}
        /\ r.on = on[u] /\ r.off = off[u]
    BY DEF Idle
  <2> HIDE DEF r
  <2> QED BY <2>1, <2>2, <1>0, QuietAnswers
<1>2. ASSUME NEW t \in Workers, Lookup(t) PROVE Answers'
  <2> DEFINE u == thread[t].uid
  <2>1. /\ ~Writer(t) /\ UNCHANGED <<redis, playable, on, off, stale>>
        /\ u \in Users /\ thread[t].list = {} /\ thread[t].overtaken = {}
        /\ thread[t].on \subseteq on[u] /\ thread[t].off \subseteq off[u]
    BY <1>2 DEF Lookup, Writer, Answers, Shape, Asked, cache
  <2>2. CASE u \in cached /\ collect_map[u] # {}
    <3> DEFINE r == [thread[t] EXCEPT !.pc = "info", !.list = collect_map[u]]
    <3>1. thread' = [thread EXCEPT ![t] = r]
      BY <2>2, <1>2 DEF Lookup
    <3>2. /\ r.pc = "info" /\ r.uid = u /\ r.list = collect_map[u]
          /\ r.on = thread[t].on /\ r.off = thread[t].off
      BY <1>t DEF ThreadType
    <3>3. ASSUME NEW s \in Songs, <<u, s>> \notin stale, s \in on[u] \cup off[u]
          PROVE  /\ s \in on[u]  => s \in collect_map[u]
                 /\ s \in off[u] => s \notin collect_map[u]
      <4>1. \A v \in Workers : ~Writing(v, u, s)
        BY <2>1, <3>3 DEF Answers, Told
      <4>2. s \in collect_map[u] <=> s \in redis[u]
        BY <2>2, <3>3, <4>1 DEF Crossed, Copy
      <4> QED BY <2>1, <4>2 DEF Answers, Told
    <3> HIDE DEF r, u
    <3> QED BY <2>1, <3>1, <3>2, <3>3, <1>0, QuietAnswers
  <2>3. CASE ~ (u \in cached /\ collect_map[u] # {})
    <3> DEFINE r == [thread[t] EXCEPT !.pc = "redis_get"]
    <3>1. thread' = [thread EXCEPT ![t] = r]
      BY <2>3, <1>2 DEF Lookup
    <3>2. /\ r.pc = "redis_get" /\ r.uid = u /\ r.list = {} /\ r.overtaken = {}
          /\ r.on = thread[t].on /\ r.off = thread[t].off
      BY <2>1, <1>t DEF ThreadType
    <3> HIDE DEF r, u
    <3> QED BY <2>1, <3>1, <3>2, <1>0, QuietAnswers
  <2> QED BY <2>2, <2>3
<1>3. ASSUME NEW t \in Workers, RedisGet(t) PROVE Answers'
  <2> DEFINE u == thread[t].uid
  <2>1. /\ ~Writer(t) /\ UNCHANGED <<redis, playable, on, off, stale>>
        /\ u \in Users /\ thread[t].list = {} /\ thread[t].overtaken = {}
        /\ thread[t].on \subseteq on[u] /\ thread[t].off \subseteq off[u]
    BY <1>3 DEF RedisGet, Writer, Answers, Shape, Asked, cache
  <2>2. \A s \in Songs : (s \in on[u] => s \in redis[u]) /\ (s \in off[u] => s \notin redis[u])
    BY <2>1 DEF Answers, Told
  <2>3. PICK r : /\ thread' = [thread EXCEPT ![t] = r]
                 /\ r.pc \in {"info", "fill"} /\ r.uid = u /\ r.list = redis[u]
                 /\ r.on = thread[t].on /\ r.off = thread[t].off
    <3>1. CASE redis[u] = {}
      <4> DEFINE r == [thread[t] EXCEPT !.pc = "info"]
      <4>1. thread' = [thread EXCEPT ![t] = r]
        BY <3>1, <1>3 DEF RedisGet
      <4>2. /\ r.pc = "info" /\ r.uid = u /\ r.list = redis[u]
            /\ r.on = thread[t].on /\ r.off = thread[t].off
        BY <2>1, <3>1, <1>t DEF ThreadType
      <4> QED BY <4>1, <4>2
    <3>2. CASE redis[u] # {}
      <4> DEFINE r == [thread[t] EXCEPT !.pc = "fill", !.list = redis[u],
                                        !.before = Crossing(u)]
      <4>1. thread' = [thread EXCEPT ![t] = r]
        BY <3>2, <1>3 DEF RedisGet
      <4>2. /\ r.pc = "fill" /\ r.uid = u /\ r.list = redis[u]
            /\ r.on = thread[t].on /\ r.off = thread[t].off
        BY <1>t DEF ThreadType
      <4> QED BY <4>1, <4>2
    <3> QED BY <3>1, <3>2
  <2> HIDE DEF u
  <2> QED BY <2>1, <2>2, <2>3, <1>0, QuietAnswers
<1>4. ASSUME NEW t \in Workers, RedisGetFails(t) PROVE Answers'
  <2> DEFINE r == [thread[t] EXCEPT !.pc = "info", !.on = {}]
  <2>1. thread' = [thread EXCEPT ![t] = r] /\ ~Writer(t) /\ UNCHANGED <<redis, playable, on, off, stale>>
    BY <1>4 DEF RedisGetFails, Writer, cache
  <2>2. /\ r.pc = "info" /\ r.uid = thread[t].uid /\ r.list = {}
        /\ r.on = {} /\ r.off = thread[t].off /\ r.uid \in Users
    BY <1>4, <1>t DEF RedisGetFails, Answers, Shape, ThreadType
  <2>3. r.off \subseteq off[r.uid]
    BY <2>2 DEF Answers, Asked
  <2> HIDE DEF r
  <2> QED BY <2>1, <2>2, <2>3, <1>0, QuietAnswers
<1>5. ASSUME NEW t \in Workers, SendList(t) PROVE Answers'
  <2>1. /\ Idle.pc = "idle" /\ Idle.uid \notin Users
    BY SongAssumption DEF Idle
  <2> QED BY <2>1, <1>5, IdleType, QuietAnswers DEF SendList, Writer, cache
<1>i. ASSUME NEW t \in Workers, GetMusicInfo(t) PROVE Answers'
  <2> DEFINE r == [thread[t] EXCEPT !.pc = "send", !.list = @ \cap playable]
  <2>1. thread' = [thread EXCEPT ![t] = r] /\ ~Writer(t) /\ UNCHANGED <<redis, playable, on, off, stale>>
    BY <1>i DEF GetMusicInfo, Writer, cache
  <2>2. /\ r.pc = "send" /\ r.uid = thread[t].uid /\ r.list = thread[t].list \cap playable
        /\ r.on = thread[t].on /\ r.off = thread[t].off /\ r.uid \in Users
    BY <1>i, <1>t DEF GetMusicInfo, Answers, Shape, ThreadType
  <2>3. r.on \subseteq on[r.uid] /\ r.off \subseteq off[r.uid]
    BY <2>2 DEF Answers, Asked
  <2>4. thread[t].pc = "info"
    BY <1>i DEF GetMusicInfo
  <2>5. \A s \in Songs : <<r.uid, s>> \notin stale =>
          /\ s \in r.on /\ s \in playable => s \in r.list
          /\ s \in r.off => s \notin r.list
    BY <2>2, <2>4 DEF Answers, Shown
  <2> HIDE DEF r
  <2> QED BY <2>1, <2>2, <2>3, <2>5, <1>0, QuietAnswers
<1>6. ASSUME NEW t \in Workers, Fill(t) PROVE Answers'
  <2> DEFINE next == [thread[t] EXCEPT !.pc = "info", !.before = {}, !.overtaken = {}]
  <2>1. Reaches(t, {}, next) /\ UNCHANGED <<redis, playable, on, off>> /\ thread[t].pc = "fill"
    BY <1>6 DEF Fill
  <2>2. /\ next.pc = "info" /\ next.uid = thread[t].uid /\ next.list = thread[t].list
        /\ next.on = thread[t].on /\ next.off = thread[t].off
    BY <1>t DEF ThreadType
  <2> HIDE DEF next
  <2>3. thread'[t] = next /\ stale \subseteq stale'
    BY <2>1, ReachesFields
  <2>4. \A w \in Workers \ {t} :
          /\ thread'[w].pc = thread[w].pc /\ thread'[w].uid = thread[w].uid
          /\ thread'[w].song = thread[w].song /\ thread'[w].list = thread[w].list
          /\ thread'[w].on = thread[w].on /\ thread'[w].off = thread[w].off
          /\ thread'[w].alone = thread[w].alone
          /\ thread'[w].overtaken = thread[w].overtaken
    <3> SUFFICES ASSUME NEW w \in Workers \ {t}
                 PROVE  /\ thread'[w].pc = thread[w].pc /\ thread'[w].uid = thread[w].uid
                        /\ thread'[w].song = thread[w].song /\ thread'[w].list = thread[w].list
                        /\ thread'[w].on = thread[w].on /\ thread'[w].off = thread[w].off
                        /\ thread'[w].alone = thread[w].alone
                        /\ thread'[w].overtaken = thread[w].overtaken
      OBVIOUS
    <3>1. /\ thread'[w].pc = thread[w].pc /\ thread'[w].uid = thread[w].uid
          /\ thread'[w].song = thread[w].song /\ thread'[w].list = thread[w].list
          /\ thread'[w].on = thread[w].on /\ thread'[w].off = thread[w].off
          /\ thread'[w].alone = thread[w].alone
      BY <2>1, ReachesFields
    <3>2. thread'[w].overtaken = thread[w].overtaken
      <4>1. CASE w \notin thread[t].before
        BY <4>1, <2>1, ReachesFields
      <4> DEFINE none == {}
      <4>0. Reaches(t, none, next)
        BY <2>1
      <4>e. \A x : x \notin none
        OBVIOUS
      <4> HIDE DEF none
      <4>2. CASE w \in thread[t].before /\ thread[w].pc = "fill"
        <5>1. thread'[w].overtaken = thread[w].overtaken \cup none
          BY <4>2, <4>0, ReachesFields
        <5> QED BY <5>1, <4>e
      <4>3. CASE w \in thread[t].before /\ thread[w].pc # "fill"
        <5>1. thread'[w].overtaken = thread[w].overtaken \cup (none \cap {thread[w].song})
          BY <4>3, <4>0, ReachesFields
        <5> QED BY <5>1, <4>e
      <4> QED BY <4>1, <4>2, <4>3
    <3> QED BY <3>1, <3>2
  <2>5. \A w \in Workers, u \in Users, s \in Songs :
          /\ Writing(w, u, s)' <=> Writing(w, u, s)
          /\ Writing(w, u, s) => w # t
    BY <2>1, <2>2, <2>3, <2>4 DEF Writing
  <2>6. Shape'
    BY <2>1, <2>2, <2>3, <2>4 DEF Answers, Shape, Writer
  <2>7. Alone'
    BY <2>1, <2>4, <2>5 DEF Answers, Alone
  <2>8. Told'
    BY <2>1, <2>5 DEF Answers, Told
  <2>9. Asked'
    BY <2>1, <2>2, <2>3, <2>4 DEF Answers, Asked
  <2>10. Shown'
    BY <2>1, <2>2, <2>3, <2>4 DEF Answers, Shown
  <2> QED BY <2>6, <2>7, <2>8, <2>9, <2>10 DEF Answers
<1>7. ASSUME NEW t \in Workers, NEW u \in Users, NEW s \in Songs,
             SetCollect(t, u, s) \/ DelCollect(t, u, s)
      PROVE  Answers'
  <2>1. PICK pc \in {"set", "del"}, taken \in BOOLEAN :
          /\ Began(t, u, s, pc, taken)
          /\ redis' = IF ~taken THEN redis
                      ELSE IF pc = "set" THEN [redis EXCEPT ![u] = @ \cup {s}]
                      ELSE [redis EXCEPT ![u] = @ \ {s}]
    BY <1>7 DEF SetCollect, DelCollect
  <2>2. thread[t] = Idle /\ playable' = playable
    BY <1>7 DEF SetCollect, DelCollect, cache
  <2> QED BY <2>1, <2>2, BeganAnswers
<1>8. ASSUME NEW t \in Workers, SetMusicPreference(t) \/ DelCollectSong(t) PROVE Answers'
  BY <1>8, WriteAnswers DEF Crossed
<1>9. ASSUME Restart PROVE Answers'
  <2>1. \A w \in Workers : thread'[w].pc = "idle" /\ thread'[w].uid \notin Users
    BY <1>9, SongAssumption DEF Restart, Idle
  <2> QED BY <2>1, <1>9 DEF Restart, Answers, Shape, Alone, Told, Asked, Shown, Writing, Writer
<1>10. CASE UNCHANGED vars
  BY <1>10 DEF vars, cache, Answers, Shape, Alone, Told, Asked, Shown, Writing, Writer
<1> QED BY <1>1, <1>2, <1>3, <1>4, <1>5, <1>i, <1>6, <1>7, <1>8, <1>9, <1>10 DEF Next

-----------------------------------------------------------------------------
(* The theorems *)

IInv == TypeOK /\ Crossed /\ Answers

LEMMA Start == Init => IInv
<1> SUFFICES ASSUME Init PROVE IInv
  OBVIOUS
<1>1. TypeOK
  BY TypeInit
<1>2. \A w \in Workers : /\ thread[w].pc = "idle" /\ thread[w].before = {}
                         /\ thread[w].uid \notin Users
  BY SongAssumption DEF Init, Idle
<1>3. Crossed
  BY <1>2 DEF Init, Crossed, Order, Passed, Latest, Copy, Read, Writing, Writer, Crosses
<1>4. Told
  BY <1>2 DEF Init, Told, Writing
<1>5. Shape /\ Alone /\ Asked /\ Shown
  BY <1>2 DEF Shape, Alone, Asked, Shown, Writing, Writer
<1> QED BY <1>1, <1>3, <1>4, <1>5 DEF IInv, Answers

LEMMA Step == IInv /\ [Next]_vars => IInv'
<1> SUFFICES ASSUME IInv, [Next]_vars PROVE IInv'
  OBVIOUS
<1>1. TypeOK'
  BY TypeStep DEF IInv, Answers
<1>2. Crossed'
  BY <1>1, CrossedStep DEF IInv, Answers
<1>3. Answers'
  BY <1>1, AnswersStep DEF IInv
<1> QED BY <1>1, <1>2, <1>3 DEF IInv

\* The inductive invariant of the requests between Redis and collect_map_.
THEOREM Invariance == Spec => []IInv
BY Start, Step, PTL DEF Spec

\* The types of what GetMusicListT, SetMusicPreference and DelCollectSong hold.
THEOREM TypeCorrect == Spec => []TypeOK
<1>1. IInv => TypeOK
  BY DEF IInv
<1> QED BY <1>1, Invariance, PTL

\* The copy of a user's songs in collect_map_ is what Redis has, but for songs
\* for which two requests passed one another or Redis did not take a write.
THEOREM CopyIsRight == Spec => []CacheIsStore
<1>1. IInv => CacheIsStore
  BY DEF IInv, Crossed, Copy, CacheIsStore, TypeOK
<1> QED BY <1>1, Invariance, PTL

\* What OnSetCollection and OnDelCollection answered holds in the lists that
\* OnCollectList sends later, with the same exceptions and but for the songs
\* whose MusicInfo::Release is NULL.
THEOREM AnswersAreKept == Spec => []AnswersHold
<1>1. IInv => AnswersHold
  BY DEF IInv, Answers, Shown, AnswersHold
<1> QED BY <1>1, Invariance, PTL
=============================================================================
