------------------------------ MODULE SongCache ------------------------------
(***************************************************************************)
(* Collected songs in the music service (svc/musicsvc: music_logic.cc,     *)
(* whole_manager.cc, music_dic_comm.cc). A user's songs are a hash in      *)
(* Redis; collect_map_ holds a copy of it once it has been read. A write   *)
(* goes to Redis and then, under the lock, to the copy if there is one; a  *)
(* read that misses goes to Redis and then, under the lock, replaces the   *)
(* copy. Nothing ties the two halves together: workers handle requests of  *)
(* one user side by side.                                                  *)
(*                                                                         *)
(* A song is its id; of what is known of it (music_info_map_, filled when  *)
(* the service starts) only whether it has the two urls without which it   *)
(* is left out of a list. like_ is left out. Those who show the songs of   *)
(* others read the list the same way (CheckIsCollectSong). The older       *)
(* servers that write the same hashes are left out.                        *)
(***************************************************************************)
EXTENDS FiniteSets

CONSTANTS Users, Songs, Workers, Nobody, NoSong

ASSUME SongAssumption == Nobody \notin Users /\ NoSong \notin Songs

VARIABLES
    redis,        \* the hash of each user
    playable,     \* songs that music_info_map_ has with url and hq_url
    cached,       \* users with an entry in collect_map_
    collect_map,  \* the songs of the entries
    thread,       \* what each worker is doing
    on, off,      \* history: songs a user was last told are collected, or are
                  \* not, no request to change that having come since
    stale         \* history: songs of users for which two requests passed one
                  \* another, or Redis did not take a write

cache == <<playable, cached, collect_map>>
vars  == <<redis, cache, thread, on, off, stale>>

\* before: the user's requests that were in Redis earlier and have yet to reach
\* collect_map_. overtaken: songs that a later one wrote there first. alone: no
\* other write of the song was under way, and Redis took this one.
Idle == [pc |-> "idle", uid |-> Nobody, song |-> NoSong, list |-> {}, on |-> {}, off |-> {},
         before |-> {}, overtaken |-> {}, alone |-> FALSE]

Writing(t, uid, s) ==
    thread[t].pc \in {"set", "del"} /\ thread[t].uid = uid /\ thread[t].song = s

\* Requests that have been in Redis and not yet in collect_map_.
Crossing(uid) == {t \in Workers : thread[t].pc \in {"fill", "set", "del"} /\ thread[t].uid = uid}

\* Request t reaches collect_map_, and goes on as next.
Reaches(t, written, next) ==
    /\ thread' = [w \in Workers |->
          IF w = t THEN next
          ELSE [thread[w] EXCEPT
                  !.before = @ \ {t},
                  !.overtaken = IF w \in thread[t].before
                                THEN @ \cup (IF thread[w].pc = "fill" THEN written
                                             ELSE written \cap {thread[w].song})
                                ELSE @]]
    /\ stale' = stale \cup ({thread[t].uid} \X thread[t].overtaken)

-----------------------------------------------------------------------------
(* Reading: OnCollectList *)

CollectList(t, uid) ==
    /\ thread[t] = Idle
    /\ thread' = [thread EXCEPT ![t] =
          [Idle EXCEPT !.pc = "lookup", !.uid = uid, !.on = on[uid], !.off = off[uid]]]
    /\ UNCHANGED <<redis, cache, on, off, stale>>

\* GetMusicListT: an entry without songs counts for none.
Lookup(t) ==
    LET uid == thread[t].uid
    IN  /\ thread[t].pc = "lookup"
        /\ thread' = IF uid \in cached /\ collect_map[uid] # {}
                     THEN [thread EXCEPT ![t].pc = "info", ![t].list = collect_map[uid]]
                     ELSE [thread EXCEPT ![t].pc = "redis_get"]
        /\ UNCHANGED <<redis, cache, on, off, stale>>

\* Nothing is entered for an empty hash.
RedisGet(t) ==
    LET uid == thread[t].uid
    IN  /\ thread[t].pc = "redis_get"
        /\ thread' = IF redis[uid] = {} THEN [thread EXCEPT ![t].pc = "info"]
                     ELSE [thread EXCEPT ![t].pc = "fill", ![t].list = redis[uid],
                                         ![t].before = Crossing(uid)]
        /\ UNCHANGED <<redis, cache, on, off, stale>>

\* Redis does not answer, which is taken for an empty hash.
RedisGetFails(t) ==
    /\ thread[t].pc = "redis_get"
    /\ thread' = [thread EXCEPT ![t].pc = "info", ![t].on = {}]
    /\ UNCHANGED <<redis, cache, on, off, stale>>

\* The entry is replaced by what was read.
Fill(t) ==
    LET uid == thread[t].uid
    IN  /\ thread[t].pc = "fill"
        /\ cached' = cached \cup {uid}
        /\ collect_map' = [collect_map EXCEPT ![uid] = thread[t].list]
        /\ Reaches(t, {}, [thread[t] EXCEPT !.pc = "info", !.before = {}, !.overtaken = {}])
        /\ UNCHANGED <<redis, playable, on, off>>

\* What is known of the songs is looked up. One without url or hq_url is
\* released as NULL and not sent, whatever the user was told of it.
GetMusicInfo(t) ==
    /\ thread[t].pc = "info"
    /\ thread' = [thread EXCEPT ![t].pc = "send", ![t].list = @ \cap playable]
    /\ UNCHANGED <<redis, cache, on, off, stale>>

SendList(t) ==
    /\ thread[t].pc = "send"
    /\ thread' = [thread EXCEPT ![t] = Idle]
    /\ UNCHANGED <<redis, cache, on, off, stale>>

-----------------------------------------------------------------------------
(* Writing: OnSetCollection and OnDelCollection *)

\* A request has been in Redis. Until it is answered nobody has been told how
\* the song stands; requests that overlap leave that open.
Began(t, uid, s, pc, taken) ==
    /\ on'  = [on  EXCEPT ![uid] = @ \ {s}]
    /\ off' = [off EXCEPT ![uid] = @ \ {s}]
    /\ stale' = IF taken THEN stale ELSE stale \cup {<<uid, s>>}
    /\ thread' = [w \in Workers |->
          IF w = t THEN [Idle EXCEPT !.pc = pc, !.uid = uid, !.song = s, !.before = Crossing(uid),
                            !.alone = taken /\ \A v \in Workers : ~Writing(v, uid, s)]
          ELSE IF thread[w].uid # uid THEN thread[w]
          ELSE [thread[w] EXCEPT !.on = @ \ {s}, !.off = @ \ {s},
                                 !.alone = @ /\ thread[w].song # s]]

\* MusicDicComm::SetCollect and DelCollect. Whether Redis took it is not asked.
SetCollect(t, uid, s) ==
    /\ thread[t] = Idle
    /\ \/ redis' = [redis EXCEPT ![uid] = @ \cup {s}] /\ Began(t, uid, s, "set", TRUE)
       \/ UNCHANGED redis /\ Began(t, uid, s, "set", FALSE)
    /\ UNCHANGED cache

DelCollect(t, uid, s) ==
    /\ thread[t] = Idle
    /\ \/ redis' = [redis EXCEPT ![uid] = @ \ {s}] /\ Began(t, uid, s, "del", TRUE)
       \/ UNCHANGED redis /\ Began(t, uid, s, "del", FALSE)
    /\ UNCHANGED cache

\* Fault: an entry is made for a user who has none.
SetMusicPreferenceFault(t) ==
    LET uid == thread[t].uid
        s   == thread[t].song
    IN  /\ thread[t].pc = "set"
        /\ cached' = cached \cup {uid}
        /\ collect_map' = [collect_map EXCEPT ![uid] = @ \cup {s}]
        /\ on' = IF thread[t].alone THEN [on EXCEPT ![uid] = @ \cup {s}] ELSE on
        /\ Reaches(t, {s}, Idle)
        /\ UNCHANGED <<redis, playable, off>>

\* SetMusicPreference under the lock, and the answer: a user without an entry
\* gets none.
SetMusicPreference(t) ==
    LET uid == thread[t].uid
        s   == thread[t].song
    IN  /\ thread[t].pc = "set"
        /\ collect_map' = IF uid \in cached THEN [collect_map EXCEPT ![uid] = @ \cup {s}]
                          ELSE collect_map
        /\ on' = IF thread[t].alone THEN [on EXCEPT ![uid] = @ \cup {s}] ELSE on
        /\ Reaches(t, {s}, Idle)
        /\ UNCHANGED <<redis, playable, cached, off>>

\* Fault: the song is erased from a copy of the list, which is not stored.
DelCollectSongFault(t) ==
    LET uid == thread[t].uid
        s   == thread[t].song
    IN  /\ thread[t].pc = "del"
        /\ off' = IF thread[t].alone THEN [off EXCEPT ![uid] = @ \cup {s}] ELSE off
        /\ Reaches(t, {s}, Idle)
        /\ UNCHANGED <<redis, cache, on>>

\* DelCollectSong under the lock, and the answer.
DelCollectSong(t) ==
    LET uid == thread[t].uid
        s   == thread[t].song
    IN  /\ thread[t].pc = "del"
        /\ collect_map' = IF uid \in cached THEN [collect_map EXCEPT ![uid] = @ \ {s}]
                          ELSE collect_map
        /\ off' = IF thread[t].alone THEN [off EXCEPT ![uid] = @ \cup {s}] ELSE off
        /\ Reaches(t, {s}, Idle)
        /\ UNCHANGED <<redis, playable, cached, on>>

\* The service stops where it is and is started anew: the copies go, Redis
\* stays, and music_info_map_ is read again, if the database answers.
Restart ==
    /\ playable' \in SUBSET Songs
    /\ cached' = {}
    /\ collect_map' = [u \in Users |-> {}]
    /\ thread' = [t \in Workers |-> Idle]
    /\ stale' = {}
    /\ UNCHANGED <<redis, on, off>>

-----------------------------------------------------------------------------

Init ==
    /\ playable \in SUBSET Songs
    /\ redis \in [Users -> SUBSET Songs]
    /\ cached = {}
    /\ collect_map = [u \in Users |-> {}]
    /\ thread = [t \in Workers |-> Idle]
    /\ on = redis /\ off = [u \in Users |-> Songs \ redis[u]]
    /\ stale = {}

Next ==
    \/ \E t \in Workers :
        \/ \E u \in Users :
             \/ CollectList(t, u)
             \/ \E s \in Songs : SetCollect(t, u, s) \/ DelCollect(t, u, s)
        \/ Lookup(t) \/ RedisGet(t) \/ RedisGetFails(t) \/ Fill(t)
        \/ GetMusicInfo(t) \/ SendList(t)
        \/ SetMusicPreference(t) \/ DelCollectSong(t)
    \/ Restart

Spec == Init /\ [][Next]_vars

-----------------------------------------------------------------------------
(* Properties *)

TypeOK ==
    /\ redis \in [Users -> SUBSET Songs]
    /\ playable \subseteq Songs /\ cached \subseteq Users
    /\ collect_map \in [Users -> SUBSET Songs]
    /\ thread \in [Workers ->
          [pc : {"idle", "lookup", "redis_get", "fill", "info", "send", "set", "del"},
           uid : Users \cup {Nobody}, song : Songs \cup {NoSong}, list : SUBSET Songs,
           on : SUBSET Songs, off : SUBSET Songs, before : SUBSET Workers,
           overtaken : SUBSET Songs, alone : BOOLEAN]]
    /\ on \in [Users -> SUBSET Songs] /\ off \in [Users -> SUBSET Songs]
    /\ stale \subseteq Users \X Songs

\* When no write of a song is between its two halves, the copy of the user's
\* list in collect_map_ agrees with Redis on the song, unless two requests for
\* it passed one another (the one that was first in Redis was last in the map)
\* or a write to Redis failed. Nothing else leaves a stale copy, which would
\* stay for as long as the service runs: not a write that finds no entry while
\* a read is on its way, nor the deletion of the last song, nor a restart
\* between the halves (GetMusicListT, SetMusicPreference, DelCollectSong).
CacheIsStore ==
    \A u \in cached, s \in Songs :
        <<u, s>> \notin stale /\ (\A t \in Workers : ~Writing(t, u, s))
            => (s \in collect_map[u] <=> s \in redis[u])

\* A list that is sent shows every song that the user was told is collected
\* before asking for it, unless the song has no urls, and none that the user was
\* told is deleted, with the same exceptions, whether it comes from the map or
\* from Redis, and also when the service was restarted in between
\* (OnSetCollection and OnDelCollection answer 1, then OnCollectList).
AnswersHold ==
    \A t \in Workers : thread[t].pc = "send" =>
        \A s \in Songs : <<thread[t].uid, s>> \notin stale =>
            /\ s \in thread[t].on /\ s \in playable => s \in thread[t].list
            /\ s \in thread[t].off => s \notin thread[t].list
=============================================================================
