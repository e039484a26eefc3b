----------------------------- MODULE RobotLayout -----------------------------
(***************************************************************************)
(* The packets of the robot server (robot/base/protocol.cc, comm_head.h),  *)
(* as ChatLayout has those of the chat server. The positions of users and  *)
(* robots are doubles that PackStream converts to whole numbers.           *)
(***************************************************************************)
EXTENDS PacketLayout

MODE_LEN    == 32
NAME_LEN    == 128
SINGER_LEN  == 128
MESSAGE_LEN == 512

-----------------------------------------------------------------------------
(* PackStream *)

\* Users, their songs, schedulers and robots that log in.
LoginWritten ==
    [NOTICE_USER_LOGIN |-> Int64s(<<"platform_id", "uid">>)
        \o Int32s(<<"latitude", "longitude">>),
     NOTICE_USER_DEFAULT_SONG |-> Int64s(<<"platform_id", "uid", "songid">>)
        \o Int32s(<<"type_id">>),
     NOTICE_USER_CURRENT_SONG |-> Int64s(<<"platform_id", "uid", "songid">>)
        \o Int32s(<<"type_id">>),
     NOTICE_USER_ROBOT_LOGIN |-> Int64s(<<"uid">>),
     SCHEDULER_LOGIN |-> Int64s(<<"platform_id">>),
     ROBOT_LOGIN |-> Int64s(<<"platform_id", "uid", "robot_id">>)]

\* Songs and gifts, assistants and the heartbeat.
SongWritten ==
    [NOTICE_USER_ROBOT_HANDSEL_SONG |->
        Int64s(<<"platform_id", "uid", "robot_id", "song_id">>),
     NOTICE_USER_ROBOT_LISTEN_SONG |-> Int64s(<<"platform_id", "songid">>)
        \o Int32s(<<"typid">>) \o Data("mode", MODE_LEN) \o Data("name", NAME_LEN)
        \o Data("singer", SINGER_LEN),
     NOTICE_ASSISTANT_LOGIN |-> Int64s(<<"platform_id", "assistant_id">>)
        \o Data("nickname", NICKNAME_LEN),
     ASSISTANT_LOGIN_SUCCESS |-> Int64s(<<"platform_id", "assistant_id">>),
     NOTICE_USER_ROBOT_CHAT_LOGIN |-> Int64s(<<"platform_id", "uid", "robot_id">>),
     NOTICE_USER_ROBOT_SCHEDULER_CHAT_LOGIN |-> Int64s(<<"platform_id", "uid", "robot_id">>),
     NOTICE_USER_ROBOT_GIFT_LUCK |-> Int64s(<<"platform_id", "uid">>)
        \o Int32s(<<"share_plat", "prize">>) \o Data("name", NAME_LEN)
        \o Data("singer", SINGER_LEN),
     NOTICE_USER_READY_GIFT_LUCK |-> Int64s(<<"platform_id", "uid", "songid">>)
        \o Int32s(<<"share_plat">>),
     NOTICE_ASSISTANT_HANDSEL_SONG |-> Int64s(<<"platform_id", "assistant_id">>),
     HEART_PACKET |-> <<>>]

Written == Either(LoginWritten, SongWritten)

Text ==
    [NOTICE_USER_DEFAULT_SONG |-> "mode", NOTICE_USER_CURRENT_SONG |-> "mode",
     SCHEDULER_LOGIN |-> "machine_id"]

EntryWritten ==
    [NOTICE_USER_ROBOT_LOGIN |-> Int64s(<<"uid", "latitude", "longitude">>)
        \o Data("nickname", NICKNAME_LEN),
     NOTICE_ASSISTANT_HANDSEL_SONG |-> Int64s(<<"uid", "songid">>)
        \o Data("message", MESSAGE_LEN)]

\* Fault: the member songid, which is not sent, is not counted.
ROBOTINFO_SIZE_FAULT == 8 + 2 * 4 + NICKNAME_LEN

ROBOTINFO_SIZE  == 2 * 8 + 2 * 4 + NICKNAME_LEN
HANDLESONG_SIZE == 2 * 8 + MESSAGE_LEN

\* The position of a user that logs in counts as two doubles.
Size ==
    [NOTICE_USER_LOGIN |-> 2 * 8 + 2 * 8,
     NOTICE_USER_DEFAULT_SONG |-> 3 * 8 + 4,
     NOTICE_USER_CURRENT_SONG |-> 3 * 8 + 4,
     NOTICE_USER_ROBOT_LOGIN |-> 8,
     ROBOT_LOGIN |-> 3 * 8,
     NOTICE_USER_ROBOT_HANDSEL_SONG |-> 4 * 8,
     SCHEDULER_LOGIN |-> 8,
     NOTICE_USER_ROBOT_LISTEN_SONG |-> 2 * 8 + 4 + MODE_LEN + NAME_LEN + SINGER_LEN,
     NOTICE_ASSISTANT_LOGIN |-> 2 * 8 + NICKNAME_LEN,
     ASSISTANT_LOGIN_SUCCESS |-> 2 * 8,
     NOTICE_ASSISTANT_HANDSEL_SONG |-> 2 * 8,
     NOTICE_USER_ROBOT_CHAT_LOGIN |-> 3 * 8,
     NOTICE_USER_ROBOT_SCHEDULER_CHAT_LOGIN |-> 3 * 8,
     NOTICE_USER_ROBOT_GIFT_LUCK |-> 2 * 8 + 2 * 4 + NAME_LEN + SINGER_LEN,
     NOTICE_USER_READY_GIFT_LUCK |-> 3 * 8 + 4,
     HEART_PACKET |-> 0]

EntrySize ==
    [NOTICE_USER_ROBOT_LOGIN |-> ROBOTINFO_SIZE,
     NOTICE_ASSISTANT_HANDSEL_SONG |-> HANDLESONG_SIZE]

-----------------------------------------------------------------------------
(* UnpackStream *)

LoginRead ==
    [NOTICE_USER_LOGIN |-> Int64s(<<"platform_id", "uid">>)
        \o Int32s(<<"latitude", "longitude">>),
     NOTICE_USER_DEFAULT_SONG |-> Int64s(<<"platform_id", "uid", "songid">>)
        \o Int32s(<<"type_id">>),
     NOTICE_USER_CURRENT_SONG |-> Int64s(<<"platform_id", "uid", "songid">>)
        \o Int32s(<<"type_id">>),
     NOTICE_USER_ROBOT_LOGIN |-> Int64s(<<"uid">>),
     SCHEDULER_LOGIN |-> Int64s(<<"platform_id">>),
     ROBOT_LOGIN |-> Int64s(<<"platform_id", "uid", "robot_id">>)]

\* The song that is given is read into robot_id.
SongRead ==
    [NOTICE_USER_ROBOT_HANDSEL_SONG |->
        Int64s(<<"platform_id", "uid", "robot_id", "robot_id">>),
     NOTICE_USER_ROBOT_LISTEN_SONG |-> Int64s(<<"platform_id", "songid">>)
        \o Int32s(<<"typid">>) \o Data("mode", MODE_LEN) \o Data("name", NAME_LEN)
        \o Data("singer", SINGER_LEN),
     NOTICE_ASSISTANT_LOGIN |-> Int64s(<<"platform_id", "assistant_id">>)
        \o Data("nickname", NICKNAME_LEN),
     ASSISTANT_LOGIN_SUCCESS |-> Int64s(<<"platform_id", "assistant_id">>),
     NOTICE_USER_ROBOT_CHAT_LOGIN |-> Int64s(<<"platform_id", "uid", "robot_id">>),
     NOTICE_USER_ROBOT_SCHEDULER_CHAT_LOGIN |-> Int64s(<<"platform_id", "uid", "robot_id">>),
     NOTICE_USER_ROBOT_GIFT_LUCK |-> Int64s(<<"platform_id", "uid">>)
        \o Int32s(<<"share_plat", "prize">>) \o Data("name", NAME_LEN)
        \o Data("singer", SINGER_LEN),
     NOTICE_USER_READY_GIFT_LUCK |-> Int64s(<<"platform_id", "uid", "songid">>)
        \o Int32s(<<"share_plat">>),
     NOTICE_ASSISTANT_HANDSEL_SONG |-> Int64s(<<"platform_id", "assistant_id">>),
     HEART_PACKET |-> <<>>]

ReadFields == Either(LoginRead, SongRead)

EntryRead ==
    [NOTICE_USER_ROBOT_LOGIN |-> Int64s(<<"uid">>) \o Int32s(<<"latitude", "longitude">>)
        \o Data("nickname", NICKNAME_LEN),
     NOTICE_ASSISTANT_HANDSEL_SONG |-> Int64s(<<"uid">>) \o Int8s(<<"songid">>)
        \o Data("message", MESSAGE_LEN)]

TextTakes ==
    [NOTICE_USER_DEFAULT_SONG |-> 3 * 8 + 4, NOTICE_USER_CURRENT_SONG |-> 3 * 8 + 4,
     SCHEDULER_LOGIN |-> 8]

ListTakes == [NOTICE_USER_ROBOT_LOGIN |-> 8, NOTICE_ASSISTANT_HANDSEL_SONG |-> 2 * 8]
=============================================================================
