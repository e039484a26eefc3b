----------------------------- MODULE ChatLayout -----------------------------
(***************************************************************************)
(* The packets of the chat server (chat/base/protocol.cc, comm_head.h): by *)
(* operate code the fields that are written, the data_length that goes     *)
(* into the head, and the fields that are read. A text is the last member, *)
(* and as long as data_length leaves; a list is as long as it leaves, too. *)
(***************************************************************************)
EXTENDS PacketLayout

HEAD_URL_LEN == 256

-----------------------------------------------------------------------------
(* PackStream *)

\* Sign-in, sign-out and the question for a user or group.
SignInWritten ==
    [USER_LOGIN |-> Int64s(<<"platform_id", "user_id">>)
                    \o Int8s(<<"net_type", "user_type", "device">>) \o Data("token", TOKEN_LEN),
     USER_LOGIN_SUCESS |-> Int64s(<<"platform_id", "user_id", "nick_number">>)
                    \o Data("token", TOKEN_LEN) \o Data("nickname", NICKNAME_LEN)
                    \o Data("head_url", HEAD_URL_LEN),
     USER_LOGIN_FAILED |-> Int64s(<<"platform_id">>),
     USER_QUIT |-> Int64s(<<"platform_id", "user_id", "session">>) \o Data("token", TOKEN_LEN),
     USER_NOTIFICATION_QUIT |-> Int64s(<<"platform_id", "user_id">>),
     REQ_OPPOSITION_INFO |-> Int64s(<<"platform_id", "user_id", "oppostion_id">>)
                    \o Int16s(<<"type">>) \o Data("token", TOKEN_LEN)]

\* Private messages and their confirmations.
PrivateWritten ==
    [TEXT_CHAT_PRIVATE_SEND |->
        Int64s(<<"platform_id", "send_user_id", "recv_user_id", "session">>)
        \o Data("token", TOKEN_LEN),
     TEXT_CHAT_PRIVATE_RECV |-> Int64s(<<"platform_id", "send_user_id", "recv_user_id">>),
     PACKET_CONFIRM |->
        Int64s(<<"platform_id", "send_user_id", "recv_user_id", "session_id", "private_msg_id">>)
        \o Data("token", TOKEN_LEN)]

\* What is known of a user or group, members who come, and group messages.
GroupWritten ==
    [GET_OPPOSITION_INFO |->
        Int64s(<<"platform_id", "oppo_id", "oppo_nick_number", "session">>)
        \o Int16s(<<"oppo_type">>) \o Data("oppo_nickname", NICKNAME_LEN)
        \o Data("oppo_user_head", HEAD_URL_LEN),
     USER_ONLINE_REQ |-> Int64s(<<"platform_id", "group_id", "user_id">>)
        \o Data("token", TOKEN_LEN),
     USER_ONLINE_RSP |-> Int64s(<<"platform_id", "group_id", "user_id", "user_nicknumber">>)
        \o Data("nickname", NICKNAME_LEN) \o Data("user_head", HEAD_URL_LEN),
     MULTI_CHAT_SEND |-> Int64s(<<"platform_id", "multi_id", "send_user_id", "session">>)
        \o Data("token", TOKEN_LEN),
     MULTI_CHAT_RECV |-> Int64s(<<"platform_id", "multi_id", "send_user_id">>)
        \o Data("send_nickname", NICKNAME_LEN),
     MULTI_SOUND_SEND |-> Int64s(<<"platform_id", "multi_id">>) \o Int16s(<<"multi_type">>)
        \o Int64s(<<"send_user_id", "session">>) \o Data("token", TOKEN_LEN),
     MULTI_SOUND_RECV |-> Int64s(<<"platform_id", "multi_id", "send_user_id">>)]

Written == Either(SignInWritten, Either(PrivateWritten, GroupWritten))

\* The text behind these members, where there is one.
Text ==
    [USER_LOGIN_FAILED |-> "error_msg",
     TEXT_CHAT_PRIVATE_SEND |-> "content", TEXT_CHAT_PRIVATE_RECV |-> "content",
     MULTI_CHAT_SEND |-> "content", MULTI_CHAT_RECV |-> "content",
     MULTI_SOUND_SEND |-> "sound_path", MULTI_SOUND_RECV |-> "sound_path"]

\* The fields of an entry of the list behind them, where there is one.
EntryWritten ==
    [GET_OPPOSITION_INFO |-> Int64s(<<"user_id", "user_nicknumber">>)
        \o Data("nickname", NICKNAME_LEN) \o Data("user_head", HEAD_URL_LEN)]

OPPSITIONINFO_SIZE == 2 * 8 + NICKNAME_LEN + HEAD_URL_LEN

\* data_length without the text and the list, by the macros of comm_head.h.
Size ==
    [PACKET_CONFIRM |-> 5 * 8 + TOKEN_LEN,
     USER_LOGIN |-> 2 * 8 + 3 * 1 + TOKEN_LEN,
     USER_LOGIN_SUCESS |-> 3 * 8 + TOKEN_LEN + NICKNAME_LEN + HEAD_URL_LEN,
     USER_LOGIN_FAILED |-> 8,
     USER_QUIT |-> 3 * 8 + TOKEN_LEN,
     USER_NOTIFICATION_QUIT |-> 2 * 8,
     REQ_OPPOSITION_INFO |-> 3 * 8 + 2 + TOKEN_LEN,
     GET_OPPOSITION_INFO |-> 4 * 8 + 2 + NICKNAME_LEN + HEAD_URL_LEN,
     TEXT_CHAT_PRIVATE_SEND |-> 4 * 8 + TOKEN_LEN,
     TEXT_CHAT_PRIVATE_RECV |-> 3 * 8,
     USER_ONLINE_REQ |-> 3 * 8 + TOKEN_LEN,
     USER_ONLINE_RSP |-> 4 * 8 + NICKNAME_LEN + HEAD_URL_LEN,
     MULTI_SOUND_SEND |-> 4 * 8 + 2 + TOKEN_LEN,
     MULTI_SOUND_RECV |-> 3 * 8,
     MULTI_CHAT_SEND |-> 4 * 8 + TOKEN_LEN,
     MULTI_CHAT_RECV |-> 3 * 8 + NICKNAME_LEN]

EntrySize == [GET_OPPOSITION_INFO |-> OPPSITIONINFO_SIZE]

-----------------------------------------------------------------------------
(* UnpackStream *)

SignInRead ==
    [USER_LOGIN |-> Int64s(<<"platform_id", "user_id">>)
                    \o Int8s(<<"net_type", "user_type", "device">>) \o Data("token", TOKEN_LEN),
     USER_LOGIN_SUCESS |-> Int64s(<<"platform_id", "user_id", "nick_number">>)
                    \o Data("token", TOKEN_LEN) \o Data("nickname", NICKNAME_LEN)
                    \o Data("head_url", HEAD_URL_LEN),
     USER_LOGIN_FAILED |-> Int64s(<<"platform_id">>),
     USER_QUIT |-> Int64s(<<"platform_id", "user_id", "session">>) \o Data("token", TOKEN_LEN),
     USER_NOTIFICATION_QUIT |-> Int64s(<<"platform_id", "user_id">>),
     REQ_OPPOSITION_INFO |-> Int64s(<<"platform_id", "user_id", "oppostion_id">>)
                    \o Int16s(<<"type">>) \o Data("token", TOKEN_LEN)]

PrivateRead ==
    [USER_ONLINE_REQ |-> Int64s(<<"platform_id", "group_id", "user_id">>)
        \o Data("token", TOKEN_LEN),
     USER_ONLINE_RSP |-> Int64s(<<"platform_id", "group_id", "user_id", "user_nicknumber">>)
        \o Data("nickname", NICKNAME_LEN) \o Data("user_head", HEAD_URL_LEN),
     TEXT_CHAT_PRIVATE_RECV |-> Int64s(<<"platform_id", "send_user_id", "recv_user_id">>),
     TEXT_CHAT_PRIVATE_SEND |->
        Int64s(<<"platform_id", "send_user_id", "recv_user_id", "session">>)
        \o Data("token", TOKEN_LEN),
     PACKET_CONFIRM |->
        Int64s(<<"platform_id", "send_user_id", "recv_user_id", "session_id", "private_msg_id">>)
        \o Data("token", TOKEN_LEN)]

GroupRead ==
    [GET_OPPOSITION_INFO |->
        Int64s(<<"platform_id", "oppo_id", "oppo_nick_number", "session">>)
        \o Int16s(<<"oppo_type">>) \o Data("oppo_nickname", NICKNAME_LEN)
        \o Data("oppo_user_head", HEAD_URL_LEN),
     MULTI_CHAT_SEND |-> Int64s(<<"platform_id", "multi_id", "send_user_id", "session">>)
        \o Data("token", TOKEN_LEN),
     MULTI_CHAT_RECV |-> Int64s(<<"platform_id", "multi_id", "send_user_id">>)
        \o Data("send_nickname", NICKNAME_LEN),
     MULTI_SOUND_SEND |-> Int64s(<<"platform_id", "multi_id">>) \o Int16s(<<"multi_type">>)
        \o Int64s(<<"send_user_id", "session">>) \o Data("token", TOKEN_LEN),
     MULTI_SOUND_RECV |-> Int64s(<<"platform_id", "multi_id", "send_user_id">>)]

ReadFields == Either(SignInRead, Either(PrivateRead, GroupRead))

EntryRead ==
    [GET_OPPOSITION_INFO |-> Int64s(<<"user_id", "user_nicknumber">>)
        \o Data("nickname", NICKNAME_LEN) \o Data("user_head", HEAD_URL_LEN)]

\* Fault: the nickname of the sender is not taken off.
TextTakesFault ==
    [USER_LOGIN_FAILED |-> 0,
     TEXT_CHAT_PRIVATE_RECV |-> 2 * 8,
     TEXT_CHAT_PRIVATE_SEND |-> 4 * 8 + TOKEN_LEN,
     MULTI_CHAT_SEND |-> 4 * 8 + TOKEN_LEN,
     MULTI_CHAT_RECV |-> 3 * 8,
     MULTI_SOUND_SEND |-> 4 * 8 + 2 + TOKEN_LEN,
     MULTI_SOUND_RECV |-> 3 * 8]

\* What is taken off data_length for the length of the text.
TextTakes ==
    [USER_LOGIN_FAILED |-> 0,
     TEXT_CHAT_PRIVATE_RECV |-> 2 * 8,
     TEXT_CHAT_PRIVATE_SEND |-> 4 * 8 + TOKEN_LEN,
     MULTI_CHAT_SEND |-> 4 * 8 + TOKEN_LEN,
     MULTI_CHAT_RECV |-> 3 * 8 + NICKNAME_LEN,
     MULTI_SOUND_SEND |-> 4 * 8 + 2 + TOKEN_LEN,
     MULTI_SOUND_RECV |-> 3 * 8]

\* What is taken off data_length for the length of the list: not what was
\* written before it, but what is too much is less than an entry.
ListTakes == [GET_OPPOSITION_INFO |-> 3 * 8 + NICKNAME_LEN + TOKEN_LEN]
=============================================================================
