------------------------------- MODULE MCLiveView -------------------------------
(***************************************************************************)
(* A bus of three frames and four states of a project's presets for the     *)
(* Live view: none, one that concerns messages only, and two that mix       *)
(* fields of frames and of messages, patterns, both ways to combine, and    *)
(* presets that exclude, highlight, are disabled, are not valid or are not  *)
(* meant for Live.                                                          *)
(***************************************************************************)
EXTENDS LiveView

Frame(id, extended, time, channel, remote, data) ==
    [can_id |-> id, frame_format |-> 1 - extended, dlc |-> Len(data), relative_time_us |-> time,
     channel |-> channel, rtr |-> remote, error_frame |-> 0, payload |-> data]

MCBus == << Frame(288, 0, 0, 0, 0, <<98, 241>>),
            Frame(417001728, 1, 1000, 1, 1, <<>>),
            Frame(289, 0, 2000, 0, 0, <<16, 98, 241>>) >>

Is(field, operator, values) ==
    [type |-> "condition", field |-> field, operator |-> operator, values |-> values, children |-> <<>>]
Group(operator, children) ==
    [type |-> "group", field |-> "", operator |-> operator, values |-> <<>>, children |-> children]

Filter(mode, root) == [mode |-> mode, root |-> root, enabled |-> TRUE, scope |-> {"live", "stored_session"}]

(* Fields of messages only.                                                 *)
Message == <<Group("and", <<2, 3>>), Is("pgn", "eq", <<65226>>), Is("sid", "ge", <<16>>)>>
(* A pattern of identifiers that covers the first and the third frame.      *)
Identifier == <<Group("or", <<2, 3>>), Is("pgn", "eq", <<1>>),
                Is("can_id", "can_id_pattern", <<288, 536870910>>)>>
NotRemote == <<Group("not", <<2>>), Group("or", <<3, 4>>), Is("rtr", "eq", <<1>>), Is("dlc", "gt", <<8>>)>>
(* 62 F? anywhere, after the first millisecond, or a response that refuses. *)
Late == <<Group("or", <<2, 3>>), Is("sid", "eq", <<127>>), Group("and", <<4, 5>>),
          Is("payload", "payload_contains", <<98, 255, 240, 240>>),
          Is("relative_time_us", "outside", <<0, 1000>>)>>
Channel == <<Is("channel", "in", <<1, 2>>)>>
(* Short frames do not match, others it cannot judge.                       *)
LongMessage == <<Group("and", <<2, 3>>), Is("dlc", "ge", <<3>>), Is("sid", "eq", <<34>>)>>
Empty == <<Group("and", <<>>)>>
Prefix == <<Is("payload", "payload_prefix", <<98, 255>>)>>

MCProjects ==
    [none |-> [presets |-> <<[Filter("include", Channel) EXCEPT !.enabled = FALSE]>>, combination |-> "and"],
     messages |-> [presets |-> <<Filter("include", Message), Filter("exclude", Message),
                                 Filter("highlight", Prefix)>>, combination |-> "and"],
     all |-> [presets |-> <<Filter("include", Identifier), Filter("exclude", Late),
                            Filter("include", NotRemote)>>, combination |-> "and"],
     either |-> [presets |-> <<Filter("include", Empty), Filter("include", LongMessage),
                               Filter("highlight", Prefix), Filter("include", Channel),
                               [Filter("exclude", Prefix) EXCEPT !.scope = {"stored_session"}]>>,
                 combination |-> "or"]]
=============================================================================
