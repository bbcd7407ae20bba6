--------------------------- MODULE MCConversation ---------------------------
(* Conversation for TLC: the responses of a model that reuses its call ids,  *)
(* and the snapshots a session resumes from.                                 *)
EXTENDS Conversation

System == Msg("system", <<>>, 0, FALSE, FALSE, 1, 0)
Fresh == [msgs |-> <<System>>, epoch |-> MaxEpoch, tags |-> 0]

MCResponses == {<<>>, <<2, 1, 1>>}
MCTwoCalls == {<<2, 1>>}
MCFresh == {Fresh}

\* Sessions that are not compacted any more, with room for a whole batch, and a
\* Block in it or a call whose id was answered before the resume; and sessions
\* that can be compacted, with room for less, saved in the middle of a turn or
\* with a prompt the user has pinned: calls without results, results without
\* calls, results of another window.
MCResumed ==
    {Fresh,
     [msgs |-> <<User(0), Assistant(<<1>>, 0), Result(1, 0)>>, epoch |-> MaxEpoch, tags |-> 1],
     [msgs |-> <<User(0), Pinned(0), Assistant(<<1>>, 0), Result(1, 0)>>, epoch |-> 0, tags |-> 2],
     [msgs |-> <<System, User(0), Assistant(<<2, 1>>, 0), Result(2, 0), User(0), Result(1, 0)>>,
      epoch |-> 0, tags |-> 3],
     [msgs |-> <<Result(1, 0), Assistant(<<1, 1>>, 0)>>, epoch |-> 0, tags |-> 2]}
=============================================================================
