-------------------------- MODULE MCNetlinkSession --------------------------
(***************************************************************************)
(* Small instances of NetlinkSession: listings of up to two families with  *)
(* a message of another kind between them, dumps of up to two replies,     *)
(* dumps that end in an error, requests answered by a reply, by an ack and *)
(* a reply, by an error or not at all.                                     *)
(***************************************************************************)
EXTENDS NetlinkSession

MCPopulateAnswers == {<<"data", "other", "data", "done">>, <<"error">>}

MCDumpAnswers == {<<"data", "other", "done">>, <<"error">>}

MCDoAnswers == {<<"data">>, <<"ack", "data">>, <<"error">>}

\* Room for a call that fails, one that meets what it left, and a third; rtnl
\* has no call that resynchronises, two show everything.
MCMaxSeq == [s \in {"genl", "rtnl"} |-> IF s = "genl" THEN 3 ELSE 2]
=============================================================================
