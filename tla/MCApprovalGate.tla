--------------------------- MODULE MCApprovalGate ---------------------------
(***************************************************************************)
(* ApprovalGate for TLC: a chat turn and a live meeting's turn that ask on *)
(* one thread, and turns of other origins, all with one tool.              *)
(***************************************************************************)
EXTENDS ApprovalGate

CONSTANTS chat, meeting, unlabelled, cron, thread, call

MCSurfacesOf == [c \in Calls |-> CASE c = chat    -> {thread}
                                   [] c = meeting -> {thread, call}
                                   [] OTHER       -> {}]
MCOriginOf == [c \in Calls |-> CASE c = chat       -> "web_chat"
                                 [] c = meeting    -> "external_channel"
                                 [] c = unlabelled -> "unknown"
                                 [] c = cron       -> "cron"]
MCToolOf == [c \in Calls |-> CHOOSE t \in Tools : TRUE]
=============================================================================
