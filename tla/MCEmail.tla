------------------------------ MODULE MCEmail ------------------------------
(****************************************************************************)
(* Two notifications, four mails, for a channel of one place and two        *)
(* workers that try twice: the channel is full while a mail waits, both     *)
(* workers are busy while one is queued, and a worker fails for good.       *)
(****************************************************************************)
EXTENDS EmailService

CONSTANTS n1, n2, w1, w2
=============================================================================
