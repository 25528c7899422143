-------------------------- MODULE CreationLedger --------------------------
(***************************************************************************)
(* What a durable session creation promises to the client that asked for   *)
(* it, whatever calls, crashes and retries happen behind it.               *)
(*                                                                         *)
(* Each creation is a card.  Its first message (or its copy) is offered to *)
(* a provider at most once in its life: a card that was refused may be     *)
(* opened again only because nothing was offered, and one whose outcome is *)
(* in doubt is never opened again, it can only be found settled later.     *)
(***************************************************************************)
EXTENDS Naturals

CONSTANTS Cards

VARIABLES phase, offers

Phases == {"none", "open", "refused", "offered", "doubtful", "settled"}

LedgerInit == /\ phase = [c \in Cards |-> "none"]
              /\ offers = [c \in Cards |-> 0]

Moves == {<<"none", "open">>, <<"none", "refused">>, <<"open", "refused">>,
          <<"refused", "open">>, <<"open", "doubtful">>,
          <<"offered", "doubtful">>, <<"offered", "settled">>,
          <<"doubtful", "settled">>}

Keeps(c) == phase'[c] = phase[c] /\ offers'[c] = offers[c]
Moved(c) == <<phase[c], phase'[c]>> \in Moves /\ offers'[c] = offers[c]
Offered(c) == /\ phase[c] = "open" /\ phase'[c] = "offered"
              /\ offers[c] = 0 /\ offers'[c] = 1

\* Cards are independent; a restart may move many at once.
LedgerNext == \A c \in Cards : Keeps(c) \/ Moved(c) \/ Offered(c)

LedgerSpec == LedgerInit /\ [][LedgerNext]_<<phase, offers>>
=============================================================================
