---------------------------- MODULE DraftSession ----------------------------
(***************************************************************************)
(* The drafting session of a card on a WebSocket connection                 *)
(* (sync/internal/websocket/session.go): a user edits one draft from       *)
(* several connections, each of which keeps its own copy of the text.      *)
(*                                                                         *)
(* A text is the set of the paragraphs in it.  The events of a connection  *)
(* are handled one after the other by its read pump; those of different    *)
(* connections interleave.  The stores and the engine that generates       *)
(* paragraphs are external: any call may fail.                             *)
(***************************************************************************)
EXTENDS Naturals, FiniteSets

CONSTANTS Connections, Paragraphs, MaxSpawns

ASSUME SpawnAssumption == MaxSpawns \in Nat

VARIABLES
  drafting,   \* [Connections -> Session]
  draftBody,  \* the text of the draft in the store
  saved,      \* history: texts that were ever stored
  shown,      \* texts the clients were sent by draft_updated
  rule,       \* a staged rule was created for the card
  card,       \* state of the card in the store
  told,       \* states of the card the clients were sent
  spawns      \* spawn events so far

draftvars == <<drafting, draftBody, saved, shown, rule, card, told, spawns>>

Text == SUBSET Paragraphs
Session == [at : {"idle", "save", "announce", "spawn", "rule", "state", "tell"}, body : Text]

DraftTypeOK ==
  /\ drafting \in [Connections -> Session]
  /\ draftBody \in Text /\ saved \in SUBSET Text /\ shown \in SUBSET Text
  /\ rule \in BOOLEAN /\ card \in {"consulting", "approved"}
  /\ told \in SUBSET {"approved"}
  /\ spawns \in 0..MaxSpawns

DraftInit ==
  /\ drafting = [c \in Connections |-> [at |-> "idle", body |-> {}]]
  /\ draftBody = {} /\ saved = {{}} /\ shown = {}
  /\ rule = FALSE /\ card = "consulting" /\ told = {}
  /\ spawns = 0

At(c, s) == drafting[c].at = s
Goto(c, s) == drafting' = [drafting EXCEPT ![c].at = s]

-----------------------------------------------------------------------------
(* handleAccept appends a paragraph to the session's own text; handleEdit  *)
(* replaces that text.  What the other connections have stored since is    *)
(* not looked at.                                                          *)
HandleAccept(c) ==
  /\ At(c, "idle")
  /\ \E p \in Paragraphs \ drafting[c].body :
       drafting' = [drafting EXCEPT ![c] = [at |-> "save", body |-> @.body \cup {p}]]
  /\ UNCHANGED <<draftBody, saved, shown, rule, card, told, spawns>>
HandleEdit(c) ==
  /\ At(c, "idle")
  /\ \E text \in Text : drafting' = [drafting EXCEPT ![c] = [at |-> "save", body |-> text]]
  /\ UNCHANGED <<draftBody, saved, shown, rule, card, told, spawns>>

(* Mutant: the clients are told although the save failed. *)
UpdateDraftBody_ErrorIgnored(c) ==
  /\ At(c, "save") /\ Goto(c, "announce")
  /\ \/ draftBody' = drafting[c].body /\ saved' = saved \cup {draftBody'}
     \/ UNCHANGED <<draftBody, saved>>
  /\ UNCHANGED <<shown, rule, card, told, spawns>>

(* UpdateDraftBody: if it fails an error is sent, and the session keeps    *)
(* the text that was not stored.                                           *)
UpdateDraftBody(c) ==
  /\ At(c, "save")
  /\ \/ draftBody' = drafting[c].body /\ saved' = saved \cup {draftBody'} /\ Goto(c, "announce")
     \/ UNCHANGED <<draftBody, saved>> /\ Goto(c, "idle")
  /\ UNCHANGED <<shown, rule, card, told, spawns>>

(* broadcastEvent of draft_updated; a full channel loses it. *)
AnnounceDraft(c) ==
  /\ At(c, "announce") /\ Goto(c, "idle")
  /\ shown' \in {shown, shown \cup {drafting[c].body}}
  /\ UNCHANGED <<draftBody, saved, rule, card, told, spawns>>

(* handleSpawn: chunks are streamed until the last one, an error or the    *)
(* timeout of 30 seconds; meanwhile the connection reads nothing else.     *)
HandleSpawn(c) ==
  /\ At(c, "idle") /\ spawns < MaxSpawns
  /\ spawns' = spawns + 1
  /\ Goto(c, "spawn")
  /\ UNCHANGED <<draftBody, saved, shown, rule, card, told>>
StreamEnds(c) ==
  /\ At(c, "spawn") /\ Goto(c, "idle")
  /\ UNCHANGED <<draftBody, saved, shown, rule, card, told, spawns>>

(* handleDelegate: a staged rule is created, then the card is approved;    *)
(* the second failing is only logged, and the clients are told that the    *)
(* card is approved.                                                       *)
HandleDelegate(c) ==
  /\ At(c, "idle") /\ Goto(c, "rule")
  /\ UNCHANGED <<draftBody, saved, shown, rule, card, told, spawns>>
CreateStagedRule(c) ==
  /\ At(c, "rule")
  /\ \/ rule' = TRUE /\ Goto(c, "state")
     \/ UNCHANGED rule /\ Goto(c, "idle")
  /\ UNCHANGED <<draftBody, saved, shown, card, told, spawns>>
UpdateCardState(c) ==
  /\ At(c, "state") /\ Goto(c, "tell")
  /\ card' \in {card, "approved"}
  /\ UNCHANGED <<draftBody, saved, shown, rule, told, spawns>>
AnnounceState(c) ==
  /\ At(c, "tell") /\ Goto(c, "idle")
  /\ told' \in {told, told \cup {"approved"}}
  /\ UNCHANGED <<draftBody, saved, shown, rule, card, spawns>>

HandleEvent(c) == HandleSpawn(c) \/ HandleAccept(c) \/ HandleEdit(c) \/ HandleDelegate(c)

DraftNext ==
  \E c \in Connections :
    \/ HandleEvent(c) \/ UpdateDraftBody(c) \/ AnnounceDraft(c)
    \/ StreamEnds(c)
    \/ CreateStagedRule(c) \/ UpdateCardState(c) \/ AnnounceState(c)
DraftSpec == DraftInit /\ [][DraftNext]_draftvars

-----------------------------------------------------------------------------
(* The devices of a user are only shown texts that were stored as the      *)
(* draft, although saves fail, other connections store texts of their own  *)
(* between the save and the broadcast, and unsaved text stays in the       *)
(* session for the next save.                                              *)
ShownWereSaved == shown \subseteq saved

(* The clients are told that a card is approved by delegation only when    *)
(* its staged rule exists (the card itself may not have been updated).     *)
ApprovedHasRule == ("approved" \in told \/ card = "approved") => rule

\* What the connections that draft a card tell their clients is what was stored.
DraftInv == DraftTypeOK /\ ShownWereSaved /\ ApprovedHasRule
=============================================================================
