------------------------------- MODULE HubProofs --------------------------------
(***************************************************************************)
(* Theorems about the WebSocket hub and the drafting sessions of the sync  *)
(* service: DInv and HInv are their inductive invariants.                  *)
(***************************************************************************)
EXTENDS MCHub, SequenceTheorems, TLAPS

-------------------------------------------------------------------------------
(* DraftSession.  A session about to announce a text has stored it, and one *)
(* about to approve the card, or to tell so, has created the rule.          *)

AnnouncesSaved == \A c \in Connections : At(c, "announce") => drafting[c].body \in saved
DelegatesWithRule == \A c \in Connections : At(c, "state") \/ At(c, "tell") => rule

DInv == DraftTypeOK /\ ShownWereSaved /\ ApprovedHasRule /\ AnnouncesSaved /\ DelegatesWithRule

LEMMA DraftInitially == DraftInit => DInv
<1> SUFFICES ASSUME DraftInit PROVE DInv
  OBVIOUS
<1>1. {} \in Text /\ [at |-> "idle", body |-> {}] \in Session
  BY DEF Text, Session
<1>2. drafting \in [Connections -> Session] /\ \A c \in Connections : drafting[c].at = "idle"
  BY <1>1 DEF DraftInit
<1>3. DraftTypeOK
  <2>1. draftBody \in Text /\ saved \in SUBSET Text /\ shown \in SUBSET Text
    BY <1>1 DEF DraftInit
  <2>2. rule \in BOOLEAN /\ card \in {"consulting", "approved"} /\ told \in SUBSET {"approved"}
    BY DEF DraftInit
  <2>3. spawns \in 0 .. MaxSpawns
    BY SpawnAssumption DEF DraftInit
  <2> QED BY <1>2, <2>1, <2>2, <2>3 DEF DraftTypeOK
<1> QED BY <1>2, <1>3 DEF DraftInit, DInv, ShownWereSaved, ApprovedHasRule, AnnouncesSaved, DelegatesWithRule, At

\* Goto changes the place and keeps the text.
LEMMA GotoIs ==
  ASSUME drafting \in [Connections -> Session], NEW c \in Connections, NEW place, Goto(c, place)
  PROVE  drafting' = [drafting EXCEPT ![c] = [at |-> place, body |-> drafting[c].body]]
<1>1. drafting' = [drafting EXCEPT ![c] = [drafting[c] EXCEPT !.at = place]]
  BY DEF Goto
<1>2. [drafting[c] EXCEPT !.at = place] = [at |-> place, body |-> drafting[c].body]
  BY DEF Session
<1> QED BY <1>1, <1>2

\* A step of one session that leaves the shared state, or only adds to it.
LEMMA SessionGoes ==
  ASSUME DInv, NEW c \in Connections, NEW s \in Session, drafting' = [drafting EXCEPT ![c] = s],
         saved \subseteq saved', rule => rule',
         s.at = "announce" => s.body \in saved',
         s.at \in {"state", "tell"} => rule'
  PROVE  drafting' \in [Connections -> Session] /\ AnnouncesSaved' /\ DelegatesWithRule'
<1>1. drafting \in [Connections -> Session]
  BY DEF DInv, DraftTypeOK
<1>2. drafting' \in [Connections -> Session] /\ \A d \in Connections : drafting'[d] = IF d = c THEN s ELSE drafting[d]
  BY <1>1
<1>3. AnnouncesSaved'
  BY <1>2 DEF DInv, AnnouncesSaved, At
<1>4. DelegatesWithRule'
  BY <1>2 DEF DInv, DelegatesWithRule, At
<1> QED BY <1>2, <1>3, <1>4

LEMMA DraftInductive == DInv /\ [DraftNext]_draftvars => DInv'
<1> SUFFICES ASSUME DInv, [DraftNext]_draftvars PROVE DInv'
  OBVIOUS
<1>1. DraftTypeOK /\ drafting \in [Connections -> Session] /\ \A c \in Connections : drafting[c].body \in Text
  BY DEF DInv, DraftTypeOK, Session
<1>2. ASSUME NEW c \in Connections, HandleEvent(c) \/ StreamEnds(c) PROVE DInv'
  <2>1. PICK s \in Session : drafting' = [drafting EXCEPT ![c] = s] /\ s.at \in {"save", "spawn", "rule", "idle"}
    <3>1. \A t \in Text, p \in Paragraphs : t \cup {p} \in Text
      BY DEF Text
    <3>2. CASE HandleAccept(c)
      <4>1. PICK p \in Paragraphs : drafting' = [drafting EXCEPT ![c] = [at |-> "save", body |-> @.body \cup {p}]]
        BY <3>2 DEF HandleAccept
      <4>2. drafting' = [drafting EXCEPT ![c] = [at |-> "save", body |-> drafting[c].body \cup {p}]]
        BY <4>1, <1>1
      <4>3. [at |-> "save", body |-> drafting[c].body \cup {p}] \in Session
        BY <1>1, <3>1 DEF Session
      <4> QED BY <4>2, <4>3
    <3>3. CASE HandleEdit(c)
      <4>1. PICK text \in Text : drafting' = [drafting EXCEPT ![c] = [at |-> "save", body |-> text]]
        BY <3>3 DEF HandleEdit
      <4>2. [at |-> "save", body |-> text] \in Session
        BY DEF Session
      <4> QED BY <4>1, <4>2
    <3>4. CASE HandleSpawn(c) \/ HandleDelegate(c) \/ StreamEnds(c)
      <4>1. PICK at \in {"spawn", "rule", "idle"} : Goto(c, at)
        BY <3>4 DEF HandleSpawn, HandleDelegate, StreamEnds
      <4>2. drafting' = [drafting EXCEPT ![c] = [at |-> at, body |-> drafting[c].body]]
        BY <1>1, <4>1, GotoIs
      <4>3. [at |-> at, body |-> drafting[c].body] \in Session
        BY <1>1 DEF Session
      <4> QED BY <4>2, <4>3
    <3> QED BY <1>2, <3>2, <3>3, <3>4 DEF HandleEvent
  <2>2. UNCHANGED <<draftBody, saved, shown, rule, card, told>> /\ spawns' \in 0 .. MaxSpawns
    BY <1>1, <1>2, SpawnAssumption DEF HandleEvent, HandleAccept, HandleEdit, HandleSpawn, HandleDelegate, StreamEnds, DraftTypeOK
  <2>3. drafting' \in [Connections -> Session] /\ AnnouncesSaved' /\ DelegatesWithRule'
    BY <2>1, <2>2, SessionGoes
  <2> QED BY <1>1, <2>2, <2>3 DEF DInv, DraftTypeOK, ShownWereSaved, ApprovedHasRule
<1>3. ASSUME NEW c \in Connections, NEW at \in {"announce", "idle"},
             At(c, "save"), Goto(c, at), UNCHANGED <<shown, rule, card, told, spawns>>,
             \/ draftBody' = drafting[c].body /\ saved' = saved \cup {draftBody'}
             \/ at = "idle" /\ UNCHANGED <<draftBody, saved>>
      PROVE  DInv'
  <2>1. PICK s \in Session : s = [at |-> at, body |-> drafting[c].body]
    BY <1>1 DEF Session
  <2>2. drafting' = [drafting EXCEPT ![c] = s]
    BY <1>1, <1>3, <2>1, GotoIs
  <2>3. drafting' \in [Connections -> Session] /\ AnnouncesSaved' /\ DelegatesWithRule'
    BY <1>3, <2>1, <2>2, SessionGoes
  <2>4. draftBody' \in Text /\ saved' \in SUBSET Text /\ saved \subseteq saved'
    BY <1>1, <1>3 DEF DraftTypeOK
  <2> QED BY <1>1, <1>3, <2>3, <2>4 DEF DInv, DraftTypeOK, ShownWereSaved, ApprovedHasRule
<1>4. ASSUME NEW c \in Connections, AnnounceDraft(c) PROVE DInv'
  <2>1. PICK s \in Session : s = [at |-> "idle", body |-> drafting[c].body]
    BY <1>1 DEF Session
  <2>2. drafting' = [drafting EXCEPT ![c] = s]
    BY <1>1, <1>4, <2>1, GotoIs DEF AnnounceDraft
  <2>3. UNCHANGED <<draftBody, saved, rule, card, told, spawns>> /\ drafting[c].body \in saved
        /\ shown' \in {shown, shown \cup {drafting[c].body}}
    BY <1>4 DEF AnnounceDraft, DInv, AnnouncesSaved
  <2>4. drafting' \in [Connections -> Session] /\ AnnouncesSaved' /\ DelegatesWithRule'
    BY <2>1, <2>2, <2>3, SessionGoes
  <2> QED BY <1>1, <2>3, <2>4 DEF DInv, DraftTypeOK, ShownWereSaved, ApprovedHasRule
<1>5. ASSUME NEW c \in Connections, CreateStagedRule(c) \/ UpdateCardState(c) \/ AnnounceState(c) PROVE DInv'
  <2>1. PICK at \in {"idle", "state", "tell"} : Goto(c, at) /\ (at # "idle" => rule')
    BY <1>5 DEF CreateStagedRule, UpdateCardState, AnnounceState, DInv, DelegatesWithRule, DraftTypeOK
  <2>2. PICK s \in Session : s = [at |-> at, body |-> drafting[c].body]
    BY <1>1 DEF Session
  <2>3. drafting' = [drafting EXCEPT ![c] = s]
    BY <1>1, <2>1, <2>2, GotoIs
  <2>4. UNCHANGED <<draftBody, saved, shown, spawns>> /\ (rule => rule') /\ rule' \in BOOLEAN
    BY <1>1, <1>5 DEF CreateStagedRule, UpdateCardState, AnnounceState, DraftTypeOK
  <2>5. drafting' \in [Connections -> Session] /\ AnnouncesSaved' /\ DelegatesWithRule'
    BY <2>1, <2>2, <2>3, <2>4, SessionGoes
  <2>6. card' \in {"consulting", "approved"} /\ told' \in SUBSET {"approved"} /\ ApprovedHasRule'
    BY <1>1, <1>5 DEF CreateStagedRule, UpdateCardState, AnnounceState, DraftTypeOK, DInv, ApprovedHasRule, DelegatesWithRule
  <2> QED BY <1>1, <2>4, <2>5, <2>6 DEF DInv, DraftTypeOK, ShownWereSaved
<1>6. CASE UNCHANGED draftvars
  BY <1>6 DEF draftvars, DInv, DraftTypeOK, ShownWereSaved, ApprovedHasRule, AnnouncesSaved, DelegatesWithRule, At
<1>7. ASSUME NEW c \in Connections, UpdateDraftBody(c) PROVE DInv'
  BY <1>3, <1>7 DEF UpdateDraftBody
<1> QED BY <1>2, <1>4, <1>5, <1>6, <1>7 DEF DraftNext

\* What the devices are shown was stored, and what they are told of a delegation is
\* true, for any number of connections and paragraphs.
THEOREM DraftIsSound == DraftSpec => []DraftInv
<1>1. DInv => DraftInv
  BY DEF DInv, DraftInv
<1> QED BY <1>1, DraftInitially, DraftInductive, PTL DEF DraftSpec

-------------------------------------------------------------------------------
(* WSHub, first what Append and Tail do to the elements of a channel.       *)

Once(q) == \A i, j \in DOMAIN q : q[i] = q[j] => i = j

LEMMA AppendIs ==
  ASSUME NEW S, NEW q \in Seq(S), NEW x \in S
  PROVE  /\ Append(q, x) \in Seq(S) /\ Len(Append(q, x)) = Len(q) + 1
         /\ Range(Append(q, x)) = Range(q) \cup {x}
         /\ Once(q) /\ x \notin Range(q) => Once(Append(q, x))
<1>1. /\ Append(q, x) \in Seq(S) /\ Len(Append(q, x)) = Len(q) + 1 /\ Len(q) \in Nat
      /\ DOMAIN q = 1 .. Len(q) /\ DOMAIN Append(q, x) = 1 .. Len(q) + 1
      /\ \A i \in 1 .. Len(q) : Append(q, x)[i] = q[i]
      /\ Append(q, x)[Len(q) + 1] = x
  OBVIOUS
<1> DEFINE p == Append(q, x)
<1> HIDE DEF p
<1>2. Range(p) = Range(q) \cup {x}
  BY <1>1 DEF Range, p
<1>3. Once(q) /\ x \notin Range(q) => Once(p)
  BY <1>1 DEF Range, p, Once
<1> QED BY <1>1, <1>2, <1>3 DEF p

LEMMA TailIs ==
  ASSUME NEW S, NEW q \in Seq(S), q # <<>>
  PROVE  /\ Tail(q) \in Seq(S) /\ Head(q) \in S /\ Len(Tail(q)) = Len(q) - 1
         /\ Range(q) = Range(Tail(q)) \cup {Head(q)}
         /\ Once(q) => Once(Tail(q)) /\ Head(q) \notin Range(Tail(q))
<1>1. /\ Tail(q) \in Seq(S) /\ Head(q) \in S /\ Len(Tail(q)) = Len(q) - 1 /\ Len(q) \in Nat \ {0}
      /\ DOMAIN q = 1 .. Len(q) /\ DOMAIN Tail(q) = 1 .. Len(q) - 1
      /\ \A i \in 1 .. Len(q) - 1 : Tail(q)[i] = q[i + 1]
      /\ Head(q) = q[1]
  OBVIOUS
<1> DEFINE t == Tail(q)  h == Head(q)
<1> HIDE DEF t, h
<1>2. /\ DOMAIN t = 1 .. Len(q) - 1 /\ \A i \in 1 .. Len(q) - 1 : t[i] = q[i + 1]
      /\ h = q[1] /\ DOMAIN q = 1 .. Len(q) /\ Len(q) \in Nat \ {0}
  BY <1>1 DEF t, h
<1>3. Range(q) = Range(t) \cup {h}
  <2>1. \A i \in 1 .. Len(q) : i = 1 \/ (i - 1 \in 1 .. Len(q) - 1 /\ t[i - 1] = q[i])
    BY <1>2
  <2>2. \A i \in 1 .. Len(q) - 1 : i + 1 \in 1 .. Len(q)
    BY <1>2
  <2>3. ASSUME NEW x \in Range(q) PROVE x \in Range(t) \cup {h}
    <3>1. PICK i \in 1 .. Len(q) : x = q[i]
      BY <1>2 DEF Range
    <3>2. CASE i = 1
      BY <1>2, <3>1, <3>2
    <3>3. CASE i # 1
      <4>1. i - 1 \in DOMAIN t /\ t[i - 1] = x
        BY <1>2, <2>1, <3>1, <3>3
      <4> QED BY <4>1 DEF Range
    <3> QED BY <3>2, <3>3
  <2>4. h \in Range(q)
    BY <1>2 DEF Range
  <2>5. ASSUME NEW x \in Range(t) PROVE x \in Range(q)
    <3>1. PICK i \in 1 .. Len(q) - 1 : x = t[i]
      BY <1>2 DEF Range
    <3> QED BY <1>2, <2>2, <3>1 DEF Range
  <2> QED BY <2>3, <2>4, <2>5
<1>4. ASSUME Once(q) PROVE Once(t) /\ h \notin Range(t)
  <2>1. \A i \in 1 .. Len(q) - 1 : i + 1 \in 1 .. Len(q) /\ i + 1 # 1
    BY <1>2
  <2>2. \A i, j \in 1 .. Len(q) : q[i] = q[j] => i = j
    BY <1>2, <1>4 DEF Once
  <2>3. ASSUME NEW i \in 1 .. Len(q) - 1, NEW j \in 1 .. Len(q) - 1, t[i] = t[j] PROVE i = j
    <3>1. i + 1 = j + 1
      BY <1>2, <2>1, <2>2, <2>3
    <3> QED BY <3>1
  <2>4. ASSUME NEW i \in 1 .. Len(q) - 1, t[i] = h PROVE FALSE
    <3>1. i + 1 = 1
      BY <1>2, <2>1, <2>2, <2>4
    <3> QED BY <3>1
  <2> QED BY <1>2, <2>3, <2>4 DEF Once, Range
<1> QED BY <1>1, <1>3, <1>4 DEF t, h

-------------------------------------------------------------------------------
(* WSHub.  A client whose device saw no unregistration too early is in the  *)
(* map, or about to enter it, exactly while its channel is open; once out   *)
(* of it its connection is closed; and if its read pump has ended, its      *)
(* request is in the channel.                                               *)

Began(c) == reader[c] # "none"
Here(c) == c \in Range(register) \/ listed[c[1]] = c
Clean(c) == hub = "run" /\ \A o \in overtaken : o[1] # c[1]

HubTypes ==
  /\ HubTypeOK /\ listed \in [HubDevices -> Clients \cup {NoClient}]
  /\ subscriber.to # {} => subscriber.event \in Events

RegistersOnce == Once(register) /\ \A c \in Range(register) : Began(c) /\ listed[c[1]] # c
OnlyBegan ==
  \A c \in Clients :
    /\ (c \in Range(unregister) \/ spare[c] > 0 \/ c \in subscriber.to \/ listed[c[1]] = c \/ writer[c] = "write") => Began(c)
    /\ conn[c] \in {"absent", "upgrade"} => ~Began(c)
OpenIsHere == \A c \in Clients : Clean(c) => (send[c].open <=> ~Began(c) \/ Here(c))
GoneIsClosed == \A c \in Clients : Clean(c) /\ Began(c) /\ ~Here(c) => conn[c] = "closed"
DoneHasAsked == \A c \in Clients : Clean(c) /\ reader[c] = "done" /\ Here(c) => c \in Range(unregister)
MapInv == RegistersOnce /\ OnlyBegan /\ OpenIsHere /\ GoneIsClosed /\ DoneHasAsked

(* An event is on its way to a client once through the hub's channel and    *)
(* once through Redis.                                                      *)

Local(e) == IF e \in Range(broadcast) THEN 1 ELSE 0
Remote(c, e) == IF e \in Range(redis) \/ (c \in subscriber.to /\ subscriber.event = e) THEN 1 ELSE 0
Delivering(e) == subscriber.to # {} /\ subscriber.event = e
FreshIsNowhere ==
  \A e \in fresh : /\ e \notin Range(broadcast) /\ e \notin Range(redis) /\ ~Delivering(e)
                   /\ \A c \in Clients : got[c][e] = 0
RedisOnce == \A e \in Range(redis) : ~Delivering(e)
ShareOfTwo == \A c \in Clients, e \in Events : got[c][e] + Local(e) + Remote(c, e) <= 2
EventInv == Once(broadcast) /\ Once(redis) /\ FreshIsNowhere /\ RedisOnce /\ ShareOfTwo

HInv == HubTypes /\ MapInv /\ EventInv

LEMMA ClientHasDevice == \A c \in Clients : c[1] \in HubDevices /\ c # NoClient
BY NoClientAssumption DEF Clients

LEMMA ListedIs ==
  ASSUME HubTypes
  PROVE  /\ Listed \subseteq Clients
         /\ \A c \in Clients : c \in Listed <=> listed[c[1]] = c
<1>1. \A d \in HubDevices : listed[d] = NoClient \/ (listed[d] \in Clients /\ listed[d][1] = d)
  BY DEF HubTypes, HubTypeOK
<1>2. Listed \subseteq Clients
  BY <1>1 DEF Listed
<1> QED BY <1>1, <1>2, ClientHasDevice DEF Listed

LEMMA HubInitially == HubInit => HInv
<1> SUFFICES ASSUME HubInit PROVE HInv
  OBVIOUS
<1>1. Range(<<>>) = {} /\ Once(<<>>) /\ Len(<<>>) = 0
  BY DEF Range, Once
<1>2. /\ NoMessage.to = {} /\ NoMessage.event = NoClient
      /\ NoMessage \in [event : Events \cup {NoClient}, to : SUBSET Clients]
  BY DEF NoMessage
<1>3. HubTypeOK
  <2>1. \A q \in {register, unregister} : q \in Seq(Clients) /\ Len(q) <= RequestCap
    <3>1. register = <<>> /\ unregister = <<>> /\ <<>> \in Seq(Clients) /\ 0 <= RequestCap
      BY HubAssumption DEF HubInit
    <3> QED BY <1>1, <3>1
  <2>2. send \in [Clients -> [open : BOOLEAN, queued : 0 .. SendCap]]
    BY HubAssumption DEF HubInit
  <2>3. got \in [Clients -> [Events -> Nat]]
    BY DEF HubInit
  <2> QED BY <1>2, <2>1, <2>2, <2>3 DEF HubInit, HubTypeOK
<1>4. HubTypes
  BY <1>2, <1>3 DEF HubInit, HubTypes
<1>5. MapInv
  BY <1>1, <1>2, ClientHasDevice
     DEF HubInit, MapInv, RegistersOnce, OnlyBegan, OpenIsHere, GoneIsClosed, DoneHasAsked, Began, Here, Clean
<1>6. EventInv
  BY <1>1, <1>2 DEF HubInit, EventInv, FreshIsNowhere, RedisOnce, ShareOfTwo, Local, Remote, Delivering
<1> QED BY <1>4, <1>5, <1>6 DEF HInv

-------------------------------------------------------------------------------
(* Types.                                                                    *)

LEMMA FieldsKeep ==
  ASSUME HubTypes
  PROVE  /\ \A c \in Clients : [send[c] EXCEPT !.open = FALSE] \in [open : BOOLEAN, queued : 0 .. SendCap]
         /\ \A c \in Clients : Fits(c) => /\ [send[c] EXCEPT !.queued = @ + 1] \in [open : BOOLEAN, queued : 0 .. SendCap]
                                          /\ [send[c] EXCEPT !.queued = @ + 1].open = send[c].open
         /\ \A c \in Clients : send[c].queued > 0 =>
              /\ [send[c] EXCEPT !.queued = @ - 1] \in [open : BOOLEAN, queued : 0 .. SendCap]
              /\ [send[c] EXCEPT !.queued = @ - 1].open = send[c].open
<1>1. \A c \in Clients : send[c] \in [open : BOOLEAN, queued : 0 .. SendCap]
  BY DEF HubTypes, HubTypeOK
<1>2. ASSUME NEW c \in Clients, NEW n \in Int
      PROVE  /\ [send[c] EXCEPT !.queued = n] = [open |-> send[c].open, queued |-> n]
             /\ [send[c] EXCEPT !.open = FALSE] = [open |-> FALSE, queued |-> send[c].queued]
  <2>1. PICK r \in [open : BOOLEAN, queued : 0 .. SendCap] : r = send[c]
    BY <1>1
  <2>2. r = [open |-> r.open, queued |-> r.queued]
    OBVIOUS
  <2>3. [r EXCEPT !.queued = n] = [open |-> r.open, queued |-> n]
    BY <2>2
  <2>4. ASSUME NEW v PROVE [r EXCEPT !.open = v] = [open |-> v, queued |-> r.queued]
    BY <2>2
  <2>5. [r EXCEPT !.open = FALSE] = [open |-> FALSE, queued |-> r.queued]
    BY <2>4
  <2> QED BY <2>1, <2>3, <2>5
<1>3. \A c \in Clients : send[c].open \in BOOLEAN /\ send[c].queued \in 0 .. SendCap
  BY <1>1
<1>4. SendCap \in Nat
  BY HubAssumption
<1>5. ASSUME NEW c \in Clients
      PROVE  /\ [send[c] EXCEPT !.queued = @ + 1] = [open |-> send[c].open, queued |-> send[c].queued + 1]
             /\ [send[c] EXCEPT !.queued = @ - 1] = [open |-> send[c].open, queued |-> send[c].queued - 1]
             /\ [send[c] EXCEPT !.open = FALSE] = [open |-> FALSE, queued |-> send[c].queued]
  BY <1>2, <1>3
<1>6. \A c \in Clients : Fits(c) => send[c].queued + 1 \in 0 .. SendCap
  BY <1>3, <1>4 DEF Fits
<1>7. \A c \in Clients : send[c].queued > 0 => send[c].queued - 1 \in 0 .. SendCap
  BY <1>3, <1>4
<1> QED BY <1>3, <1>5, <1>6, <1>7

\* Channels, pumps and connections are set to values of their types.
LEMMA CloseTypes ==
  ASSUME HubTypes, NEW c \in Clients, Close(c), hub = "run"
  PROVE  /\ hub' \in {"run", "panicked"} /\ (hub' = "run" <=> send[c].open)
         /\ send' \in [Clients -> [open : BOOLEAN, queued : 0 .. SendCap]]
         /\ ~send'[c].open /\ \A x \in Clients : x # c => send'[x] = send[x]
<1>1. send' = [send EXCEPT ![c] = [send[c] EXCEPT !.open = FALSE]]
  BY DEF Close
<1>2. send \in [Clients -> [open : BOOLEAN, queued : 0 .. SendCap]]
  BY DEF HubTypes, HubTypeOK
<1>3. [send[c] EXCEPT !.open = FALSE].open = FALSE
  BY <1>2
<1> QED BY <1>1, <1>2, <1>3, FieldsKeep DEF Close

LEMMA HandTypes ==
  ASSUME HubTypes, NEW e, NEW to \in SUBSET Clients, Hand(e, to)
  PROVE  /\ hub' \in {hub, "panicked"}
         /\ send' \in [Clients -> [open : BOOLEAN, queued : 0 .. SendCap]]
         /\ \A x \in Clients : send'[x].open = send[x].open
         /\ got' \in [Clients -> [Events -> Nat]]
         /\ \A x \in Clients, f \in Events :
              got'[x][f] = IF f = e /\ x \in to /\ Fits(x) THEN got[x][f] + 1 ELSE got[x][f]
<1>1. send \in [Clients -> [open : BOOLEAN, queued : 0 .. SendCap]] /\ got \in [Clients -> [Events -> Nat]]
  BY DEF HubTypes, HubTypeOK
<1>2. \A x \in Clients : send'[x] = IF x \in to /\ Fits(x) THEN [send[x] EXCEPT !.queued = @ + 1] ELSE send[x]
  BY DEF Hand
<1>3. send' \in [Clients -> [open : BOOLEAN, queued : 0 .. SendCap]] /\ \A x \in Clients : send'[x].open = send[x].open
  <2>1. send' = [x \in Clients |-> send'[x]]
    BY DEF Hand
  <2>2. \A x \in Clients : send'[x] \in [open : BOOLEAN, queued : 0 .. SendCap] /\ send'[x].open = send[x].open
    BY <1>1, <1>2, FieldsKeep
  <2> QED BY <2>1, <2>2
<1>4. \A x \in Clients : /\ [got[x] EXCEPT ![e] = @ + 1] \in [Events -> Nat]
                         /\ \A f \in Events : [got[x] EXCEPT ![e] = @ + 1][f] = IF f = e THEN got[x][f] + 1 ELSE got[x][f]
  <2> SUFFICES ASSUME NEW x \in Clients
               PROVE  /\ [got[x] EXCEPT ![e] = @ + 1] \in [Events -> Nat]
                      /\ \A f \in Events : [got[x] EXCEPT ![e] = @ + 1][f] = IF f = e THEN got[x][f] + 1 ELSE got[x][f]
    OBVIOUS
  <2>1. got[x] \in [Events -> Nat]
    BY <1>1
  <2>2. e \in Events => got[x][e] + 1 \in Nat
    BY <2>1
  <2>3. [got[x] EXCEPT ![e] = got[x][e] + 1] \in [Events -> Nat]
    BY <2>1, <2>2
  <2>4. \A f \in Events : [got[x] EXCEPT ![e] = got[x][e] + 1][f] = IF f = e THEN got[x][f] + 1 ELSE got[x][f]
    BY <2>1
  <2> QED BY <2>3, <2>4
<1>5. \A x \in Clients : got'[x] = IF x \in to /\ Fits(x) THEN [got[x] EXCEPT ![e] = @ + 1] ELSE got[x]
  BY DEF Hand
<1>6. got' \in [Clients -> [Events -> Nat]]
  <2>1. got' = [x \in Clients |-> got'[x]]
    BY DEF Hand
  <2>2. \A x \in Clients : got'[x] \in [Events -> Nat]
    <3> SUFFICES ASSUME NEW x \in Clients PROVE got'[x] \in [Events -> Nat]
      OBVIOUS
    <3>1. got'[x] = [got[x] EXCEPT ![e] = @ + 1] \/ got'[x] = got[x]
      BY <1>5
    <3> QED BY <1>1, <1>4, <3>1
  <2> QED BY <2>1, <2>2
<1>7. hub' \in {hub, "panicked"}
  BY DEF Hand
<1> QED BY <1>3, <1>4, <1>5, <1>6, <1>7

PumpTypes ==
  /\ conn \in [Clients -> {"absent", "upgrade", "open", "closed"}]
  /\ reader \in [Clients -> {"none", "read", "handle", "done"}] /\ writer \in [Clients -> {"none", "write", "done"}]
  /\ send \in [Clients -> [open : BOOLEAN, queued : 0 .. SendCap]]
MapTypes ==
  /\ hub \in {"run", "stuck", "stopped", "panicked"}
  /\ listed \in [HubDevices -> Clients \cup {NoClient}] /\ \A c \in Clients, d \in HubDevices : listed[d] = c => c[1] = d
  /\ overtaken \subseteq Clients /\ spare \in [Clients -> Nat]
RequestTypes ==
  /\ register \in Seq(Clients) /\ Len(register) <= RequestCap
  /\ unregister \in Seq(Clients) /\ Len(unregister) <= RequestCap
EventTypes ==
  /\ broadcast \in Seq(Events) /\ redis \in Seq(Events) /\ fresh \subseteq Events
  /\ got \in [Clients -> [Events -> Nat]]
  /\ subscriber \in [event : Events \cup {NoClient}, to : SUBSET Clients] /\ (subscriber.to # {} => subscriber.event \in Events)

LEMMA TypesAre == HubTypes <=> PumpTypes /\ MapTypes /\ RequestTypes /\ EventTypes
<1>1. ASSUME listed \in [HubDevices -> Clients \cup {NoClient}]
      PROVE  (\A d \in HubDevices : listed[d] \in {c \in Clients : c[1] = d} \cup {NoClient})
             <=> (\A c \in Clients, d \in HubDevices : listed[d] = c => c[1] = d)
  BY <1>1, ClientHasDevice
<1>2. (\A q \in {register, unregister} : q \in Seq(Clients) /\ Len(q) <= RequestCap) <=> RequestTypes
  BY DEF RequestTypes
<1> QED BY <1>1, <1>2 DEF HubTypes, HubTypeOK, PumpTypes, MapTypes, EventTypes

LEMMA TypesAreNext == PumpTypes' /\ MapTypes' /\ RequestTypes' /\ EventTypes' => HubTypes'
BY TypesAre, PTL

\* The requests to the hub, sent only while there is room.
LEMMA RoomTypes ==
  ASSUME HubTypes
  PROVE  /\ \A c \in Clients : Len(register) < RequestCap =>
              Append(register, c) \in Seq(Clients) /\ Len(Append(register, c)) <= RequestCap
         /\ \A c \in Clients : Len(unregister) < RequestCap =>
              Append(unregister, c) \in Seq(Clients) /\ Len(Append(unregister, c)) <= RequestCap
         /\ register # <<>> => Tail(register) \in Seq(Clients) /\ Len(Tail(register)) <= RequestCap /\ Head(register) \in Clients
         /\ unregister # <<>> => Tail(unregister) \in Seq(Clients) /\ Len(Tail(unregister)) <= RequestCap /\ Head(unregister) \in Clients
<1>1. RequestTypes
  BY TypesAre
<1>2. ASSUME NEW q \in Seq(Clients), Len(q) <= RequestCap
      PROVE  /\ \A c \in Clients : Len(q) < RequestCap => Append(q, c) \in Seq(Clients) /\ Len(Append(q, c)) <= RequestCap
             /\ q # <<>> => Tail(q) \in Seq(Clients) /\ Len(Tail(q)) <= RequestCap /\ Head(q) \in Clients
  <2>1. Len(q) \in Nat /\ RequestCap \in Nat
    BY HubAssumption
  <2>2. ASSUME NEW c \in Clients, Len(q) < RequestCap PROVE Append(q, c) \in Seq(Clients) /\ Len(Append(q, c)) <= RequestCap
    BY <2>1, <2>2, AppendIs
  <2>3. ASSUME q # <<>> PROVE Tail(q) \in Seq(Clients) /\ Len(Tail(q)) <= RequestCap /\ Head(q) \in Clients
    BY <1>2, <2>1, <2>3, TailIs
  <2> QED BY <2>2, <2>3
<1> QED BY <1>1, <1>2 DEF RequestTypes

LEMMA ServeTypes ==
  ASSUME HubTypes, NEW c \in Clients, ServeWS(c) \/ UpgradeFails(c) \/ RegisterClient(c) \/ PeerCloses(c)
  PROVE  HubTypes'
<1>1. PumpTypes /\ MapTypes /\ RequestTypes /\ EventTypes
  BY TypesAre
<1>2. RequestTypes'
  <2>1. listed[c[1]] # NoClient => listed[c[1]] \in Clients
    BY <1>1, ClientHasDevice DEF MapTypes
  <2> QED BY <1>1, <2>1, RoomTypes DEF RequestTypes, ServeWS, UpgradeFails, RegisterClient, PeerCloses, chans
<1>3. PumpTypes'
  BY <1>1 DEF PumpTypes, ServeWS, UpgradeFails, RegisterClient, PeerCloses, Hangup, pumps
<1>4. MapTypes' /\ EventTypes'
  BY <1>1 DEF MapTypes, EventTypes, ServeWS, UpgradeFails, RegisterClient, PeerCloses, chans, history
<1> QED BY <1>2, <1>3, <1>4, TypesAreNext

LEMMA RegisterTypes == ASSUME HubTypes, RegisterStep PROVE HubTypes'
<1>1. PumpTypes /\ MapTypes /\ RequestTypes /\ EventTypes
  BY TypesAre
<1> DEFINE c == Head(register)  old == listed[c[1]]
<1>2. c \in Clients /\ c[1] \in HubDevices /\ hub = "run"
  BY RoomTypes, ClientHasDevice DEF RegisterStep
<1>3. old # NoClient => old \in Clients
  BY <1>1, <1>2 DEF MapTypes
<1>4. CASE old = NoClient
  <2>1. PumpTypes' /\ hub' = hub
    BY <1>1, <1>4 DEF RegisterStep, PumpTypes, pumps
  <2>2. MapTypes'
    BY <1>1, <1>2, <2>1 DEF RegisterStep, MapTypes, history
  <2>3. RequestTypes' /\ EventTypes'
    BY <1>1, RoomTypes DEF RegisterStep, RequestTypes, EventTypes, history
  <2> QED BY <2>1, <2>2, <2>3, TypesAreNext
<1>5. CASE old # NoClient
  <2>1. Close(old) /\ Hangup(old) /\ UNCHANGED pumps
    BY <1>5 DEF RegisterStep
  <2>2. hub' \in {"run", "panicked"} /\ send' \in [Clients -> [open : BOOLEAN, queued : 0 .. SendCap]]
    BY <1>2, <1>3, <1>5, <2>1, CloseTypes
  <2>3. PumpTypes'
    BY <1>1, <2>1, <2>2 DEF PumpTypes, Hangup, pumps
  <2>4. MapTypes'
    BY <1>1, <1>2, <2>2 DEF RegisterStep, MapTypes, history
  <2>5. RequestTypes' /\ EventTypes'
    BY <1>1, RoomTypes DEF RegisterStep, RequestTypes, EventTypes, history
  <2> QED BY <2>3, <2>4, <2>5, TypesAreNext
<1> QED BY <1>4, <1>5

LEMMA UnregisterTypes == ASSUME HubTypes, UnregisterStep PROVE HubTypes'
<1>1. PumpTypes /\ MapTypes /\ RequestTypes /\ EventTypes
  BY TypesAre
<1> DEFINE c == Head(unregister)
<1>2. c \in Clients /\ c[1] \in HubDevices /\ hub = "run"
  BY RoomTypes, ClientHasDevice DEF UnregisterStep
<1>3. /\ hub' \in {"run", "panicked"} /\ send' \in [Clients -> [open : BOOLEAN, queued : 0 .. SendCap]]
      /\ listed' \in [HubDevices -> Clients \cup {NoClient}] /\ \A d \in HubDevices : listed'[d] \in {listed[d], NoClient}
  <2>1. CASE listed[c[1]] = NoClient
    BY <1>1, <1>2, <2>1 DEF UnregisterStep, PumpTypes, MapTypes
  <2>2. CASE listed[c[1]] # NoClient
    <3>1. Close(c) /\ listed' = [listed EXCEPT ![c[1]] = NoClient]
      BY <2>2 DEF UnregisterStep
    <3> QED BY <1>1, <1>2, <3>1, CloseTypes DEF MapTypes
  <2> QED BY <2>1, <2>2
<1>4. PumpTypes'
  BY <1>1, <1>2, <1>3 DEF PumpTypes, UnregisterStep, Hangup, pumps
<1>5. MapTypes'
  <2>1. \A x \in Clients, d \in HubDevices : listed'[d] = x => listed[d] = x
    BY <1>3, ClientHasDevice
  <2> QED BY <1>1, <1>2, <1>3, <2>1 DEF MapTypes, UnregisterStep
<1>6. RequestTypes' /\ EventTypes'
  BY <1>1, RoomTypes DEF UnregisterStep, RequestTypes, EventTypes
<1> QED BY <1>4, <1>5, <1>6, TypesAreNext

\* Events are taken from a channel and handed to clients.
LEMMA RouteTypes ==
  ASSUME HubTypes, RouteBroadcast \/ (\E d \in HubDevices : RouteToDevice(d))
  PROVE  HubTypes'
<1>1. PumpTypes /\ MapTypes /\ RequestTypes /\ EventTypes
  BY TypesAre
<1>2. broadcast # <<>> /\ broadcast' = Tail(broadcast) /\ Head(broadcast) \in Events /\ Tail(broadcast) \in Seq(Events) /\ hub = "run"
  BY <1>1, TailIs DEF EventTypes, RouteBroadcast, RouteToDevice
<1>3. CASE RouteBroadcast
  <2>1. Hand(Head(broadcast), Listed) /\ Listed \subseteq Clients
    BY <1>3, ListedIs DEF RouteBroadcast
  <2>2. /\ hub' \in {hub, "panicked"} /\ send' \in [Clients -> [open : BOOLEAN, queued : 0 .. SendCap]]
        /\ got' \in [Clients -> [Events -> Nat]]
    BY <1>2, <2>1, HandTypes
  <2>3. spare' \in [Clients -> Nat]
    BY <1>1, <1>3 DEF RouteBroadcast, MapTypes
  <2>4. PumpTypes' /\ RequestTypes'
    BY <1>1, <1>3, <2>2 DEF RouteBroadcast, PumpTypes, RequestTypes, pumps
  <2>5. MapTypes' /\ EventTypes'
    BY <1>1, <1>2, <1>3, <2>2, <2>3 DEF RouteBroadcast, MapTypes, EventTypes
  <2> QED BY <2>4, <2>5, TypesAreNext
<1>4. ASSUME NEW d \in HubDevices, RouteToDevice(d) PROVE HubTypes'
  <2>1. listed[d] \in Clients
    BY <1>1, <1>4 DEF RouteToDevice, MapTypes
  <2>2. /\ hub' \in {hub, "panicked", "stuck"} /\ send' \in [Clients -> [open : BOOLEAN, queued : 0 .. SendCap]]
        /\ got' \in [Clients -> [Events -> Nat]] /\ RequestTypes'
    <3>1. CASE Hand(Head(broadcast), {listed[d]}) /\ UNCHANGED unregister
      BY <1>1, <1>2, <1>4, <2>1, <3>1, HandTypes DEF RouteToDevice, RequestTypes
    <3>2. CASE UNCHANGED <<send, got>>
      BY <1>1, <1>4, <2>1, <3>2, RoomTypes DEF RouteToDevice, RequestTypes, PumpTypes, EventTypes, Hand
    <3> QED BY <1>4, <3>1, <3>2 DEF RouteToDevice
  <2>3. PumpTypes' /\ MapTypes' /\ EventTypes'
    BY <1>1, <1>2, <1>4, <2>2 DEF RouteToDevice, PumpTypes, MapTypes, EventTypes, pumps
  <2> QED BY <2>2, <2>3, TypesAreNext
<1> QED BY <1>3, <1>4

LEMMA SpareTypes == ASSUME HubTypes, NEW c \in Clients, SpareUnregisters(c) PROVE HubTypes'
<1>1. PumpTypes /\ MapTypes /\ RequestTypes /\ EventTypes
  BY TypesAre
<1>2. spare' \in [Clients -> Nat]
  <2>1. spare[c] \in Nat /\ spare[c] > 0
    BY <1>1 DEF SpareUnregisters, MapTypes
  <2>2. spare[c] - 1 \in Nat
    BY <2>1
  <2> QED BY <1>1, <2>2 DEF SpareUnregisters, MapTypes
<1>3. MapTypes' /\ RequestTypes'
  BY <1>1, <1>2, RoomTypes DEF SpareUnregisters, MapTypes, RequestTypes, history
<1>4. PumpTypes' /\ EventTypes'
  BY <1>1 DEF SpareUnregisters, PumpTypes, EventTypes, pumps, history
<1> QED BY <1>3, <1>4, TypesAreNext

LEMMA CloseAllTypes == ASSUME HubTypes, CloseAll PROVE HubTypes'
<1>1. PumpTypes /\ MapTypes /\ RequestTypes /\ EventTypes
  BY TypesAre
<1>2. send' \in [Clients -> [open : BOOLEAN, queued : 0 .. SendCap]]
  <2>1. send' = [c \in Clients |-> IF c \in Listed THEN [send[c] EXCEPT !.open = FALSE] ELSE send[c]]
    BY DEF CloseAll
  <2>2. \A c \in Clients : send[c] \in [open : BOOLEAN, queued : 0 .. SendCap]
    BY <1>1 DEF PumpTypes
  <2> QED BY <2>1, <2>2, FieldsKeep
<1>3. PumpTypes'
  BY <1>1, <1>2 DEF CloseAll, PumpTypes, pumps
<1>4. MapTypes'
  BY <1>1, ClientHasDevice DEF CloseAll, MapTypes, history
<1>5. RequestTypes' /\ EventTypes'
  BY <1>1 DEF CloseAll, RequestTypes, EventTypes, chans, history
<1> QED BY <1>3, <1>4, <1>5, TypesAreNext

LEMMA BroadcastTypes == ASSUME HubTypes, BroadcastToUser PROVE HubTypes'
<1>1. PumpTypes /\ MapTypes /\ RequestTypes /\ EventTypes
  BY TypesAre
<1>2. PICK e \in fresh : /\ fresh' = fresh \ {e}
                         /\ broadcast' \in {broadcast, Append(broadcast, e)} /\ redis' \in {redis, Append(redis, e)}
  BY DEF BroadcastToUser
<1>3. e \in Events
  BY <1>1, <1>2 DEF EventTypes
<1>4. Append(broadcast, e) \in Seq(Events) /\ Append(redis, e) \in Seq(Events)
  BY <1>1, <1>3, AppendIs DEF EventTypes
<1>5. EventTypes'
  BY <1>1, <1>2, <1>4 DEF EventTypes, BroadcastToUser, history
<1>6. PumpTypes' /\ MapTypes' /\ RequestTypes'
  BY <1>1 DEF PumpTypes, MapTypes, RequestTypes, BroadcastToUser, pumps, history
<1> QED BY <1>5, <1>6, TypesAreNext

LEMMA CollectTypes == ASSUME HubTypes, CollectClients PROVE HubTypes'
<1>1. PumpTypes /\ MapTypes /\ RequestTypes /\ EventTypes
  BY TypesAre
<1>2. redis # <<>> /\ redis' = Tail(redis) /\ Tail(redis) \in Seq(Events) /\ Head(redis) \in Events
  BY <1>1, TailIs DEF EventTypes, CollectClients
<1>3. subscriber' = NoMessage \/ subscriber' = [event |-> Head(redis), to |-> Listed]
  BY DEF CollectClients
<1>4. NoMessage \in [event : Events \cup {NoClient}, to : SUBSET Clients] /\ NoMessage.to = {}
  BY DEF NoMessage
<1>5. [event |-> Head(redis), to |-> Listed] \in [event : Events \cup {NoClient}, to : SUBSET Clients]
  BY <1>2, ListedIs
<1>6. EventTypes'
  <2>1. subscriber' \in [event : Events \cup {NoClient}, to : SUBSET Clients]
    BY <1>3, <1>4, <1>5
  <2>2. subscriber'.to # {} => subscriber'.event \in Events
    BY <1>2, <1>3, <1>4
  <2>3. UNCHANGED <<broadcast, fresh, got>>
    BY DEF CollectClients, chans, history
  <2> QED BY <1>1, <1>2, <2>1, <2>2, <2>3 DEF EventTypes
<1>7. PumpTypes' /\ MapTypes' /\ RequestTypes'
  BY <1>1 DEF PumpTypes, MapTypes, RequestTypes, CollectClients, pumps, history, chans
<1> QED BY <1>6, <1>7, TypesAreNext

\* What the subscriber has left when it has served client c.
LEMMA SubscriberIs ==
  ASSUME HubTypes, NEW c \in Clients, DeliverOutsideLock(c)
  PROVE  /\ subscriber' \in [event : Events \cup {NoClient}, to : SUBSET Clients]
         /\ subscriber'.to = subscriber.to \ {c} /\ (subscriber'.to # {} => subscriber'.event = subscriber.event)
<1>1. subscriber \in [event : Events \cup {NoClient}, to : SUBSET Clients] /\ c \in subscriber.to
  BY TypesAre DEF EventTypes, DeliverOutsideLock
<1>2. CASE subscriber.to = {c}
  BY <1>2 DEF DeliverOutsideLock, NoMessage
<1>3. CASE subscriber.to # {c}
  <2>1. subscriber' = [subscriber EXCEPT !.to = subscriber.to \ {c}]
    BY <1>3 DEF DeliverOutsideLock
  <2> QED BY <1>1, <2>1
<1> QED BY <1>2, <1>3

LEMMA DeliverTypes == ASSUME HubTypes, NEW c \in Clients, DeliverOutsideLock(c) PROVE HubTypes'
<1>1. PumpTypes /\ MapTypes /\ RequestTypes /\ EventTypes
  BY TypesAre
<1>2. Hand(subscriber.event, {c})
  BY DEF DeliverOutsideLock
<1>3. /\ hub' \in {hub, "panicked"} /\ send' \in [Clients -> [open : BOOLEAN, queued : 0 .. SendCap]]
      /\ got' \in [Clients -> [Events -> Nat]]
  BY <1>2, HandTypes
<1>4. spare' \in [Clients -> Nat]
  <2>1. spare[c] \in Nat /\ spare[c] + 1 \in Nat
    BY <1>1 DEF MapTypes
  <2> QED BY <1>1, <2>1 DEF DeliverOutsideLock, MapTypes
<1>5. subscriber'.to # {} => subscriber.to # {}
  BY SubscriberIs
<1>6. EventTypes'
  BY <1>1, <1>3, <1>5, SubscriberIs DEF EventTypes, DeliverOutsideLock, chans
<1>7. PumpTypes' /\ MapTypes' /\ RequestTypes'
  BY <1>1, <1>3, <1>4 DEF PumpTypes, MapTypes, RequestTypes, DeliverOutsideLock, pumps, chans
<1> QED BY <1>6, <1>7, TypesAreNext

LEMMA PumpsTypes == ASSUME HubTypes, NEW c \in Clients, ReadMessage(c) \/ Pumps(c) PROVE HubTypes'
<1>1. PumpTypes /\ MapTypes /\ RequestTypes /\ EventTypes
  BY TypesAre
<1>2. CASE ReadMessage(c) \/ ReaderLeaves(c) \/ WriterLeaves(c)
  <2>1. PumpTypes'
    BY <1>1, <1>2 DEF PumpTypes, ReadMessage, ReaderLeaves, WriterLeaves, Hangup
  <2>2. RequestTypes'
    BY <1>1, <1>2, RoomTypes DEF RequestTypes, ReadMessage, ReaderLeaves, WriterLeaves, chans
  <2>3. MapTypes' /\ EventTypes'
    BY <1>1, <1>2 DEF MapTypes, EventTypes, ReadMessage, ReaderLeaves, WriterLeaves, chans, history
  <2> QED BY <2>1, <2>2, <2>3, TypesAreNext
<1>3. CASE HandleMessage(c) \/ WriteMessage(c)
  <2>1. /\ hub' \in {hub, "panicked"}
        /\ \/ send' = send
           \/ send' = [send EXCEPT ![c] = [send[c] EXCEPT !.queued = @ + 1]] /\ Fits(c)
           \/ send' = [send EXCEPT ![c] = [send[c] EXCEPT !.queued = @ - 1]] /\ send[c].queued > 0
    <3>1. CASE HandleMessage(c)
      <4>1. CASE Fits(c)
        BY <3>1, <4>1 DEF HandleMessage
      <4>2. CASE ~Fits(c)
        <5>1. \/ send' = send
              \/ send' = [send EXCEPT ![c] = [send[c] EXCEPT !.queued = send[c].queued]]
          BY <3>1, <4>2 DEF HandleMessage
        <5>2. [send[c] EXCEPT !.queued = send[c].queued] = send[c]
          BY <1>1 DEF PumpTypes
        <5>3. [send EXCEPT ![c] = send[c]] = send
          BY <1>1 DEF PumpTypes
        <5>4. hub' \in {hub, "panicked"}
          BY <3>1 DEF HandleMessage
        <5> QED BY <5>1, <5>2, <5>3, <5>4
      <4> QED BY <4>1, <4>2
    <3>2. CASE WriteMessage(c)
      BY <3>2 DEF WriteMessage
    <3> QED BY <1>3, <3>1, <3>2
  <2>2. send' \in [Clients -> [open : BOOLEAN, queued : 0 .. SendCap]]
    BY <1>1, <2>1, FieldsKeep DEF PumpTypes
  <2>3. PumpTypes'
    BY <1>1, <1>3, <2>2 DEF PumpTypes, HandleMessage, WriteMessage, pumps
  <2>4. MapTypes' /\ RequestTypes' /\ EventTypes'
    BY <1>1, <1>3, <2>1 DEF MapTypes, RequestTypes, EventTypes, HandleMessage, WriteMessage, chans, history
  <2> QED BY <2>3, <2>4, TypesAreNext
<1> QED BY <1>2, <1>3 DEF Pumps

LEMMA HubTypesKept == HubTypes /\ [HubNext]_hvars => HubTypes'
<1> SUFFICES ASSUME HubTypes, [HubNext]_hvars PROVE HubTypes'
  OBVIOUS
<1>1. CASE Run
  BY <1>1, RegisterTypes, UnregisterTypes, RouteTypes DEF Run
<1>2. CASE CloseAll \/ BroadcastToUser \/ CollectClients
  BY <1>2, CloseAllTypes, BroadcastTypes, CollectTypes
<1>3. ASSUME NEW c \in Clients,
             \/ ServeWS(c) \/ UpgradeFails(c) \/ RegisterClient(c) \/ PeerCloses(c) \/ ReadMessage(c)
             \/ SpareUnregisters(c) \/ DeliverOutsideLock(c) \/ Pumps(c)
      PROVE  HubTypes'
  BY <1>3, ServeTypes, SpareTypes, DeliverTypes, PumpsTypes
<1>4. CASE UNCHANGED hvars
  <2>1. PumpTypes /\ MapTypes /\ RequestTypes /\ EventTypes
    BY TypesAre
  <2>2. PumpTypes' /\ MapTypes' /\ RequestTypes' /\ EventTypes'
    BY <1>4, <2>1 DEF PumpTypes, MapTypes, RequestTypes, EventTypes, hvars, chans, pumps, history
  <2> QED BY <2>2, TypesAreNext
<1> QED BY <1>1, <1>2, <1>3, <1>4 DEF HubNext

-------------------------------------------------------------------------------
(* The map of connections.                                                   *)

\* The map, the requests to register and the open channels stay; clients ask to
\* leave, pumps end and connections close.
Stays ==
  /\ UNCHANGED <<listed, register, overtaken>> /\ (hub' = "run" => hub = "run")
  /\ \A x \in Clients : send'[x].open = send[x].open
Leaves ==
  \A x \in Clients :
    /\ Began(x)' = Began(x)
    /\ x \in Range(unregister) => x \in Range(unregister')
    /\ x \in Range(unregister') \/ spare'[x] > 0 \/ x \in subscriber'.to \/ writer'[x] = "write" => Began(x)
    /\ reader'[x] = "done" => reader[x] = "done" \/ x \in Range(unregister')
    /\ conn[x] = "closed" => conn'[x] = "closed"
    /\ conn'[x] \in {"absent", "upgrade"} => conn[x] \in {"absent", "upgrade"}

LEMMA ElementsIn == ASSUME NEW S, NEW q \in Seq(S) PROVE Range(q) \subseteq S
BY DEF Range

LEMMA StaysPreserves == ASSUME HubTypes, MapInv, Stays, Leaves PROVE MapInv'
<1>1. RegistersOnce'
  <2>1. Range(register) \subseteq Clients
    BY TypesAre, ElementsIn DEF RequestTypes
  <2> QED BY <2>1 DEF MapInv, RegistersOnce, Stays, Leaves, Began
<1>2. OnlyBegan'
  BY DEF MapInv, OnlyBegan, Stays, Leaves, Began
<1>3. \A x \in Clients : (Here(x)' <=> Here(x)) /\ (Clean(x)' => Clean(x))
  BY DEF Stays, Here, Clean
<1>4. OpenIsHere'
  BY <1>3 DEF MapInv, OpenIsHere, Stays, Leaves
<1>5. GoneIsClosed'
  BY <1>3 DEF MapInv, GoneIsClosed, Leaves
<1>6. DoneHasAsked'
  BY <1>3 DEF MapInv, DoneHasAsked, Leaves
<1> QED BY <1>1, <1>2, <1>4, <1>5, <1>6 DEF MapInv

\* One client more may ask to leave.
LEMMA Asks ==
  ASSUME HubTypes, NEW c \in Clients, unregister' \in {unregister, Append(unregister, c)}
  PROVE  /\ \A x : x \in Range(unregister) => x \in Range(unregister')
         /\ \A x : x \in Range(unregister') => x \in Range(unregister) \/ x = c
         /\ unregister' = Append(unregister, c) => c \in Range(unregister')
<1>1. Range(Append(unregister, c)) = Range(unregister) \cup {c}
  BY TypesAre, AppendIs DEF RequestTypes
<1> QED BY <1>1

LEMMA ConnectingLeaves ==
  ASSUME HubTypes, MapInv, NEW c \in Clients, ServeWS(c) \/ UpgradeFails(c) \/ PeerCloses(c)
  PROVE  Stays /\ Leaves
<1>1. conn \in [Clients -> {"absent", "upgrade", "open", "closed"}]
  BY TypesAre DEF PumpTypes
<1>2. Stays
  BY DEF Stays, ServeWS, UpgradeFails, PeerCloses, chans, history
<1>3. \A x \in Clients : /\ conn[x] = "closed" => conn'[x] = "closed"
                         /\ conn'[x] \in {"absent", "upgrade"} => conn[x] \in {"absent", "upgrade"}
  BY <1>1 DEF ServeWS, UpgradeFails, PeerCloses, Hangup
<1>4. UNCHANGED <<spare, subscriber, reader, writer>>
  BY DEF ServeWS, UpgradeFails, PeerCloses, pumps
<1>5. \A x \in Clients : /\ x \in Range(unregister) => x \in Range(unregister')
                         /\ x \in Range(unregister') => x \in Range(unregister) \/ listed[x[1]] = x
  <2>1. CASE unregister' = unregister
    BY <2>1
  <2>2. CASE ServeWS(c) /\ unregister' # unregister
    <3>1. listed[c[1]] # NoClient /\ unregister' = Append(unregister, listed[c[1]])
      BY <2>2 DEF ServeWS
    <3>2. listed[c[1]] \in Clients /\ listed[c[1]][1] = c[1]
      BY <3>1, ClientHasDevice, TypesAre DEF MapTypes
    <3> QED BY <3>1, <3>2, Asks
  <2> QED BY <2>1, <2>2 DEF UpgradeFails, PeerCloses, chans
<1>6. Leaves
  BY <1>3, <1>4, <1>5 DEF Leaves, Began, MapInv, OnlyBegan
<1> QED BY <1>2, <1>6

LEMMA SpareLeaves ==
  ASSUME HubTypes, MapInv, NEW c \in Clients, SpareUnregisters(c) PROVE Stays /\ Leaves
<1>1. spare \in [Clients -> Nat]
  BY TypesAre DEF MapTypes
<1>2. Stays
  BY DEF Stays, SpareUnregisters, history
<1>3. UNCHANGED <<conn, subscriber, reader, writer>> /\ unregister' = Append(unregister, c) /\ spare[c] > 0
  BY DEF SpareUnregisters, pumps
<1>4. \A x \in Clients : spare'[x] > 0 => spare[x] > 0
  BY <1>1 DEF SpareUnregisters
<1>5. Leaves
  BY <1>3, <1>4, Asks DEF Leaves, Began, MapInv, OnlyBegan
<1> QED BY <1>2, <1>5

LEMMA EventsLeave ==
  ASSUME HubTypes, MapInv,
         RouteBroadcast \/ (\E d \in HubDevices : RouteToDevice(d)) \/ BroadcastToUser \/ CollectClients
  PROVE  Stays /\ Leaves
<1>1. UNCHANGED <<listed, register, overtaken, conn, reader, writer>>
  BY DEF RouteBroadcast, RouteToDevice, BroadcastToUser, CollectClients, pumps, chans, history
<1>2. CASE RouteBroadcast
  <2>1. Listed \subseteq Clients /\ \A x \in Clients : x \in Listed => listed[x[1]] = x
    BY ListedIs
  <2>2. Stays
    BY <1>1, <1>2, <2>1, HandTypes DEF Stays, RouteBroadcast
  <2>3. UNCHANGED <<unregister, subscriber>> /\ \A x \in Clients : spare'[x] > 0 => spare[x] > 0 \/ listed[x[1]] = x
    BY <1>2, <2>1 DEF RouteBroadcast
  <2> QED BY <1>1, <2>2, <2>3 DEF Leaves, Began, MapInv, OnlyBegan
<1>3. ASSUME NEW d \in HubDevices, RouteToDevice(d) PROVE Stays /\ Leaves
  <2>1. listed[d] \in Clients /\ listed[listed[d][1]] = listed[d] /\ hub = "run"
    BY <1>3, TypesAre DEF MapTypes, RouteToDevice
  <2>2. Stays
    <3>1. CASE Hand(Head(broadcast), {listed[d]})
      BY <1>1, <2>1, <3>1, HandTypes DEF Stays
    <3>2. CASE send' = send
      BY <1>1, <2>1, <3>2 DEF Stays
    <3> QED BY <1>3, <3>1, <3>2 DEF RouteToDevice
  <2>3. UNCHANGED <<spare, subscriber>> /\ unregister' \in {unregister, Append(unregister, listed[d])}
    BY <1>3 DEF RouteToDevice
  <2> QED BY <1>1, <2>1, <2>2, <2>3, Asks DEF Leaves, Began, MapInv, OnlyBegan
<1>4. CASE BroadcastToUser \/ CollectClients
  <2>1. UNCHANGED <<unregister, spare, hub, send>>
    BY <1>4 DEF BroadcastToUser, CollectClients, chans
  <2>2. \A x \in Clients : x \in subscriber'.to => x \in subscriber.to \/ listed[x[1]] = x
    <3>1. CASE BroadcastToUser
      BY <3>1 DEF BroadcastToUser
    <3>2. CASE CollectClients
      <4>1. subscriber' = NoMessage \/ subscriber' = [event |-> Head(redis), to |-> Listed]
        BY <3>2 DEF CollectClients
      <4> QED BY <4>1, ListedIs DEF NoMessage
    <3> QED BY <1>4, <3>1, <3>2
  <2> QED BY <1>1, <2>1, <2>2 DEF Stays, Leaves, Began, MapInv, OnlyBegan
<1> QED BY <1>2, <1>3, <1>4

LEMMA DeliveryLeaves ==
  ASSUME HubTypes, MapInv, NEW c \in Clients, DeliverOutsideLock(c) PROVE Stays /\ Leaves
<1>1. UNCHANGED <<listed, register, unregister, overtaken, conn, reader, writer>> /\ c \in subscriber.to
      /\ Hand(subscriber.event, {c})
  BY DEF DeliverOutsideLock, pumps, chans
<1>2. Stays
  <2>1. hub' \in {hub, "panicked"} /\ \A x \in Clients : send'[x].open = send[x].open
    BY <1>1, HandTypes
  <2> QED BY <1>1, <2>1 DEF Stays
<1>3. spare \in [Clients -> Nat]
  BY TypesAre DEF MapTypes
<1>4. \A x \in Clients : spare'[x] > 0 => spare[x] > 0 \/ x = c
  BY <1>3 DEF DeliverOutsideLock
<1>5. Leaves
  BY <1>1, <1>4, SubscriberIs DEF Leaves, Began, MapInv, OnlyBegan
<1> QED BY <1>2, <1>5

LEMMA PumpsLeave ==
  ASSUME HubTypes, MapInv, NEW c \in Clients, ReadMessage(c) \/ Pumps(c) PROVE Stays /\ Leaves
<1>1. PumpTypes
  BY TypesAre
<1>2. UNCHANGED <<listed, register, overtaken, spare, subscriber>>
  BY DEF ReadMessage, Pumps, HandleMessage, ReaderLeaves, WriteMessage, WriterLeaves, chans, history
<1>3. Stays
  <2>1. hub' \in {hub, "panicked"}
    BY DEF ReadMessage, Pumps, HandleMessage, ReaderLeaves, WriteMessage, WriterLeaves
  <2>2. \A x \in Clients : send'[x].open = send[x].open
    <3>1. CASE send' = send
      BY <3>1
    <3>2. CASE send' # send
      <4>1. PICK n \in Nat : send' = [send EXCEPT ![c] = [send[c] EXCEPT !.queued = n]]
        <5>1. send[c].queued \in Nat /\ send[c].queued + 1 \in Nat /\ (send[c].queued > 0 => send[c].queued - 1 \in Nat)
          BY <1>1, HubAssumption DEF PumpTypes
        <5> QED BY <3>2, <5>1 DEF ReadMessage, Pumps, HandleMessage, ReaderLeaves, WriteMessage, WriterLeaves
      <4>2. [send[c] EXCEPT !.queued = n].open = send[c].open
        BY <1>1 DEF PumpTypes
      <4> QED BY <1>1, <4>1, <4>2 DEF PumpTypes
    <3> QED BY <3>1, <3>2
  <2> QED BY <1>2, <2>1, <2>2 DEF Stays
<1>4. \A x \in Clients : /\ conn[x] = "closed" => conn'[x] = "closed"
                         /\ conn'[x] \in {"absent", "upgrade"} => conn[x] \in {"absent", "upgrade"}
  BY <1>1 DEF PumpTypes, ReadMessage, Pumps, HandleMessage, ReaderLeaves, WriteMessage, WriterLeaves, Hangup
<1>5. CASE ReadMessage(c) \/ HandleMessage(c) \/ WriteMessage(c)
  <2>1. UNCHANGED <<unregister, writer>>
        /\ \A x \in Clients : reader'[x] = reader[x] \/ (reader[x] # "none" /\ reader'[x] \in {"read", "handle"})
    BY <1>1, <1>5 DEF PumpTypes, ReadMessage, HandleMessage, WriteMessage, chans, pumps
  <2> QED BY <1>2, <1>3, <1>4, <2>1 DEF Leaves, Began, MapInv, OnlyBegan
<1>6. CASE ReaderLeaves(c)
  <2>1. unregister' = Append(unregister, c) /\ writer' = writer /\ reader[c] = "read"
        /\ \A x \in Clients : reader'[x] = IF x = c THEN "done" ELSE reader[x]
    BY <1>1, <1>6 DEF PumpTypes, ReaderLeaves
  <2> QED BY <1>2, <1>3, <1>4, <2>1, Asks DEF Leaves, Began, MapInv, OnlyBegan
<1>7. CASE WriterLeaves(c)
  <2>1. unregister' \in {unregister, Append(unregister, c)} /\ reader' = reader /\ writer[c] = "write"
        /\ \A x \in Clients : writer'[x] = "write" => writer[x] = "write"
    BY <1>1, <1>7 DEF PumpTypes, WriterLeaves
  <2> QED BY <1>2, <1>3, <1>4, <2>1, Asks DEF Leaves, Began, MapInv, OnlyBegan
<1> QED BY <1>5, <1>6, <1>7 DEF Pumps

LEMMA RegisterClientKeeps == ASSUME HubTypes, MapInv, NEW c \in Clients, RegisterClient(c) PROVE MapInv'
<1>1. PumpTypes /\ RequestTypes
  BY TypesAre
<1>2. ~Began(c) /\ c \notin Range(register) /\ listed[c[1]] # c
  BY DEF RegisterClient, MapInv, OnlyBegan, RegistersOnce
<1>3. /\ Range(register') = Range(register) \cup {c} /\ Once(register')
  BY <1>1, <1>2, AppendIs DEF RequestTypes, RegisterClient, MapInv, RegistersOnce
<1>4. /\ \A x \in Clients : /\ conn'[x] = IF x = c THEN "open" ELSE conn[x]
                            /\ reader'[x] = IF x = c THEN "read" ELSE reader[x]
                            /\ writer'[x] = IF x = c THEN "write" ELSE writer[x]
      /\ UNCHANGED <<hub, listed, unregister, spare, send, subscriber, overtaken>>
  BY <1>1 DEF PumpTypes, RegisterClient, history
<1>5. RegistersOnce'
  <2>1. Range(register) \subseteq Clients
    BY <1>1, ElementsIn DEF RequestTypes
  <2> QED BY <1>2, <1>3, <1>4, <2>1 DEF MapInv, RegistersOnce, Began
<1>6. OnlyBegan'
  BY <1>4 DEF MapInv, OnlyBegan, Began
<1>7. \A x \in Clients : /\ Clean(x)' <=> Clean(x)
                         /\ Here(x)' <=> Here(x) \/ x = c
                         /\ Began(x)' <=> Began(x) \/ x = c
  BY <1>3, <1>4 DEF Clean, Here, Began
<1>8. OpenIsHere'
  BY <1>2, <1>4, <1>7 DEF MapInv, OpenIsHere
<1>9. GoneIsClosed' /\ DoneHasAsked'
  BY <1>4, <1>7 DEF MapInv, GoneIsClosed, DoneHasAsked
<1> QED BY <1>5, <1>6, <1>8, <1>9 DEF MapInv

LEMMA RegisterKeeps == ASSUME HubTypes, MapInv, RegisterStep PROVE MapInv'
<1>1. PumpTypes /\ RequestTypes /\ MapTypes
  BY TypesAre
<1> DEFINE c == Head(register)  old == listed[c[1]]
<1>2. /\ c \in Clients /\ c[1] \in HubDevices /\ Range(register) = Range(register') \cup {c}
      /\ Once(register') /\ c \notin Range(register')
  BY <1>1, RoomTypes, TailIs, ClientHasDevice DEF RequestTypes, RegisterStep, MapInv, RegistersOnce
<1>3. Began(c) /\ old # c
  BY <1>2 DEF MapInv, RegistersOnce
<1>4. old # NoClient => old \in Clients /\ old[1] = c[1] /\ old \notin Range(register)
  BY <1>1, <1>2 DEF MapTypes, MapInv, RegistersOnce
<1>5. /\ \A d \in HubDevices : listed'[d] = IF d = c[1] THEN c ELSE listed[d]
      /\ UNCHANGED <<unregister, spare, reader, writer, subscriber, overtaken>>
      /\ hub = "run"
  BY <1>1, <1>2 DEF MapTypes, RegisterStep, pumps, history
<1>6. /\ \A x \in Clients : conn'[x] = IF x = old THEN "closed" ELSE conn[x]
      /\ \A x \in Clients : IF x = old THEN ~send'[x].open ELSE send'[x] = send[x]
      /\ hub' \in {"run", "panicked"}
  <2>1. CASE old = NoClient
    BY <1>5, <2>1, ClientHasDevice DEF RegisterStep
  <2>2. CASE old # NoClient
    <3>1. Close(old) /\ Hangup(old)
      BY <2>2 DEF RegisterStep
    <3>2. \A x \in Clients : conn'[x] = IF x = old THEN "closed" ELSE conn[x]
      BY <1>1, <1>4, <2>2, <3>1 DEF Hangup, PumpTypes
    <3> QED BY <1>4, <1>5, <2>2, <3>1, <3>2, CloseTypes
  <2> QED BY <2>1, <2>2
<1>7. \A x \in Clients : x[1] \in HubDevices /\ (x[1] = c[1] /\ listed[x[1]] = x <=> x = old)
  BY <1>4, ClientHasDevice
<1> HIDE DEF c, old
<1>8. RegistersOnce'
  <2>1. Range(register) \subseteq Clients
    BY <1>1, ElementsIn DEF RequestTypes
  <2>2. ASSUME NEW x \in Range(register') PROVE Began(x)' /\ listed'[x[1]] # x
    <3>1. x \in Clients /\ x \in Range(register) /\ x # c /\ Began(x) /\ listed[x[1]] # x
      BY <1>2, <2>1 DEF MapInv, RegistersOnce
    <3> QED BY <1>5, <1>7, <3>1 DEF Began
  <2> QED BY <1>2, <2>2 DEF RegistersOnce
<1>9. \A x \in Clients : /\ listed'[x[1]] = x <=> x = c \/ (x # old /\ listed[x[1]] = x)
                         /\ Clean(x)' => Clean(x)
                         /\ Began(x)' <=> Began(x)
  BY <1>2, <1>3, <1>4, <1>5, <1>7 DEF Clean, Began
<1>10. \A x \in Clients : Here(x)' <=> Here(x) /\ x # old
  BY <1>2, <1>3, <1>4, <1>9, ClientHasDevice DEF Here
<1>11. OnlyBegan'
  BY <1>3, <1>5, <1>6, <1>9 DEF MapInv, OnlyBegan
<1>12. \A x \in Clients : x = old => Began(x)
  BY <1>7 DEF MapInv, OnlyBegan
<1>13. OpenIsHere'
  BY <1>6, <1>9, <1>10, <1>12 DEF MapInv, OpenIsHere
<1>14. GoneIsClosed' /\ DoneHasAsked'
  BY <1>5, <1>6, <1>9, <1>10 DEF MapInv, GoneIsClosed, DoneHasAsked
<1> QED BY <1>8, <1>11, <1>13, <1>14 DEF MapInv

LEMMA UnregisterKeeps == ASSUME HubTypes, MapInv, UnregisterStep PROVE MapInv'
<1>1. PumpTypes /\ RequestTypes /\ MapTypes
  BY TypesAre
<1>0. PICK c \in Clients : c = Head(unregister)
  BY RoomTypes DEF UnregisterStep
<1>2. /\ c \in Clients /\ c[1] \in HubDevices /\ Range(unregister) = Range(unregister') \cup {c} /\ Began(c)
  BY <1>0, <1>1, TailIs, ClientHasDevice DEF RequestTypes, UnregisterStep, MapInv, OnlyBegan
<1>3. /\ \A d \in HubDevices : listed'[d] = IF d = c[1] THEN NoClient ELSE listed[d]
      /\ hub = "run" /\ hub' \in {"run", "panicked"} /\ UNCHANGED <<register, spare, reader, writer, subscriber>>
      /\ \A x \in Clients : conn'[x] = IF x = c THEN "closed" ELSE conn[x]
      /\ overtaken' = overtaken \cup ({c} \cap Range(register))
      /\ \A x \in Clients : x # c => send'[x] = send[x]
      /\ IF listed[c[1]] = NoClient THEN send' = send ELSE ~send'[c].open /\ (hub' = "run" => send[c].open)
  <2>1. hub = "run" /\ UNCHANGED <<register, spare, reader, writer, subscriber>> /\ Hangup(c)
        /\ overtaken' = overtaken \cup ({c} \cap Range(register))
    BY <1>0 DEF UnregisterStep, pumps
  <2>2. \A x \in Clients : conn'[x] = IF x = c THEN "closed" ELSE conn[x]
    BY <1>1, <1>2, <2>1 DEF Hangup, PumpTypes
  <2>3. CASE listed[c[1]] = NoClient
    BY <1>0, <2>1, <2>2, <2>3 DEF UnregisterStep
  <2>4. CASE listed[c[1]] # NoClient
    <3>1. listed' = [listed EXCEPT ![c[1]] = NoClient] /\ Close(c)
      BY <1>0, <2>4 DEF UnregisterStep
    <3>2. \A d \in HubDevices : listed'[d] = IF d = c[1] THEN NoClient ELSE listed[d]
      BY <1>1, <1>2, <3>1 DEF MapTypes
    <3> QED BY <1>2, <2>1, <2>2, <2>4, <3>1, <3>2, CloseTypes
  <2> QED BY <2>3, <2>4
<1>4. \A x \in Clients : x[1] \in HubDevices /\ x # NoClient
  BY ClientHasDevice
<1>5. \A x \in Clients : /\ listed'[x[1]] = x <=> x[1] # c[1] /\ listed[x[1]] = x
                         /\ Clean(x)' => Clean(x) /\ (x[1] = c[1] => c \notin Range(register))
                         /\ Began(x)' <=> Began(x)
  BY <1>3, <1>4 DEF Clean, Began
\* Only a client that is in the map closes its channel without a panic.
<1>6. Clean(c)' => listed[c[1]] \in {c, NoClient}
  <2> SUFFICES ASSUME Clean(c)', listed[c[1]] # NoClient PROVE listed[c[1]] = c
    OBVIOUS
  <2>1. send[c].open /\ Clean(c) /\ c \notin Range(register)
    BY <1>2, <1>3, <1>5 DEF Clean
  <2> QED BY <1>2, <2>1 DEF MapInv, OpenIsHere, Here
<1>7. \A x \in Clients : x[1] = c[1] /\ Clean(x)' => Clean(c)'
  BY DEF Clean
<1>8. \A x \in Clients : Clean(x)' => (Here(x)' <=> Here(x) /\ ~(x = c))
  <2> SUFFICES ASSUME NEW x \in Clients, Clean(x)' PROVE Here(x)' <=> Here(x) /\ x # c
    OBVIOUS
  <2>1. CASE x[1] # c[1]
    BY <1>3, <1>5, <2>1 DEF Here
  <2>2. CASE x[1] = c[1]
    <3>1. listed[c[1]] \in {c, NoClient} /\ c \notin Range(register)
      BY <1>5, <1>6, <1>7, <2>2
    <3>2. listed'[x[1]] # x /\ (listed[x[1]] = x => x = c)
      BY <1>4, <1>5, <2>2, <3>1
    <3> QED BY <1>3, <3>1, <3>2 DEF Here
  <2> QED BY <2>1, <2>2
<1>9. RegistersOnce'
  <2>1. Range(register) \subseteq Clients
    BY <1>1, ElementsIn DEF RequestTypes
  <2> QED BY <1>3, <1>5, <2>1 DEF MapInv, RegistersOnce
<1>10. OnlyBegan'
  BY <1>2, <1>3, <1>5 DEF MapInv, OnlyBegan
<1>11. OpenIsHere'
  <2> SUFFICES ASSUME NEW x \in Clients, Clean(x)' PROVE send'[x].open <=> ~Began(x)' \/ Here(x)'
    BY DEF OpenIsHere
  <2>1. CASE x # c
    BY <1>3, <1>5, <1>8, <2>1 DEF MapInv, OpenIsHere
  <2>2. CASE x = c
    <3>1. Clean(c) /\ c \notin Range(register) /\ Began(c)' /\ ~Here(c)'
      BY <1>2, <1>5, <1>8, <2>2
    <3>2. CASE listed[c[1]] = NoClient
      <4>1. ~send[c].open
        BY <1>2, <1>4, <3>1, <3>2 DEF MapInv, OpenIsHere, Here
      <4> QED BY <1>3, <2>2, <3>1, <3>2, <4>1
    <3>3. CASE listed[c[1]] # NoClient
      BY <1>3, <2>2, <3>1, <3>3
    <3> QED BY <3>2, <3>3
  <2> QED BY <2>1, <2>2
<1>12. GoneIsClosed'
  BY <1>3, <1>5, <1>8 DEF MapInv, GoneIsClosed
<1>13. DoneHasAsked'
  BY <1>2, <1>3, <1>5, <1>8 DEF MapInv, DoneHasAsked
<1> QED BY <1>9, <1>10, <1>11, <1>12, <1>13 DEF MapInv

LEMMA CloseAllKeeps == ASSUME HubTypes, MapInv, CloseAll PROVE MapInv'
<1>1. /\ hub' = "stopped" /\ UNCHANGED <<register, unregister, spare, reader, writer, subscriber>>
      /\ \A d \in HubDevices : listed'[d] = NoClient
      /\ \A x \in Clients : conn'[x] \in {"closed", conn[x]}
  BY DEF CloseAll, chans, pumps
<1>2. \A x \in Clients : listed'[x[1]] # x /\ ~Clean(x)'
  BY <1>1, ClientHasDevice DEF Clean
<1>3. Range(register) \subseteq Clients
  BY TypesAre, ElementsIn DEF RequestTypes
<1>4. RegistersOnce' /\ OnlyBegan'
  BY <1>1, <1>2, <1>3 DEF MapInv, RegistersOnce, OnlyBegan, Began
<1> QED BY <1>2, <1>4 DEF MapInv, OpenIsHere, GoneIsClosed, DoneHasAsked

LEMMA MapKept == HubTypes /\ MapInv /\ [HubNext]_hvars => MapInv'
<1> SUFFICES ASSUME HubTypes, MapInv, [HubNext]_hvars PROVE MapInv'
  OBVIOUS
<1>1. CASE Run \/ CloseAll \/ BroadcastToUser \/ CollectClients
  BY <1>1, RegisterKeeps, UnregisterKeeps, CloseAllKeeps, EventsLeave, StaysPreserves DEF Run
<1>2. ASSUME NEW c \in Clients,
             \/ ServeWS(c) \/ UpgradeFails(c) \/ RegisterClient(c) \/ PeerCloses(c) \/ ReadMessage(c)
             \/ SpareUnregisters(c) \/ DeliverOutsideLock(c) \/ Pumps(c)
      PROVE  MapInv'
  BY <1>2, ConnectingLeaves, RegisterClientKeeps, SpareLeaves, DeliveryLeaves, PumpsLeave, StaysPreserves
<1>3. CASE UNCHANGED hvars
  BY <1>3 DEF hvars, chans, pumps, history, MapInv, RegistersOnce, OnlyBegan, OpenIsHere, GoneIsClosed, DoneHasAsked,
              Began, Here, Clean
<1> QED BY <1>1, <1>2, <1>3 DEF HubNext

-------------------------------------------------------------------------------
(* Events on their way.                                                      *)

LEMMA EventsQuiet ==
  ASSUME EventInv, UNCHANGED <<broadcast, redis, subscriber, fresh, got>> PROVE EventInv'
BY DEF EventInv, FreshIsNowhere, RedisOnce, ShareOfTwo, Local, Remote, Delivering

\* An event leaves the hub's channel; a client is handed it once at most.
LEMMA LocalHanded ==
  ASSUME HubTypes, EventInv, broadcast # <<>>, broadcast' = Tail(broadcast),
         UNCHANGED <<redis, subscriber, fresh>>,
         \A x \in Clients, f \in Events :
           got'[x][f] = got[x][f] \/ (f = Head(broadcast) /\ got'[x][f] = got[x][f] + 1)
  PROVE  EventInv'
<1>1. EventTypes
  BY TypesAre
<1> DEFINE e == Head(broadcast)
<1>2. /\ e \in Events /\ Range(broadcast) = Range(broadcast') \cup {e}
      /\ Once(broadcast') /\ e \notin Range(broadcast')
  BY <1>1, TailIs DEF EventTypes, EventInv
<1> HIDE DEF e
<1>3. FreshIsNowhere' /\ RedisOnce' /\ Once(redis')
  <2>1. \A f \in fresh : f # e /\ f \in Events
    BY <1>1, <1>2 DEF EventInv, FreshIsNowhere, EventTypes
  <2> QED BY <1>2, <2>1 DEF EventInv, FreshIsNowhere, RedisOnce, Delivering, e
<1>4. ShareOfTwo'
  <2> SUFFICES ASSUME NEW x \in Clients, NEW f \in Events PROVE got'[x][f] + Local(f)' + Remote(x, f)' <= 2
    BY DEF ShareOfTwo
  <2>1. Remote(x, f)' = Remote(x, f) /\ Remote(x, f) \in 0 .. 1
    BY DEF Remote
  <2>2. got[x][f] \in Nat /\ got[x][f] + Local(f) + Remote(x, f) <= 2
    BY <1>1 DEF EventTypes, EventInv, ShareOfTwo
  <2>3. CASE f = e
    <3>1. Local(f) = 1 /\ Local(f)' = 0
      BY <1>2, <2>3 DEF Local
    <3>2. got'[x][f] \in {got[x][f], got[x][f] + 1}
      OBVIOUS
    <3> QED BY <2>1, <2>2, <3>1, <3>2
  <2>4. CASE f # e
    <3>1. Local(f)' = Local(f)
      BY <1>2, <2>4 DEF Local
    <3>2. got'[x][f] = got[x][f]
      BY <2>4 DEF e
    <3> QED BY <2>1, <2>2, <3>1, <3>2
  <2> QED BY <2>3, <2>4
<1> QED BY <1>2, <1>3, <1>4 DEF EventInv

LEMMA RouteKeepsEvents ==
  ASSUME HubTypes, EventInv, RouteBroadcast \/ (\E d \in HubDevices : RouteToDevice(d))
  PROVE  EventInv'
<1>1. broadcast # <<>> /\ broadcast' = Tail(broadcast) /\ UNCHANGED <<redis, subscriber, fresh>>
  BY DEF RouteBroadcast, RouteToDevice
<1>2. ASSUME NEW to \in SUBSET Clients, Hand(Head(broadcast), to) PROVE EventInv'
  <2>1. \A x \in Clients, f \in Events :
          got'[x][f] = got[x][f] \/ (f = Head(broadcast) /\ got'[x][f] = got[x][f] + 1)
    BY <1>2, HandTypes
  <2> QED BY <1>1, <2>1, LocalHanded
<1>3. CASE RouteBroadcast
  BY <1>2, <1>3, ListedIs DEF RouteBroadcast
<1>4. ASSUME NEW d \in HubDevices, RouteToDevice(d) PROVE EventInv'
  <2>1. listed[d] \in Clients
    BY <1>4, TypesAre DEF RouteToDevice, MapTypes
  <2>2. CASE Hand(Head(broadcast), {listed[d]})
    BY <1>2, <2>1, <2>2
  <2>3. CASE got' = got
    BY <1>1, <2>3, LocalHanded
  <2> QED BY <1>4, <2>2, <2>3 DEF RouteToDevice
<1> QED BY <1>3, <1>4

LEMMA BroadcastKeepsEvents == ASSUME HubTypes, EventInv, BroadcastToUser PROVE EventInv'
<1>1. EventTypes
  BY TypesAre
<1>2. PICK e \in fresh : /\ fresh' = fresh \ {e}
                         /\ broadcast' \in {broadcast, Append(broadcast, e)} /\ redis' \in {redis, Append(redis, e)}
  BY DEF BroadcastToUser
<1>3. UNCHANGED <<subscriber, got>>
  BY DEF BroadcastToUser, history
<1>4. e \in Events /\ e \notin Range(broadcast) /\ e \notin Range(redis) /\ ~Delivering(e) /\ \A x \in Clients : got[x][e] = 0
  BY <1>1, <1>2 DEF EventTypes, EventInv, FreshIsNowhere
<1>5. Once(broadcast') /\ \A f : f \in Range(broadcast') => f \in Range(broadcast) \/ f = e
  <2>1. broadcast \in Seq(Events) /\ Once(broadcast)
    BY <1>1 DEF EventTypes, EventInv
  <2>2. Once(Append(broadcast, e)) /\ Range(Append(broadcast, e)) = Range(broadcast) \cup {e}
    BY <1>4, <2>1, AppendIs
  <2>3. CASE broadcast' = broadcast
    BY <2>1, <2>3
  <2>4. CASE broadcast' = Append(broadcast, e)
    BY <2>2, <2>4
  <2> QED BY <1>2, <2>3, <2>4
<1>6. Once(redis') /\ \A f : f \in Range(redis') => f \in Range(redis) \/ f = e
  <2>1. redis \in Seq(Events) /\ Once(redis)
    BY <1>1 DEF EventTypes, EventInv
  <2>2. Once(Append(redis, e)) /\ Range(Append(redis, e)) = Range(redis) \cup {e}
    BY <1>4, <2>1, AppendIs
  <2>3. CASE redis' = redis
    BY <2>1, <2>3
  <2>4. CASE redis' = Append(redis, e)
    BY <2>2, <2>4
  <2> QED BY <1>2, <2>3, <2>4
<1>7. FreshIsNowhere' /\ RedisOnce'
  BY <1>2, <1>3, <1>4, <1>5, <1>6 DEF EventInv, FreshIsNowhere, RedisOnce, Delivering
<1>8. ShareOfTwo'
  <2> SUFFICES ASSUME NEW x \in Clients, NEW f \in Events PROVE got'[x][f] + Local(f)' + Remote(x, f)' <= 2
    BY DEF ShareOfTwo
  <2>1. got[x][f] \in Nat /\ got[x][f] + Local(f) + Remote(x, f) <= 2 /\ Local(f)' \in 0 .. 1 /\ Remote(x, f)' \in 0 .. 1
    BY <1>1 DEF EventTypes, EventInv, ShareOfTwo, Local, Remote
  <2>2. CASE f = e
    BY <1>3, <1>4, <2>1, <2>2
  <2>3. CASE f # e
    <3>1. Local(f)' <= Local(f) /\ Remote(x, f)' <= Remote(x, f) /\ Local(f) \in 0 .. 1 /\ Remote(x, f) \in 0 .. 1
      BY <1>3, <1>5, <1>6, <2>3 DEF Local, Remote
    <3> QED BY <1>3, <2>1, <3>1
  <2> QED BY <2>2, <2>3
<1> QED BY <1>5, <1>6, <1>7, <1>8 DEF EventInv

LEMMA CollectKeepsEvents == ASSUME HubTypes, EventInv, CollectClients PROVE EventInv'
<1>1. EventTypes
  BY TypesAre
<1>2. subscriber.to = {} /\ redis # <<>> /\ redis' = Tail(redis) /\ UNCHANGED <<broadcast, fresh, got>>
  BY DEF CollectClients, chans, history
<1>3. PICK e \in Events : e = Head(redis)
  BY <1>1, <1>2, TailIs DEF EventTypes
<1>4. Range(redis) = Range(redis') \cup {e} /\ Once(redis') /\ e \notin Range(redis')
  BY <1>1, <1>2, <1>3, TailIs DEF EventTypes, EventInv
<1>5. subscriber'.to = {} \/ subscriber'.event = e
  BY <1>3 DEF CollectClients, NoMessage
<1>6. FreshIsNowhere' /\ RedisOnce'
  BY <1>2, <1>4, <1>5 DEF EventInv, FreshIsNowhere, RedisOnce, Delivering
<1>7. ShareOfTwo'
  <2> SUFFICES ASSUME NEW x \in Clients, NEW f \in Events PROVE got'[x][f] + Local(f)' + Remote(x, f)' <= 2
    BY DEF ShareOfTwo
  <2>1. got[x][f] \in Nat /\ got[x][f] + Local(f) + Remote(x, f) <= 2 /\ Local(f) \in 0 .. 1
    BY <1>1 DEF EventTypes, EventInv, ShareOfTwo, Local
  <2>2. Remote(x, f)' <= Remote(x, f) /\ Remote(x, f) \in 0 .. 1 /\ Remote(x, f)' \in 0 .. 1
    BY <1>2, <1>4, <1>5 DEF Remote
  <2>3. Local(f)' = Local(f) /\ got'[x][f] = got[x][f]
    BY <1>2 DEF Local
  <2> QED BY <2>1, <2>2, <2>3
<1> QED BY <1>2, <1>4, <1>6, <1>7 DEF EventInv

LEMMA DeliverKeepsEvents == ASSUME HubTypes, EventInv, NEW c \in Clients, DeliverOutsideLock(c) PROVE EventInv'
<1>1. EventTypes
  BY TypesAre
<1>2. /\ c \in subscriber.to /\ UNCHANGED <<broadcast, redis, fresh>>
      /\ \A x \in Clients, f \in Events :
           got'[x][f] = got[x][f] \/ (f = subscriber.event /\ x = c /\ got'[x][f] = got[x][f] + 1)
  <2>1. Hand(subscriber.event, {c}) /\ c \in subscriber.to /\ UNCHANGED <<broadcast, redis, fresh>>
    BY DEF DeliverOutsideLock, chans
  <2> QED BY <2>1, HandTypes
<1>3. subscriber'.to = subscriber.to \ {c} /\ (subscriber'.to # {} => subscriber'.event = subscriber.event)
  BY SubscriberIs
<1>4. \A f : Delivering(f)' => Delivering(f)
  BY <1>3 DEF Delivering
<1>5. FreshIsNowhere' /\ RedisOnce'
  <2>1. \A f \in fresh : f # subscriber.event /\ f \in Events
    BY <1>1, <1>2 DEF EventInv, FreshIsNowhere, Delivering, EventTypes
  <2> QED BY <1>2, <1>4, <2>1 DEF EventInv, FreshIsNowhere, RedisOnce
<1>6. ShareOfTwo'
  <2> SUFFICES ASSUME NEW x \in Clients, NEW f \in Events PROVE got'[x][f] + Local(f)' + Remote(x, f)' <= 2
    BY DEF ShareOfTwo
  <2>1. got[x][f] \in Nat /\ got[x][f] + Local(f) + Remote(x, f) <= 2 /\ Local(f) \in 0 .. 1 /\ Local(f)' = Local(f)
    BY <1>1, <1>2 DEF EventTypes, EventInv, ShareOfTwo, Local
  <2>2. CASE f = subscriber.event /\ x = c
    <3>1. Remote(x, f) = 1 /\ Remote(x, f)' = 0
      BY <1>2, <1>3, <2>2 DEF Remote, EventInv, RedisOnce, Delivering
    <3>2. got'[x][f] \in {got[x][f], got[x][f] + 1}
      BY <1>2
    <3> QED BY <2>1, <3>1, <3>2
  <2>3. CASE ~(f = subscriber.event /\ x = c)
    <3>1. Remote(x, f)' <= Remote(x, f) /\ Remote(x, f) \in 0 .. 1 /\ Remote(x, f)' \in 0 .. 1
      BY <1>2, <1>3 DEF Remote
    <3>2. got'[x][f] = got[x][f]
      BY <1>2, <2>3
    <3> QED BY <2>1, <3>1, <3>2
  <2> QED BY <2>2, <2>3
<1> QED BY <1>2, <1>5, <1>6 DEF EventInv

LEMMA EventsKept == HubTypes /\ EventInv /\ [HubNext]_hvars => EventInv'
<1> SUFFICES ASSUME HubTypes, EventInv, [HubNext]_hvars PROVE EventInv'
  OBVIOUS
<1>1. CASE Run
  <2>1. CASE RegisterStep \/ UnregisterStep
    BY <2>1, EventsQuiet DEF RegisterStep, UnregisterStep, history
  <2> QED BY <1>1, <2>1, RouteKeepsEvents DEF Run
<1>2. CASE CloseAll
  BY <1>2, EventsQuiet DEF CloseAll, chans, history
<1>3. ASSUME NEW c \in Clients,
             \/ ServeWS(c) \/ UpgradeFails(c) \/ RegisterClient(c) \/ PeerCloses(c) \/ ReadMessage(c)
             \/ SpareUnregisters(c) \/ Pumps(c)
      PROVE  EventInv'
  <2>1. UNCHANGED <<broadcast, redis, subscriber, fresh, got>>
    BY <1>3 DEF ServeWS, UpgradeFails, RegisterClient, PeerCloses, ReadMessage, SpareUnregisters, Pumps,
                HandleMessage, ReaderLeaves, WriteMessage, WriterLeaves, chans, history
  <2> QED BY <2>1, EventsQuiet
<1>4. CASE UNCHANGED hvars
  BY <1>4, EventsQuiet DEF hvars, chans, history
<1> QED BY <1>1, <1>2, <1>3, <1>4, BroadcastKeepsEvents, CollectKeepsEvents, DeliverKeepsEvents DEF HubNext

LEMMA HInvIsSound == HInv => HubInv
<1> SUFFICES ASSUME HInv PROVE MapIsAccurate /\ AtMostTwice
  BY DEF HInv, HubTypes, HubInv
<1>1. PumpTypes /\ RequestTypes /\ EventTypes
  BY TypesAre DEF HInv
<1>2. \A c \in Clients : /\ Contains(register, c) <=> c \in Range(register)
                         /\ Contains(unregister, c) <=> c \in Range(unregister)
  BY <1>1 DEF RequestTypes, Contains, Range
<1>3. MapIsAccurate
  <2> SUFFICES ASSUME NEW c \in Clients, Clean(c)
               PROVE  (c \in Listed => send[c].open) /\ ~Ghost(c) /\ (Served(c) => c \in Listed)
    BY DEF MapIsAccurate, Clean
  <2>1. c \in Listed <=> listed[c[1]] = c
    BY ListedIs DEF HInv
  <2>2. c \in Listed => send[c].open
    BY <2>1 DEF HInv, MapInv, OpenIsHere, Here
  <2>3. ~Ghost(c)
    BY <1>2 DEF Ghost, HInv, MapInv, DoneHasAsked, Here
  <2>4. Served(c) => c \in Listed
    BY <1>2, <2>1 DEF Served, HInv, MapInv, GoneIsClosed, Here, Began
  <2> QED BY <2>2, <2>3, <2>4
<1>4. AtMostTwice
  <2> SUFFICES ASSUME NEW c \in Clients, NEW e \in Events PROVE got[c][e] <= 2
    BY DEF AtMostTwice
  <2>1. got[c][e] \in Nat /\ got[c][e] + Local(e) + Remote(c, e) <= 2 /\ Local(e) \in 0 .. 1 /\ Remote(c, e) \in 0 .. 1
    BY <1>1 DEF EventTypes, HInv, EventInv, ShareOfTwo, Local, Remote
  <2> QED BY <2>1
<1> QED BY <1>3, <1>4

\* The map of connections is accurate and no event reaches a client three times,
\* for any devices, connections, events and sizes of the channels.
THEOREM HubIsSound == HubSpec => []HubInv
<1>1. HInv /\ [HubNext]_hvars => HInv'
  BY HubTypesKept, MapKept, EventsKept DEF HInv
<1> QED BY <1>1, HubInitially, HInvIsSound, PTL DEF HubSpec

\* Both along every run of the instance, whichever part moves.
THEOREM WebSocketIsSound == Spec => [](HubInv /\ DraftInv)
<1>1. Init => HInv /\ DInv
  BY HubInitially, DraftInitially DEF Init
<1>2. [Next]_hub_drafting => [HubNext]_hvars /\ [DraftNext]_draftvars
  BY DEF Next, hub_drafting
<1>3. HInv /\ DInv /\ [Next]_hub_drafting => HInv' /\ DInv'
  BY <1>2, HubTypesKept, MapKept, EventsKept, DraftInductive DEF HInv
<1>4. HInv /\ DInv => HubInv /\ DraftInv
  BY HInvIsSound DEF DInv, DraftInv
<1> QED BY <1>1, <1>3, <1>4, PTL DEF Spec

=================================================================================
