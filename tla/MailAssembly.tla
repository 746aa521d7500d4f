---------------------------- MODULE MailAssembly ----------------------------
(***************************************************************************)
(* What becomes of one fetched mail: the assembler finds or makes its      *)
(* thread, finds or makes a contact for every participant, stores the row  *)
(* and publishes email.ingested.  Every query is a transaction of its own, *)
(* so the assemblies of the pool's workers interleave between any two.     *)
(*                                                                         *)
(* A subject is a number and the distance of two subjects their            *)
(* difference; two names are alike if they are equal; an address is a pair *)
(* of the address proper and a +tag.  Left out: the LIMITs of the queries, *)
(* which no run reaches, and mails without a subject.                      *)
(* The graph holds one contact per address, over all users, as the         *)
(* constraint contact_email of the deployment demands.                     *)
(***************************************************************************)
EXTENDS Integers, Sequences, FiniteSets, SequencesExt

CONSTANTS Email,            \* mails fetched, of one user or another
          Header,          \* [Email -> ...]: user, id, asked, from, name, to, subject, day
          Assembler,       \* goroutines of the pool
          Today,           \* NOW(), a day not before any received_at
          MaxAssemblies,   \* bound: mails taken, the same one again included
          MaxUpsets        \* bound: failing queries, deaths and outages of NATS

ASSUME AssemblyBounds == /\ MaxAssemblies \in Nat /\ MaxUpsets \in Nat
                         /\ \A m \in Email : Header[m].day \in 0 .. Today

\* A user's mails are told apart by their ids: the row is unique in both.
ASSUME MailAssumption ==
  /\ IsFiniteSet(Email) /\ IsFiniteSet(Assembler) /\ Today \in Nat
  /\ \A m \in Email : /\ Header[m].asked \in Seq(ToSet(Header[m].asked))
                       /\ Header[m].to \in Seq(ToSet(Header[m].to))
  /\ \A m, p \in Email : Header[m].user = Header[p].user /\ Header[m].id = Header[p].id => m = p

VARIABLES
  threads,     \* message_count and last_message_at by thread key; 0 is no row
  contacts,    \* the contact of an address: its user and its name
  similar,     \* SIMILAR_TO edges
  row,         \* the thread of a stored mail
  asm,         \* what each goroutine is doing
  natsUp,
  ingested, deadLetters,   \* mails with an event in the stream, in the dead letter queue
  apart,       \* history: stored mails whose parent was not found
  wasted,      \* history: times a thread was counted up and no row stored
  silent,      \* history: stored mails whose event was given up, or died with its goroutine
  taken, upsets

assemblyVars == <<threads, contacts, similar, row, asm, natsUp, ingested, deadLetters, apart,
                  wasted, silent, taken, upsets>>
graphVars == <<contacts, similar>>
busVars == <<natsUp, ingested, deadLetters, silent>>

\* Threads tell the tags of an address apart, contacts do not.
People(m) == {Header[m].from} \cup ToSet(Header[m].to)

\* GenerateThreadKey: the addresses and the subject, and nothing else.
KeyOf(m) == [user |-> Header[m].user, people |-> People(m), subject |-> Header[m].subject]
Keys == {KeyOf(m) : m \in Email}
Canonical(e) == e[1]
Contacts(m) == {Canonical(e) : e \in People(m)}
Address == UNION {Contacts(m) : m \in Email}

None == <<>>
Unassigned == [at |-> "idle", mail |-> None, asked |-> <<>>, thread |-> None, fuzzy |-> FALSE,
           apart |-> FALSE, left |-> {}, links |-> {}, tries |-> 0]

AssemblyInit ==
  /\ threads = [k \in Keys |-> [count |-> 0, last |-> 0]]
  /\ contacts = [a \in Address |-> None] /\ similar = {}
  /\ row = [m \in Email |-> None] /\ asm = [a \in Assembler |-> Unassigned]
  /\ natsUp = TRUE /\ ingested = {} /\ deadLetters = {}
  /\ apart = {} /\ wasted = [k \in Keys |-> 0] /\ silent = {}
  /\ taken = 0 /\ upsets = 0

IsAt(a, place) == asm[a].at = place
Going(a, place) == [asm[a] EXCEPT !.at = place]
Goes(a, state) == asm' = [asm EXCEPT ![a] = state]
Upset == upsets < MaxUpsets /\ upsets' = upsets + 1

\* The thread was counted up for a mail whose row this goroutine will not write.
Counted(a) == asm[a].thread # None /\ asm[a].at \in {"contact", "names", "node", "links", "insert"}
Waste(a) == wasted' = IF Counted(a) THEN [wasted EXCEPT ![asm[a].thread] = @ + 1] ELSE wasted

\* AssembleEvent returns an error; what was written stays.
GiveUp(a) == Goes(a, Unassigned) /\ Waste(a)

TakeMail(a, m) ==
  /\ IsAt(a, "idle") /\ taken < MaxAssemblies /\ taken' = taken + 1
  /\ Goes(a, [Unassigned EXCEPT !.at = "ask", !.mail = m, !.asked = Header[m].asked])
  /\ UNCHANGED <<threads, graphVars, row, busVars, apart, wasted, upsets>>

-----------------------------------------------------------------------------
(* FindOrCreateThread                                                      *)

StoredWith_AnyUser(id, user) == {p \in Email : row[p] # None /\ Header[p].id = id}
StoredWith(id, user) == {p \in Email : row[p] # None /\ Header[p].id = id /\ Header[p].user = user}

\* In-Reply-To, then the references, one query each: a failing query counts
\* as one that finds nothing.
LookUp(a) ==
  LET found == StoredWith(Head(asm[a].asked), Header[asm[a].mail].user)
      NotFound == Goes(a, [asm[a] EXCEPT !.asked = Tail(@), !.apart = TRUE])
  IN
  /\ IsAt(a, "ask") /\ asm[a].asked # <<>>
  /\ \/ \E p \in found : Goes(a, [Going(a, "join") EXCEPT !.thread = row[p]]) /\ UNCHANGED upsets
     \/ found = {} /\ NotFound /\ UNCHANGED upsets
     \/ Upset /\ NotFound
  /\ UNCHANGED <<threads, graphVars, row, busVars, apart, wasted, taken>>

Distance(k, m) == IF k.subject < Header[m].subject THEN Header[m].subject - k.subject
                                                   ELSE k.subject - Header[m].subject

Candidates(m) ==
  {k \in Keys : /\ threads[k].count > 0 /\ k.user = Header[m].user
                /\ threads[k].last >= Header[m].day - 7
                /\ k.people \cap People(m) # {}
                /\ Distance(k, m) < 3}

\* The nearest subject; among equals the query's order decides, here any.
FuzzyMatch(a) ==
  LET m == asm[a].mail
      near == Candidates(m)
      best == {k \in near : \A j \in near : Distance(k, m) <= Distance(j, m)}
  IN
  /\ IsAt(a, "ask") /\ asm[a].asked = <<>>
  /\ \/ \E k \in best : Goes(a, [Going(a, "join") EXCEPT !.thread = k, !.fuzzy = TRUE]) /\ UNCHANGED upsets
     \/ near = {} /\ Goes(a, Going(a, "create")) /\ UNCHANGED upsets
     \/ Upset /\ Goes(a, Going(a, "create"))
  /\ UNCHANGED <<threads, graphVars, row, busVars, apart, wasted, taken>>

\* DedupAll: the sender, at 0, then the recipients; one that has come before,
\* perhaps under another tag, is passed over.
AddressAt(m, i) == Canonical(IF i = 0 THEN Header[m].from ELSE Header[m].to[i])
Participants(m) ==
  {i \in 0 .. Len(Header[m].to) : \A j \in 0 .. i - 1 : AddressAt(m, j) # AddressAt(m, i)}
WithThread(a, k) == [Going(a, "contact") EXCEPT !.thread = k, !.left = Participants(asm[a].mail)]

\* incrementAndReturn.  After a fuzzy match its error is logged and a thread
\* created; after a match by header it ends the assembly.
IncrementAndReturn(a) ==
  LET k == asm[a].thread IN
  /\ IsAt(a, "join")
  /\ \/ /\ threads' = [threads EXCEPT ![k] = [count |-> @.count + 1, last |-> Today]]
        /\ Goes(a, WithThread(a, k)) /\ UNCHANGED upsets
     \/ /\ Upset /\ UNCHANGED threads
        /\ Goes(a, IF asm[a].fuzzy THEN [Going(a, "create") EXCEPT !.thread = None] ELSE Unassigned)
  /\ UNCHANGED <<graphVars, row, busVars, apart, wasted, taken>>

Upserted_Reset(old, m) == [count |-> 1, last |-> Header[m].day]
Upserted(old, m) == [count |-> old.count + 1, last |-> Header[m].day]

CreateNewThread(a) ==
  LET m == asm[a].mail
      k == KeyOf(m)
  IN
  /\ IsAt(a, "create")
  /\ \/ /\ threads' = [threads EXCEPT ![k] = Upserted(@, m)]
        /\ Goes(a, WithThread(a, k)) /\ UNCHANGED upsets
     \/ Upset /\ Goes(a, Unassigned) /\ UNCHANGED threads
  /\ UNCHANGED <<graphVars, row, busVars, apart, wasted, taken>>

-----------------------------------------------------------------------------
(* Dedup: one participant after the other                                  *)

Person(a) == LET i == Min(asm[a].left) IN
  [email |-> AddressAt(asm[a].mail, i), name |-> IF i = 0 THEN Header[asm[a].mail].name ELSE ""]
OwnerOf(a) == Header[asm[a].mail].user
NextPerson(a) == [asm[a] EXCEPT !.at = IF asm[a].left = {Min(asm[a].left)} THEN "insert" ELSE "contact",
                                !.left = @ \ {Min(@)}, !.links = {}]

FindContactByEmail(a) ==
  LET known == contacts[Person(a).email] # None /\ contacts[Person(a).email].user = OwnerOf(a) IN
  /\ IsAt(a, "contact")
  /\ \/ known /\ Goes(a, NextPerson(a)) /\ UNCHANGED <<wasted, upsets>>
     \/ /\ ~known /\ UNCHANGED <<wasted, upsets>>
        /\ Goes(a, Going(a, IF Person(a).name = "" THEN "node" ELSE "names"))
     \/ Upset /\ GiveUp(a)
  /\ UNCHANGED <<threads, graphVars, row, busVars, apart, taken>>

Alike(a) == {e \in Address : /\ contacts[e] # None /\ contacts[e].user = OwnerOf(a)
                             /\ e # Person(a).email /\ contacts[e].name = Person(a).name}

\* FindContactsByName, and the edges to uuid.Nil, which match no node.
FindContactsByName(a) ==
  /\ IsAt(a, "names")
  /\ \/ Goes(a, [Going(a, "node") EXCEPT !.links = Alike(a)]) /\ UNCHANGED <<wasted, upsets>>
     \/ Upset /\ GiveUp(a)
  /\ UNCHANGED <<threads, graphVars, row, busVars, apart, taken>>

\* A plain CREATE: the constraint refuses a second node of one address, made by
\* a concurrent assembly or belonging to another user.
CreateContact(a) ==
  LET e == Person(a).email IN
  /\ IsAt(a, "node")
  /\ \/ /\ contacts[e] = None
        /\ contacts' = [contacts EXCEPT ![e] = [user |-> OwnerOf(a), name |-> Person(a).name]]
        /\ Goes(a, IF asm[a].links = {} THEN NextPerson(a) ELSE Going(a, "links"))
        /\ UNCHANGED <<wasted, upsets>>
     \/ contacts[e] # None /\ GiveUp(a) /\ UNCHANGED <<contacts, upsets>>
     \/ Upset /\ GiveUp(a) /\ UNCHANGED contacts
  /\ UNCHANGED <<threads, similar, row, busVars, apart, taken>>

\* A failing edge is logged.
CreateSimilarToEdge(a) ==
  /\ IsAt(a, "links")
  /\ \E e \in asm[a].links :
       /\ Goes(a, IF asm[a].links = {e} THEN NextPerson(a) ELSE [asm[a] EXCEPT !.links = @ \ {e}])
       /\ \/ similar' = similar \cup {<<Person(a).email, e>>} /\ UNCHANGED upsets
          \/ Upset /\ UNCHANGED similar
  /\ UNCHANGED <<threads, contacts, row, busVars, apart, wasted, taken>>

-----------------------------------------------------------------------------
(* The row, and the event                                                  *)

\* ON CONFLICT DO NOTHING: the event is published all the same.
InsertRawEmail(a) ==
  LET m == asm[a].mail IN
  /\ IsAt(a, "insert")
  /\ \/ /\ row[m] = None /\ row' = [row EXCEPT ![m] = asm[a].thread]
        /\ apart' = IF asm[a].apart THEN apart \cup {m} ELSE apart
        /\ Goes(a, Going(a, "publish")) /\ UNCHANGED <<wasted, upsets>>
     \/ /\ row[m] # None /\ Goes(a, Going(a, "publish")) /\ Waste(a) /\ UNCHANGED <<row, apart, upsets>>
     \/ Upset /\ GiveUp(a) /\ UNCHANGED <<row, apart>>
  /\ UNCHANGED <<threads, graphVars, busVars, taken>>

\* PublishEmailIngested: three attempts.  One that fails may have stored the
\* event (a lost acknowledgement).
Attempt(a) ==
  LET m == asm[a].mail
      Again == Goes(a, [asm[a] EXCEPT !.tries = @ + 1])
  IN
  /\ IsAt(a, "publish") /\ asm[a].tries < 3
  /\ \/ natsUp /\ ingested' = ingested \cup {m} /\ Goes(a, Unassigned) /\ UNCHANGED upsets
     \/ natsUp /\ Upset /\ ingested' = ingested \cup {m} /\ Again
     \/ ~natsUp /\ Again /\ UNCHANGED <<ingested, upsets>>
  /\ UNCHANGED <<threads, graphVars, row, natsUp, deadLetters, silent, apart, wasted, taken>>

\* The poller logs the error and goes on, whether the letter was stored or not.
PublishToDLQ(a) ==
  LET m == asm[a].mail IN
  /\ IsAt(a, "publish") /\ asm[a].tries = 3 /\ Goes(a, Unassigned)
  /\ \/ natsUp /\ deadLetters' = deadLetters \cup {m} /\ UNCHANGED silent
     \/ ~natsUp /\ silent' = silent \cup {m} /\ UNCHANGED deadLetters
  /\ UNCHANGED <<threads, graphVars, row, natsUp, ingested, apart, wasted, taken, upsets>>

\* An outage matters to whoever publishes.
Publishing == \E a \in Assembler : IsAt(a, "publish")

NatsFails ==
  /\ Publishing /\ natsUp /\ Upset /\ natsUp' = FALSE
  /\ UNCHANGED <<threads, graphVars, row, asm, ingested, deadLetters, silent, apart, wasted, taken>>

NatsReturns ==
  /\ Publishing /\ ~natsUp /\ natsUp' = TRUE
  /\ UNCHANGED <<threads, graphVars, row, asm, ingested, deadLetters, silent, apart, wasted, taken, upsets>>

\* A panic, a deploy: the goroutine is gone, whatever it had written.
AssemblerDies(a) ==
  /\ asm[a].at # "idle" /\ Upset /\ GiveUp(a)
  /\ silent' = IF IsAt(a, "publish") THEN silent \cup {asm[a].mail} ELSE silent
  /\ UNCHANGED <<threads, graphVars, row, natsUp, ingested, deadLetters, apart, taken>>

FindOrCreateThread(a) == LookUp(a) \/ FuzzyMatch(a) \/ IncrementAndReturn(a) \/ CreateNewThread(a)
Dedup(a) == FindContactByEmail(a) \/ FindContactsByName(a) \/ CreateContact(a) \/ CreateSimilarToEdge(a)
PublishEmailIngested(a) == Attempt(a) \/ PublishToDLQ(a)

Assemble(a) == FindOrCreateThread(a) \/ Dedup(a) \/ InsertRawEmail(a) \/ PublishEmailIngested(a)

AssemblyNext ==
  \/ NatsFails \/ NatsReturns
  \/ \E a \in Assembler : Assemble(a) \/ AssemblerDies(a) \/ \E m \in Email : TakeMail(a, m)

AssemblySpec == AssemblyInit /\ [][AssemblyNext]_assemblyVars

-----------------------------------------------------------------------------

AssemblyTypeOK ==
  /\ threads \in [Keys -> [count : Nat, last : 0 .. Today]]
  /\ \A e \in Address : contacts[e] # None => contacts[e].user \in {Header[m].user : m \in Email}
  /\ similar \subseteq Address \X Address
  /\ \A m \in Email : row[m] # None => row[m] \in Keys
  /\ ingested \subseteq Email /\ deadLetters \subseteq Email /\ silent \subseteq Email /\ apart \subseteq Email
  /\ taken \in 0 .. MaxAssemblies /\ upsets \in 0 .. MaxUpsets
  /\ \A a \in Assembler : asm[a].tries \in 0 .. 3 /\ (Counted(a) => asm[a].thread \in Keys)

\* message_count is the number of mails of the thread, plus the work that was
\* begun and not finished: the count is written before the row, in a statement
\* of its own, so a mail assembled twice, or given up and taken again, counts
\* twice, but no concurrent writer loses a count of another one.
CountCoversMail ==
  \A k \in Keys : threads[k].count = Cardinality({m \in Email : row[m] = k})
                                     + Cardinality({a \in Assembler : Counted(a) /\ asm[a].thread = k})
                                     + wasted[k]

\* A mail and the one it answers are in one thread, if the earlier one was
\* stored when the later was threaded: whatever else is assembled in between,
\* and however often either is, neither moves.
ReplyJoinsParent ==
  \A m, p \in Email :
    /\ row[m] # None /\ m \notin apart /\ Header[m].asked # <<>>
    /\ p \in StoredWith(Head(Header[m].asked), Header[m].user)
    => row[m] = row[p]

\* Nothing of one user reaches another: a stored mail lies in a thread of its
\* user, every participant is a contact of that user, and the contacts an edge
\* offers for review are two, of one user.
UsersStayApart ==
  /\ \A m \in Email : row[m] # None =>
       row[m].user = Header[m].user /\ \A e \in Contacts(m) : contacts[e] # None /\ contacts[e].user = Header[m].user
  /\ \A s \in similar : s[1] # s[2] /\ contacts[s[1]].user = contacts[s[2]].user

\* A stored mail is announced, waits to be, or left a dead letter, unless NATS
\* was down for the letter too or the goroutine died before the event.
StoredIsPublished ==
  \A m \in Email : row[m] # None =>
    \/ m \in ingested \cup deadLetters \cup silent
    \/ \E a \in Assembler : IsAt(a, "publish") /\ asm[a].mail = m

\* Mails are threaded, their people known and their events published though
\* assemblies interleave between any two queries, fail and are repeated.
AssemblyInv == AssemblyTypeOK /\ CountCoversMail /\ ReplyJoinsParent /\ UsersStayApart /\ StoredIsPublished
=============================================================================
