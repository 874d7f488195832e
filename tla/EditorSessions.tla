--------------------------- MODULE EditorSessions ---------------------------
(***************************************************************************)
(* An editor and the language server (deed-lsp): documents opened, typed   *)
(* in and closed, diagnostics published for them, and a rename that crosses*)
(* files, over two ordered streams.                                        *)
(*                                                                         *)
(* The server handles one message at a time (serve, Server::handle) and    *)
(* checks the whole workspace on each: the buffers it holds, then the      *)
(* files under the folders of `initialize` that are not open, then what    *)
(* ships in the compiler.  The editor and the disk run on while a message  *)
(* is in flight, and the server never hears of a file that changed on disk.*)
(***************************************************************************)
EXTENDS SourceSet

CONSTANTS
    Uris,        \* the spellings documents and walked files are known by
    Files,       \* the files behind them, in canonical form
    FileOf,      \* [Uris -> Files]
    Walked,      \* the spellings a walk of the editor's folders produces
    Rank,        \* [Uris -> 0..Cardinality(Uris)-1], the order of the spellings
    Texts,       \* [Files -> the texts a person types into each]
    FirstDisk,   \* [Files -> its text before the session, or Absent]
    Absent,      \* in place of the text of a file that is not there
    Closed,      \* in place of the text of a document that is not open
    Fresh,       \* the new name a rename asks for, in no text
    Asked,       \* the definitions a person asks to rename
    MaxEdits,    \* bound on the changes made by typing and by other programs
    MaxRenames,  \* bound on the renames asked for
    MaxPending,  \* bound on the messages on their way to the server
    MaxUnread    \* bound on the unread messages with which the server goes on

ASSUME UrisAssumption ==
    /\ FileOf \in [Uris -> Files]
    /\ Rank \in [Uris -> Nat]
    /\ Walked \subseteq Uris
    /\ IsFiniteSet(Uris)
ASSUME WalkAssumption ==
    \A u, v \in Walked : FileOf[u] = FileOf[v] => u = v
ASSUME BoundsAssumption ==
    {MaxEdits, MaxRenames, MaxPending, MaxUnread} \subseteq Nat

VARIABLES
    disk,        \* [Files -> text or Absent]
    buffer,      \* [Uris -> text or Closed], what the editor shows
    phase,       \* the editor's: "new", "starting", "ready", "stopping", "stopped"
    waiting,     \* the requests the editor has no answer to yet
    squiggles,   \* [Uris -> problems], what the editor draws under each document
    outbox,      \* messages from the editor, oldest first
    inbox,       \* messages from the server, oldest first
    documents,   \* [Uris -> text or Closed], Server::documents
    roots,       \* the spellings Server::workspace walks
    initialized, shuttingDown,
    running,     \* FALSE once `serve` has returned
    seen,        \* [open documents -> problems], what the last check said of each
    disturbed,   \* whether anything was typed or written since a rename was asked
    edits, renames

editorVars == <<buffer, phase, waiting, squiggles>>
serverVars == <<documents, roots, initialized, shuttingDown, running>>
countVars  == <<disturbed, edits, renames>>
vars == <<disk, editorVars, outbox, inbox, serverVars, seen, countVars>>

Opened(docs) == {u \in Uris : docs[u] # Closed}

(***************************************************************************)
(* The workspace (Server::check_workspace): open documents by the text the *)
(* editor sent, and every walked file no open document is a spelling of.   *)
(* Open documents are added first, so a walked file is the one an import   *)
(* finds when two texts claim a path.                                      *)
(***************************************************************************)
View(docs, files, walk) ==
    [u \in Opened(docs) \cup
           {w \in walk : /\ files[FileOf[w]] # Absent
                         /\ \A v \in Opened(docs) : FileOf[v] # FileOf[w]} |->
        IF u \in Opened(docs) THEN docs[u] ELSE files[FileOf[u]]]

Order(docs) ==
    [u \in Uris |-> IF u \in Opened(docs) THEN Rank[u] ELSE Cardinality(Uris) + Rank[u]]

(***************************************************************************)
(* Messages.                                                               *)
(***************************************************************************)
Say(method) == [method |-> method]
About(method, u, t) == [method |-> method, uri |-> u, text |-> t]
Ask(u, def) == [method |-> "rename", uri |-> u, def |-> def]
Answer(id, result, texts) ==
    [method |-> "answer", id |-> id, result |-> result, texts |-> texts]
Publish(u, problems) == [method |-> "publish", uri |-> u, problems |-> problems]

Notifications == {"didOpen", "didChange", "didClose"}

(***************************************************************************)
(* Everywhere one name is written (Server::occurrences), as the definition *)
(* of each text it resolves to.  A declaration is looked for by module     *)
(* path and name; a name that cannot be imported stays in its file.        *)
(***************************************************************************)
Home(t, def) ==
    CASE def.kind = "import" -> def.of
      [] OTHER -> t.module

\* The first definition of a name in a text's table that can be exported. The
\* table begins with the prelude's effects and then their operations, whatever
\* of its own the text calls by the same name.
ProvidedOperations == UNION {Provided[e] : e \in DOMAIN Provided}
ProvidedNames == DOMAIN Provided \cup ProvidedOperations
Giver(n) == CHOOSE e \in DOMAIN Provided : n \in Provided[e]

FirstNamed(t, n) ==
    LET at == {i \in Indices(t) : t.decls[i].name = n \/ n \in t.decls[i].ops}
        first == CHOOSE i \in at : \A j \in at : i <= j
        item == [kind |-> "item", of |-> t.module, name |-> n]
        Op(e) == [kind |-> "op", of |-> e, name |-> n]
    IN IF n \in DOMAIN Provided THEN item
       ELSE IF n \in ProvidedOperations THEN Op(Giver(n))
       ELSE IF at # {}
       THEN IF t.decls[first].name = n THEN item ELSE Op(t.decls[first].name)
       ELSE CHOOSE d \in Defs(t) : d.kind = "op" /\ d.name = n

\* Whether that definition is written anywhere in the text.
Named(t, n) ==
    IF n \in DOMAIN Provided THEN n \in Mentioned(t) \cap Given(t)
    ELSE IF n \in ProvidedOperations
    THEN Giver(n) \in Given(t) /\ <<Giver(n), n>> \in t.dots
    ELSE \E d \in Defs(t) : d.kind # "import" /\ d.name = n

\* As it would read if only the file that declares a name were searched.
OccurrencesAtHome(view, u, def) ==
    LET home == Home(view[u], def)
        in == {v \in DOMAIN view : v = u \/ (view[v].module = home /\ Named(view[v], def.name))}
    IN [v \in in |-> IF v = u THEN def ELSE FirstNamed(view[v], def.name)]

\* [the texts with such a definition -> which one it is]
Occurrences(view, u, def) ==
    LET home == Home(view[u], def)
        Here(v) == home # NoModule /\ view[v].module = home
        Brings(v) == ~Here(v) /\ <<home, def.name>> \in view[v].uses
        in == IF home = NoModule THEN {u}
              ELSE {v \in DOMAIN view :
                      (Here(v) /\ Named(view[v], def.name)) \/ Brings(v)}
    IN [v \in in |-> IF home = NoModule THEN def
                     ELSE IF Here(v) THEN FirstNamed(view[v], def.name)
                     ELSE [kind |-> "import", of |-> home, name |-> def.name]]

\* The texts a rename answers with. Shipped texts are no place to edit.
Edits(view, u, def) ==
    LET found == Occurrences(view, u, def)
    IN [v \in DOMAIN found |-> Renamed(view[v], found[v], Fresh)]

(***************************************************************************)
(* The editor.                                                             *)
(***************************************************************************)
Init ==
    /\ disk = FirstDisk
    /\ buffer = [u \in Uris |-> Closed]
    /\ phase = "new" /\ waiting = {}
    /\ squiggles = [u \in Uris |-> {}]
    /\ outbox = <<>> /\ inbox = <<>>
    /\ documents = [u \in Uris |-> Closed]
    /\ roots = {}
    /\ initialized = FALSE /\ shuttingDown = FALSE /\ running = TRUE
    /\ seen = <<>>
    /\ disturbed = FALSE /\ edits = 0 /\ renames = 0

Send(message) ==
    /\ Len(outbox) < MaxPending
    /\ outbox' = Append(outbox, message)

Initialize ==
    /\ phase = "new"
    /\ Send(Say("initialize"))
    /\ phase' = "starting" /\ waiting' = waiting \cup {"initialize"}
    /\ UNCHANGED <<disk, buffer, squiggles, inbox, serverVars, seen, countVars>>

\* One buffer for one file, whatever it is spelled.
Open(u) ==
    /\ phase = "ready"
    /\ \A v \in Opened(buffer) : FileOf[v] # FileOf[u]
    /\ \E t \in (IF disk[FileOf[u]] = Absent THEN Texts[FileOf[u]] ELSE {disk[FileOf[u]]}) :
          /\ buffer' = [buffer EXCEPT ![u] = t]
          /\ Send(About("didOpen", u, t))
    /\ disturbed' = TRUE
    /\ UNCHANGED <<disk, phase, waiting, squiggles, inbox, serverVars, seen,
                   edits, renames>>

Type(u) ==
    /\ phase = "ready" /\ u \in Opened(buffer) /\ edits < MaxEdits
    /\ \E t \in Texts[FileOf[u]] \ {buffer[u]} :
          /\ buffer' = [buffer EXCEPT ![u] = t]
          /\ Send(About("didChange", u, t))
    /\ disturbed' = TRUE /\ edits' = edits + 1
    /\ UNCHANGED <<disk, phase, waiting, squiggles, inbox, serverVars, seen, renames>>

\* The server does nothing about a save.
Save(u) ==
    /\ u \in Opened(buffer) /\ disk[FileOf[u]] # buffer[u]
    /\ disk' = [disk EXCEPT ![FileOf[u]] = buffer[u]]
    /\ UNCHANGED <<editorVars, outbox, inbox, serverVars, seen, countVars>>

Close(u) ==
    /\ phase = "ready" /\ u \in Opened(buffer)
    /\ buffer' = [buffer EXCEPT ![u] = Closed]
    /\ Send(About("didClose", u, Closed))
    /\ disturbed' = TRUE
    /\ UNCHANGED <<disk, phase, waiting, squiggles, inbox, serverVars, seen,
                   edits, renames>>

\* A cursor on any place in a text the editor shows or can read, whether or
\* not the server has been told of it.
AskRename(u, def) ==
    /\ phase # "stopped" /\ "rename" \notin waiting /\ renames < MaxRenames
    /\ Send(Ask(u, def))
    /\ waiting' = waiting \cup {"rename"}
    /\ disturbed' = FALSE /\ renames' = renames + 1
    /\ UNCHANGED <<disk, buffer, phase, squiggles, inbox, serverVars, seen, edits>>

Cursors(u) ==
    IF buffer[u] # Closed THEN Defs(buffer[u])
    ELSE IF disk[FileOf[u]] # Absent THEN Defs(disk[FileOf[u]]) ELSE {}

Shutdown ==
    /\ phase = "ready"
    /\ Send(Say("shutdown"))
    /\ phase' = "stopping" /\ waiting' = waiting \cup {"shutdown"}
    /\ UNCHANGED <<disk, buffer, squiggles, inbox, serverVars, seen, countVars>>

Exit ==
    /\ phase = "stopping"
    /\ Send(Say("exit"))
    /\ phase' = "stopped"
    /\ UNCHANGED <<disk, buffer, waiting, squiggles, inbox, serverVars, seen, countVars>>

\* Another program writes or removes a file.
WriteFile(f) ==
    /\ edits < MaxEdits
    /\ \E t \in (Texts[f] \cup {Absent}) \ {disk[f]} : disk' = [disk EXCEPT ![f] = t]
    /\ disturbed' = TRUE /\ edits' = edits + 1
    /\ UNCHANGED <<editorVars, outbox, inbox, serverVars, seen, renames>>

Received == inbox' = Tail(inbox)

Draw ==
    /\ inbox # <<>> /\ Head(inbox).method = "publish"
    /\ squiggles' = [squiggles EXCEPT ![Head(inbox).uri] = Head(inbox).problems]
    /\ Received
    /\ UNCHANGED <<disk, buffer, phase, waiting, outbox, serverVars, seen, countVars>>

\* An answer with nothing to apply: to `initialize`, to `shutdown`, a refusal,
\* or an edit about texts that have changed since, which the editor drops.
Answered ==
    /\ inbox # <<>> /\ Head(inbox).method = "answer"
    /\ Head(inbox).result # "edit" \/ disturbed
    /\ waiting' = waiting \ {Head(inbox).id}
    /\ phase' = IF Head(inbox).id = "initialize" /\ phase = "starting" THEN "ready" ELSE phase
    /\ Received
    /\ UNCHANGED <<disk, buffer, squiggles, outbox, serverVars, seen, countVars>>

\* A rename's edits: into the buffer of a document that is open, into the
\* file of one that is not. The server hears of the buffers, one by one.
ApplyRename ==
    /\ inbox # <<>> /\ Head(inbox).method = "answer"
    /\ Head(inbox).result = "edit" /\ ~disturbed
    /\ LET texts == Head(inbox).texts
           open == DOMAIN texts \cap Opened(buffer)
       IN /\ buffer' = [u \in Uris |-> IF u \in open THEN texts[u] ELSE buffer[u]]
          /\ disk' = [f \in Files |->
                        IF \E u \in DOMAIN texts \ open : FileOf[u] = f
                        THEN texts[CHOOSE u \in DOMAIN texts \ open : FileOf[u] = f]
                        ELSE disk[f]]
          /\ \E order \in Listings(open) :
                outbox' = outbox \o [i \in DOMAIN order |->
                                        About("didChange", order[i], texts[order[i]])]
    /\ waiting' = waiting \ {"rename"}
    /\ Received
    /\ UNCHANGED <<phase, squiggles, serverVars, seen, countVars>>

Editor ==
    \/ Initialize \/ Shutdown \/ Exit \/ Draw \/ Answered \/ ApplyRename
    \/ \E u \in Uris : \/ Open(u) \/ Type(u) \/ Save(u) \/ Close(u)
                       \/ \E def \in Cursors(u) \cap Asked : AskRename(u, def)

(***************************************************************************)
(* The server: `serve` reads the oldest message, handles it and writes     *)
(* what it answers before it reads the next.                               *)
(***************************************************************************)
Arrived(method) ==
    /\ running /\ Len(inbox) <= MaxUnread
    /\ outbox # <<>> /\ Head(outbox).method = method

Taken == outbox' = Tail(outbox)

Reply(id, result) == inbox' = Append(inbox, Answer(id, result, <<>>))

\* As it would read if only `initialize` were waited for.
GatedAtStart(method) == method # "initialize" /\ ~initialized

\* Server::request: everything but `initialize` waits for it, and everything
\* after `shutdown` is refused.
Gated(method) == (method # "initialize" /\ ~initialized) \/ shuttingDown

HandleInitialize ==
    /\ Arrived("initialize") /\ Taken
    /\ IF Gated("initialize")
       THEN /\ Reply("initialize", "refused")
            /\ UNCHANGED <<initialized, roots>>
       ELSE /\ Reply("initialize", "ok")
            /\ initialized' = TRUE /\ roots' = Walked
    /\ UNCHANGED <<disk, editorVars, documents, shuttingDown, running, seen, countVars>>

HandleShutdown ==
    /\ Arrived("shutdown") /\ Taken
    /\ IF Gated("shutdown")
       THEN Reply("shutdown", "refused") /\ UNCHANGED shuttingDown
       ELSE Reply("shutdown", "ok") /\ shuttingDown' = TRUE
    /\ UNCHANGED <<disk, editorVars, documents, roots, initialized, running, seen,
                   countVars>>

\* Server::rename: refused where there is nothing under the cursor, which is
\* also so of a document the server does not hold open.
HandleRename ==
    /\ Arrived("rename") /\ Taken
    /\ LET u == Head(outbox).uri
           def == Head(outbox).def
       IN IF \/ Gated("rename") \/ u \notin Opened(documents)
             \/ def \notin Defs(documents[u])
          THEN Reply("rename", "refused")
          ELSE inbox' = Append(inbox, Answer("rename", "edit",
                                 Edits(View(documents, disk, roots), u, def)))
    /\ UNCHANGED <<disk, editorVars, serverVars, seen, countVars>>

\* Server::published: what is wrong with every open document, each anew.
PublishAll(docs, before) ==
    /\ \E view \in {View(docs, disk, roots)} :
          \E universe \in {Universe(view, Order(docs))} :
             seen' = [u \in Opened(docs) |-> Diagnoses(view, universe, u)]
    /\ \E order \in Listings(Opened(docs)) :
          inbox' = inbox \o before \o [i \in DOMAIN order |->
                                         Publish(order[i], seen'[order[i]])]

HandleText ==
    /\ Arrived("didOpen") \/ Arrived("didChange")
    /\ Taken
    /\ documents' = [documents EXCEPT ![Head(outbox).uri] = Head(outbox).text]
    /\ PublishAll(documents', <<>>)
    /\ UNCHANGED <<disk, editorVars, roots, initialized, shuttingDown, running, countVars>>

\* As it would read if the documents left open were all that was published.
HandleCloseUncleared ==
    /\ Arrived("didClose") /\ Taken
    /\ documents' = [documents EXCEPT ![Head(outbox).uri] = Closed]
    /\ PublishAll(documents', <<>>)
    /\ UNCHANGED <<disk, editorVars, roots, initialized, shuttingDown, running, countVars>>

\* As it would read if a closed document were cleared and then forgotten about.
HandleCloseKept ==
    /\ Arrived("didClose") /\ Taken
    /\ inbox' = Append(inbox, Publish(Head(outbox).uri, {}))
    /\ UNCHANGED <<disk, editorVars, serverVars, seen, countVars>>

\* A closed document is cleared first, then the others are checked again: the
\* file on disk takes over from the buffer.
HandleClose ==
    /\ Arrived("didClose") /\ Taken
    /\ documents' = [documents EXCEPT ![Head(outbox).uri] = Closed]
    /\ PublishAll(documents', <<Publish(Head(outbox).uri, {})>>)
    /\ UNCHANGED <<disk, editorVars, roots, initialized, shuttingDown, running, countVars>>

HandleExit ==
    /\ Arrived("exit") /\ Taken
    /\ running' = FALSE
    /\ UNCHANGED <<disk, editorVars, inbox, documents, roots, initialized, shuttingDown,
                   seen, countVars>>

Server ==
    \/ HandleInitialize \/ HandleShutdown \/ HandleRename
    \/ HandleText \/ HandleClose \/ HandleExit

Next == Editor \/ Server \/ \E f \in Files : WriteFile(f)

Spec == Init /\ [][Next]_vars

(***************************************************************************)
(* Properties.                                                             *)
(***************************************************************************)
TypeOK ==
    /\ phase \in {"new", "starting", "ready", "stopping", "stopped"}
    /\ waiting \subseteq {"initialize", "rename", "shutdown"}
    /\ roots \in SUBSET Walked
    /\ DOMAIN buffer = Uris /\ DOMAIN documents = Uris /\ DOMAIN squiggles = Uris
    /\ DOMAIN disk = Files
    /\ {initialized, shuttingDown, running, disturbed} \subseteq BOOLEAN
    /\ edits \in 0..MaxEdits /\ renames \in 0..MaxRenames

\* The messages about a document still on their way to the server, and the
\* diagnostics for it still on their way back.
Unheard(u) == {i \in DOMAIN outbox : /\ outbox[i].method \in Notifications
                                     /\ outbox[i].uri = u}
Undrawn(u) == {i \in DOMAIN inbox : inbox[i].method = "publish" /\ inbox[i].uri = u}

\* The server ends up with the text the editor shows: what it holds, or what
\* the last message about the document will make of it.
DocumentsFollow ==
    \A u \in Uris :
        IF Unheard(u) = {} THEN documents[u] = buffer[u]
        ELSE \E i \in Unheard(u) : /\ \A j \in Unheard(u) : j <= i
                                   /\ outbox[i].text = buffer[u]

\* What is drawn, once what was sent is, is what a check of the workspace the
\* server last looked at says of each open document, and nothing for a closed
\* one: no squiggle is left from an earlier version of any file in the set.
SquigglesAreCurrent ==
    \A u \in Uris :
        LET last == IF documents[u] # Closed THEN seen[u] ELSE {}
        IN IF Undrawn(u) = {} THEN squiggles[u] = last
           ELSE \E i \in Undrawn(u) : /\ \A j \in Undrawn(u) : j <= i
                                      /\ inbox[i].problems = last

\* Nothing is answered about state the editor has torn down: after the answer
\* to `shutdown` no edit arrives.
NoEditAfterShutdown ==
    (phase \in {"stopping", "stopped"} /\ shuttingDown /\ "shutdown" \notin waiting)
        => \A i \in DOMAIN inbox :
               inbox[i].method = "answer" => inbox[i].result # "edit"

\* A rename that is applied breaks nothing: a set of texts without errors has
\* none after the edits either, in this file or in another.
EditorView == View(buffer, disk, roots)
RenameBreaksNothing ==
    [][(ApplyRename /\ Clean(EditorView, Order(buffer)))
           => Clean(EditorView', Order(buffer'))]_vars

=============================================================================
