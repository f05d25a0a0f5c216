----------------------------- MODULE LspSession ------------------------------
(***************************************************************************)
(* A LanguageServer object of multilspy                                     *)
(* (src/multilspy/language_server.py) and its four subclasses: what the     *)
(* constructor downloads, the sessions of start_server, the documents the   *)
(* object holds open in its server and the requests made inside open_file.  *)
(* Several tasks of one event loop use the object.  How messages travel is  *)
(* the subject of LspHandler; here a notification is there at once, because *)
(* it is written before the call returns and is read in order.              *)
(*                                                                         *)
(* A text is a sequence of characters, of which only the line ends matter   *)
(* and those that are two units of UTF-16, in which the server counts.      *)
(* Files are read with other line ends translated; none is inserted.        *)
(***************************************************************************)
EXTENDS Integers, Sequences, FiniteSets

CONSTANTS Kinds,          \* the languages that are created
          Files, Tasks,
          Disk,           \* file -> its text
          Inserts,        \* the texts that are inserted
          Wide,           \* the characters beyond the Basic Multilingual Plane
          Operations,     \* the requests that are made
          MaxSessions, MaxVersion, MaxLength, MaxLost   \* bounds of the model

NL == "\n"
Texts == Seq(STRING)

ASSUME SessionAssumption ==
    /\ IsFiniteSet(Tasks)
    /\ \A f \in Files : Disk[f] \in Texts
    /\ Inserts \subseteq Texts
    /\ NL \notin Wide

(***************************************************************************)
(* The subclasses.  awaited: the events start_server waits for before it    *)
(* yields; sets: the events each message of the server sets; initial: those *)
(* its answer to initialize may set; Deps: what the constructor downloads,  *)
(* and whether it asks before for the directory only or for what it needs   *)
(* in it.                                                                   *)
(***************************************************************************)
Jedi ==
    [awaited |-> {}, sets |-> [status |-> {"completions"}], initial |-> {{}},
     enables |-> FALSE]

RustAnalyzer ==
    [awaited |-> {"server_ready"}, sets |-> [status |-> {"server_ready"}],
     initial |-> {{"completions"}}, enables |-> FALSE]

OmniSharp ==
    [awaited |-> {"definition", "references"},
     sets |-> [definition |-> {"definition"}, references |-> {"references"},
               completion |-> {"completions"}],
     initial |-> SUBSET {"definition", "references"}, enables |-> FALSE]

EclipseJDTLS ==
    [awaited |-> {"service_ready"},
     sets |-> [completion |-> {"completions"}, command |-> {"intellicode"},
               service |-> {"service_ready"}],
     initial |-> {{}}, enables |-> TRUE]

Server(k) ==
    CASE k = "python" -> Jedi [] k = "rust" -> RustAnalyzer
      [] k = "csharp" -> OmniSharp [] k = "java" -> EclipseJDTLS

RustDeps == [rust_analyzer |-> "directory"]
OmniSharpDeps == [omnisharp |-> "directory", razor |-> "directory"]
JdtlsDeps == [gradle |-> "needed", vscode_java |-> "needed", intellicode |-> "needed"]
Deps(k) ==
    CASE k = "rust" -> RustDeps [] k = "csharp" -> OmniSharpDeps
      [] k = "java" -> JdtlsDeps [] OTHER -> << >>

VARIABLES
    kind,       \* the language of the object
    deps,       \* disk: "absent", "partial", or "usable": all the constructor needs
    phase,      \* where the object is between its constructor and its end
    started,    \* server_started
    process,    \* the server process: initialized, asked to shut down, or none
    leaked,     \* how many processes run that no session will stop
    events,     \* the asyncio events that are set
    buffers,    \* open_file_buffers
    docs,       \* the documents the process has open
    apart,      \* history: the buffers that the server need not have alike
    tasks,      \* what each task does
    lost,       \* history: file -> how often open_file was left by an exception
    sessions

setup == <<kind, deps>>
session == <<phase, started, process, leaked, events, sessions>>
documents == <<buffers, docs, apart, lost>>
vars == <<setup, session, documents, tasks>>

Idle == [st |-> "idle"]
DepNames == {"rust_analyzer", "omnisharp", "razor", "gradle", "vscode_java", "intellicode"}
Messages == {"status", "definition", "references", "completion", "command", "service"}

Init ==
    /\ kind \in Kinds
    /\ deps = [d \in DepNames |-> "absent"]
    /\ phase = "none" /\ started = FALSE /\ process = "none" /\ leaked = 0
    /\ events = {} /\ buffers = << >> /\ docs = << >> /\ apart = {}
    /\ tasks = [t \in Tasks |-> Idle]
    /\ lost = [f \in Files |-> 0]
    /\ sessions = 0

-----------------------------------------------------------------------------
(***************************************************************************)
(* Positions in a text (TextUtils).  Lines and columns count from 0, as     *)
(* indexes do in the code: the character at index i is text[i + 1].         *)
(***************************************************************************)
LineEnds(text) == {i \in 1..Len(text) : text[i] = NL}

GetLineColFromIndex(text, index) ==
    LET before == {i \in LineEnds(text) : i <= index}
    IN [line |-> Cardinality(before),
        col |-> IF before = {} THEN index
                ELSE index - CHOOSE i \in before : \A j \in before : j <= i]

LineStart(text, line) ==
    IF line = 0 THEN 0
    ELSE CHOOSE i \in LineEnds(text) : Cardinality({j \in LineEnds(text) : j <= i}) = line

GetIndexFromLineCol(text, line, col) == LineStart(text, line) + col

UpdatedPosition(line, col, s) ==
    IF LineEnds(s) # {}
    THEN [line |-> line + Cardinality(LineEnds(s)),
          col |-> Len(s) - LineStart(s, Cardinality(LineEnds(s)))]
    ELSE [line |-> line, col |-> col + Len(s)]

(* text[:from] + s + text[to:]                                              *)
Spliced(text, from, to, s) ==
    SubSeq(text, 1, from) \o s \o SubSeq(text, to + 1, Len(text))

(* The server applies a change to the range of its own text.  It counts a   *)
(* column in units of UTF-16; one beyond the end of the line stands for     *)
(* that end.                                                                *)
LineLength(text, line) ==
    LET start == LineStart(text, line)
    IN IF line < Cardinality(LineEnds(text))
       THEN LineStart(text, line + 1) - 1 - start
       ELSE Len(text) - start
Units(text, start, n) == n + Cardinality({i \in start+1 .. start+n : text[i] \in Wide})
CharactersUpTo(text, p) ==
    {n \in 0 .. LineLength(text, p.line) : Units(text, LineStart(text, p.line), n) <= p.col}
ServerIndex(text, p) ==
    LineStart(text, p.line)
      + CHOOSE n \in CharactersUpTo(text, p) : \A m \in CharactersUpTo(text, p) : m <= n
ServerChange(doc, version, from, to, s) ==
    [text |-> Spliced(doc.text, ServerIndex(doc.text, from), ServerIndex(doc.text, to), s),
     version |-> version]
BehindWide(text, p) ==
    LET start == LineStart(text, p.line)
    IN \E i \in start+1 .. start+p.col : text[i] \in Wide

-----------------------------------------------------------------------------
(***************************************************************************)
(* The constructor: one dependency after the other.  A download may fail or *)
(* the process may die in it; what it unpacked, and the directory made for  *)
(* it, stay.                                                                *)
(***************************************************************************)
ToDownload(d) ==
    IF Deps(kind)[d] = "directory" THEN deps[d] = "absent" ELSE deps[d] # "usable"

SetupRuntimeDependencies ==
    /\ phase = "none"
    /\ \A d \in DOMAIN Deps(kind) : ~ToDownload(d) /\ deps[d] = "usable"
    /\ phase' = "made"
    /\ UNCHANGED <<setup, started, process, leaked, events, sessions, documents, tasks>>

DownloadAndExtract(d, outcome) ==
    /\ phase = "none" /\ d \in DOMAIN Deps(kind) /\ ToDownload(d)
    /\ deps' = [deps EXCEPT ![d] = outcome]
    /\ UNCHANGED <<kind, session, documents, tasks>>

-----------------------------------------------------------------------------
(***************************************************************************)
(* start_server.  server_started is set before there is a process and reset *)
(* after it has gone, so that other tasks open files and make requests in   *)
(* every step of it.  Nothing clears the events or the buffers of an        *)
(* earlier session, and an exception leaves the process running and         *)
(* server_started set: neither context manager has a try.                   *)
(***************************************************************************)
StartServer ==
    /\ phase \in {"made", "off", "left"} /\ sessions < MaxSessions
    /\ phase' = "spawning" /\ sessions' = sessions + 1 /\ started' = TRUE
    /\ UNCHANGED <<setup, process, leaked, events, documents, tasks>>

Spawned ==
    /\ phase = "spawning"
    /\ phase' = "starting" /\ process' = "new"
    /\ leaked' = leaked + (IF process = "none" THEN 0 ELSE 1)
    /\ docs' = << >> /\ apart' = DOMAIN buffers
    /\ UNCHANGED <<setup, started, events, sessions, buffers, lost, tasks>>

(* The answer to initialize passes the assertions; what it says may set     *)
(* events at once.  From the initialized notification on the server takes   *)
(* what it is sent.                                                         *)
Initialized ==
    /\ phase = "starting" /\ process = "new"
    /\ process' = "ready"
    /\ \E e \in Server(kind).initial : events' = events \cup e
    /\ phase' = IF Server(kind).enables THEN "enabling" ELSE "waiting"
    /\ UNCHANGED <<setup, started, leaked, sessions, documents, tasks>>

(* A message of the server: experimental/serverStatus, language/status or   *)
(* client/registerCapability.  One that sets what is set changes nothing.   *)
Announce_HandlersLate(m) ==
    /\ process = "ready" /\ phase # "enabling" /\ m \in DOMAIN Server(kind).sets
    /\ events' = events \cup Server(kind).sets[m]
    /\ UNCHANGED <<setup, phase, started, process, leaked, sessions, documents, tasks>>

Announce(m) ==
    /\ process = "ready" /\ m \in DOMAIN Server(kind).sets
    /\ events' = events \cup Server(kind).sets[m]
    /\ UNCHANGED <<setup, phase, started, process, leaked, sessions, documents, tasks>>

(* java.intellicode.enable is known to a server that has registered it.     *)
EnableIntellicode ==
    /\ phase = "enabling" /\ process = "ready" /\ "intellicode" \in events
    /\ phase' = "waiting"
    /\ UNCHANGED <<setup, started, process, leaked, events, sessions, documents, tasks>>

Awaited == Server(kind).awaited

Ready ==
    /\ phase = "waiting" /\ Awaited \subseteq events
    /\ phase' = "on"
    /\ UNCHANGED <<setup, started, process, leaked, events, sessions, documents, tasks>>

(* An exception leaves the session.  It ends some tasks, which leave their  *)
(* contexts by it; others go on, with the process and server_started as     *)
(* they are.                                                                *)
Inside(t, f) == tasks[t] # Idle /\ tasks[t].file = f
UsersOf(f) == {t \in Tasks : Inside(t, f)}

Leave(S) ==
    /\ phase' = "left"
    /\ lost' = [f \in Files |-> lost[f] + Cardinality(UsersOf(f) \cap S)]
    /\ tasks' = [t \in Tasks |-> IF t \in S THEN Idle ELSE tasks[t]]
    /\ UNCHANGED <<setup, started, process, leaked, events, sessions, buffers, docs, apart>>

(* No process is made, an answer is not as asserted, the caller gives up.   *)
StartFails(S) == phase \in {"spawning", "starting", "enabling", "waiting"} /\ Leave(S)
BodyRaises(S) == phase = "on" /\ Leave(S)

(* The body of the session ends: shutdown, then stop, which cancels the     *)
(* tasks that read answers.                                                 *)
LeaveBody ==
    /\ phase = "on"
    /\ phase' = "stopping"
    /\ process' = IF process = "none" THEN "none" ELSE "leaving"
    /\ docs' = << >>
    /\ UNCHANGED <<setup, started, leaked, events, sessions, buffers, apart, lost, tasks>>

Stop ==
    /\ phase = "stopping" /\ process = "leaving"
    /\ phase' = "off" /\ started' = FALSE /\ process' = "none"
    /\ tasks' = [t \in Tasks |-> IF tasks[t].st = "asked"
                                 THEN [tasks[t] EXCEPT !.st = "hanging"] ELSE tasks[t]]
    /\ UNCHANGED <<setup, leaked, events, sessions, documents>>

ShutdownFails(S) == phase = "stopping" /\ Leave(S)

ServerDies ==
    /\ process # "none" /\ process' = "none" /\ docs' = << >>
    /\ UNCHANGED <<setup, phase, started, leaked, events, sessions, buffers, apart, lost, tasks>>

-----------------------------------------------------------------------------
(***************************************************************************)
(* Documents.  open_file counts the contexts that have the file open; only  *)
(* the first of them tells the server, and only the last one closes.  A     *)
(* notification is dropped by a server that is not initialized or shuts     *)
(* down, and when there is none.                                            *)
(***************************************************************************)
Opened(fn, f, v) == [g \in DOMAIN fn \cup {f} |-> IF g = f THEN v ELSE fn[g]]
Without(fn, f) == [g \in DOMAIN fn \ {f} |-> fn[g]]

Open(f) ==
    \/ /\ f \in DOMAIN buffers
       /\ buffers' = [buffers EXCEPT ![f].ref = @ + 1]
       /\ UNCHANGED <<docs, apart>>
    \/ /\ f \notin DOMAIN buffers
       /\ buffers' = Opened(buffers, f, [text |-> Disk[f], version |-> 0, ref |-> 1])
       /\ IF process = "ready"
          THEN docs' = Opened(docs, f, [text |-> Disk[f], version |-> 0]) /\ UNCHANGED apart
          ELSE apart' = apart \cup {f} /\ UNCHANGED docs

Close_Silently(f) ==
    IF buffers[f].ref = 1
    THEN buffers' = Without(buffers, f) /\ apart' = apart \ {f} /\ UNCHANGED docs
    ELSE buffers' = [buffers EXCEPT ![f].ref = @ - 1] /\ UNCHANGED <<docs, apart>>
Close(f) ==
    IF buffers[f].ref = 1
    THEN buffers' = Without(buffers, f) /\ apart' = apart \ {f} /\ docs' = Without(docs, f)
    ELSE buffers' = [buffers EXCEPT ![f].ref = @ - 1] /\ UNCHANGED <<docs, apart>>

Begin(t, f, op, st) ==
    /\ started /\ tasks[t] = Idle /\ lost[f] < MaxLost
    /\ Open(f)
    /\ tasks' = [tasks EXCEPT ![t] = [st |-> st, file |-> f, op |-> op]]
    /\ UNCHANGED <<setup, session, lost>>

(* The context ends as it should; it is not asked whether a server runs.    *)
End(t) ==
    /\ Close(tasks[t].file)
    /\ tasks' = [tasks EXCEPT ![t] = Idle]
    /\ UNCHANGED <<setup, session, lost>>

Does(t, st) == tasks[t].st = st

OpenFile(t, f) == Begin(t, f, "none", "open")
CloseFile(t) == Does(t, "open") /\ End(t)

(* Both edits: the buffer by index, the server by position, one version on. *)
Edit(t, from, to, s) ==
    LET f == tasks[t].file
        b == buffers[f]
        new == Spliced(b.text, GetIndexFromLineCol(b.text, from.line, from.col),
                       GetIndexFromLineCol(b.text, to.line, to.col), s)
    IN /\ started
       /\ b.version < MaxVersion /\ Len(new) <= MaxLength
       /\ buffers' = [buffers EXCEPT ![f].text = new, ![f].version = @ + 1]
       /\ docs' = IF f \in DOMAIN docs
                  THEN [docs EXCEPT ![f] = ServerChange(docs[f], b.version + 1, from, to, s)]
                  ELSE docs
       /\ apart' = IF BehindWide(b.text, from) \/ BehindWide(b.text, to)
                   THEN apart \cup {f} ELSE apart
       /\ UNCHANGED <<setup, session, lost, tasks>>

Positions(t) ==
    LET text == buffers[tasks[t].file].text
    IN {GetLineColFromIndex(text, i) : i \in 0..Len(text)}

InsertTextAtPosition(t) ==
    Does(t, "open") /\ \E p \in Positions(t), s \in Inserts : Edit(t, p, p, s)

Before(p, q) == p.line < q.line \/ (p.line = q.line /\ p.col < q.col)

DeleteTextBetweenPositions(t) ==
    Does(t, "open") /\ \E p, q \in Positions(t) : Before(p, q) /\ Edit(t, p, q, << >>)

-----------------------------------------------------------------------------
(***************************************************************************)
(* Requests, each inside an open_file of its own.  Completions wait for     *)
(* their event first, and ask again while the answer is null or incomplete. *)
(* The other requests look at their answer after the context is closed, so  *)
(* that what they raise then changes nothing.                               *)
(***************************************************************************)
\* a request is answered only if a process is there to read it
Sent == IF process \in {"new", "ready"} THEN "asked" ELSE "hanging"

Request(t, f, op) ==
    Begin(t, f, op, IF op = "completions" /\ "completions" \notin events THEN "waiting" ELSE Sent)

Send(t) ==
    /\ tasks' = [tasks EXCEPT ![t].st = Sent]
    /\ UNCHANGED <<setup, session, documents>>

SendCompletion(t) == Does(t, "waiting") /\ "completions" \in events /\ Send(t)
AskAgain(t) == Does(t, "asked") /\ tasks[t].op = "completions" /\ Send(t)
Answer(t) == Does(t, "asked") /\ End(t)

(* An exception inside a context leaves the buffer and its count behind: an *)
(* error answers the request, an item of the completions is not as          *)
(* expected, the pipe is broken, an edit finds no server, the caller raises *)
(* or is cancelled.                                                         *)
ContextRaises(t) ==
    /\ tasks[t] # Idle
    /\ lost' = [lost EXCEPT ![tasks[t].file] = @ + 1]
    /\ tasks' = [tasks EXCEPT ![t] = Idle]
    /\ UNCHANGED <<setup, session, buffers, docs, apart>>

Starting == Spawned \/ Initialized \/ EnableIntellicode \/ Ready

Next ==
    \/ SetupRuntimeDependencies
    \/ \E d \in DepNames, o \in {"partial", "usable"} : DownloadAndExtract(d, o)
    \/ StartServer \/ Starting \/ LeaveBody \/ Stop \/ ServerDies
    \/ \E m \in Messages : Announce(m)
    \/ \E S \in SUBSET Tasks : StartFails(S) \/ BodyRaises(S) \/ ShutdownFails(S)
    \/ \E t \in Tasks :
          \/ \E f \in Files :
                OpenFile(t, f) \/ \E op \in Operations : Request(t, f, op)
          \/ CloseFile(t) \/ InsertTextAtPosition(t) \/ DeleteTextBetweenPositions(t)
          \/ SendCompletion(t) \/ AskAgain(t) \/ Answer(t) \/ ContextRaises(t)

(* The event loop runs what it can, a server that lives answers initialize  *)
(* and announces what it has to announce.  Nothing is assumed of callers.   *)
Spec ==
    /\ Init /\ [][Next]_vars
    /\ WF_vars(Starting)
    /\ \A m \in Messages : WF_vars(Announce(m))

-----------------------------------------------------------------------------
TypeOK ==
    /\ kind \in Kinds
    /\ \A d \in DepNames : deps[d] \in {"absent", "partial", "usable"}
    /\ phase \in {"none", "made", "spawning", "starting", "enabling", "waiting", "on", "stopping",
                  "off", "left"}
    /\ started \in BOOLEAN /\ process \in {"none", "new", "ready", "leaving"}
    /\ process # "none" => started
    /\ DOMAIN buffers \subseteq Files
    /\ \A t \in Tasks : tasks[t] # Idle =>
          /\ tasks[t].st \in {"open", "waiting", "asked", "hanging"}
          /\ tasks[t].file \in DOMAIN buffers

(* The server has nothing open that the object has not, and has what the    *)
(* object has open in the same text and version, however opens, edits and   *)
(* closes of several tasks interleave with the start and the end of         *)
(* sessions; except the buffers that were opened while the server could not *)
(* take notice, that an earlier session left behind, or that were edited    *)
(* behind a character that the server counts as two (open_file,             *)
(* insert_text_at_position, delete_text_between_positions).                 *)
ServerMirrorsBuffers ==
    process = "ready" =>
        /\ DOMAIN docs \subseteq DOMAIN buffers
        /\ \A f \in DOMAIN buffers \ apart :
              /\ f \in DOMAIN docs
              /\ docs[f].text = buffers[f].text /\ docs[f].version = buffers[f].version

(* A buffer counts the contexts that have it open and those an exception    *)
(* left; a file nobody has open and nobody left has no buffer.              *)
CountsAreContexts ==
    \A f \in Files :
        LET users == Cardinality(UsersOf(f)) + lost[f]
        IN IF f \in DOMAIN buffers THEN buffers[f].ref = users ELSE users = 0

(* The arithmetic of positions on every text that edits lead to: an index   *)
(* is found again from its line and column, and the position an insertion   *)
(* returns is the end of what was inserted.                                 *)
PositionsAgree ==
    \A f \in DOMAIN buffers : \A i \in 0..Len(buffers[f].text) :
        LET text == buffers[f].text
            p == GetLineColFromIndex(text, i)
        IN /\ GetIndexFromLineCol(text, p.line, p.col) = i
           /\ \A s \in Inserts :
                 UpdatedPosition(p.line, p.col, s) =
                     GetLineColFromIndex(Spliced(text, i, i, s), i + Len(s))

(* Buffers are what the server has, are counted by those that use them,    *)
(* and positions in them are computed right.                               *)
BuffersAreRight ==
    /\ TypeOK
    /\ ServerMirrorsBuffers
    /\ CountsAreContexts
    /\ PositionsAgree

(* start_server yields or raises while its server lives, unless a process   *)
(* an exception has left is still read by the same object.                  *)
StartReturns ==
    phase \in {"spawning", "starting", "enabling", "waiting"} ~>
        \/ phase \in {"on", "left"}
        \/ process = "none" /\ phase # "spawning"
        \/ leaked > 0

=============================================================================
