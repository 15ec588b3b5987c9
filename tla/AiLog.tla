-------------------------------- MODULE AiLog --------------------------------
(***************************************************************************)
(* The log of the AI conversations.  Each browser page keeps a ring buffer *)
(* of its chats, fills it from the store when it loads, and posts a chat   *)
(* twice, when its answer starts to stream and when it has ended, without  *)
(* waiting for either request; the backend upserts what it receives.       *)
(*                                                                         *)
(* Source: web/src/store/ailog.ts, chat() of web/src/llm/router.ts, the    *)
(* /logs/ai handlers of backend/src/logs.rs and the ai_interactions        *)
(* statements of storage.rs.  Requests are independent fetches: they may   *)
(* overtake each other and may fail, and nobody is told.  Chats are        *)
(* numbered in the order they start, which is the order of occurred_at; of *)
(* an entry the model keeps its status and how many tokens it holds.       *)
(***************************************************************************)
EXTENDS Naturals, FiniteSets

CONSTANTS
    Pages,          \* browser tabs
    None,           \* no page
    Max,            \* entries a page keeps, and asks for (500)
    MaxChats, MaxTokens, MaxClears, MaxLost     \* bounds for TLC

Chats == 1..MaxChats

ASSUME AiLogAssumption ==
    /\ {Max, MaxChats, MaxTokens, MaxClears, MaxLost} \subseteq Nat
    /\ None \notin Pages

VARIABLES
    visit,      \* page -> "closed", "asked", "answered" or "ready"
    log,        \* page -> its ring buffer: chat -> entry
    answer,     \* page -> the entries the server listed for it
    owner,      \* chat -> the page it streams to, or None
    tokens,     \* chat -> tokens streamed so far
    started,    \* how many chats were started
    rows,       \* ai_interactions: chat -> entry
    posts,      \* POSTs under way
    deletes,    \* DELETEs under way
    clears,     \* how often a log was cleared
    lost,       \* how many requests were lost
    excused,    \* history: chats whose end never reached the store, or was overwritten there
    torn,       \* history: chats a listing replaced while they were streaming
    wiped       \* history: chats a DELETE found nowhere but in the store

pageVars == <<visit, log, answer>>
chatVars == <<owner, tokens, started>>
net == <<posts, deletes, clears, lost>>
history == <<excused, torn, wiped>>
vars == <<pageVars, chatVars, rows, net, history>>

Entry == [st : {"streaming", "ended"}, text : 0..MaxTokens]
NoEntries == [i \in {} |-> [st |-> "streaming", text |-> 0]]

Put(f, i, e) == [j \in DOMAIN f \cup {i} |-> IF j = i THEN e ELSE f[j]]

\* slice(0, MAX) of entries newest first, and ORDER BY occurred_at DESC LIMIT.
Newest(f) ==
    [i \in {j \in DOMAIN f : Cardinality({k \in DOMAIN f : k > j}) < Max} |-> f[i]]

Post(i, e) == posts' = posts \cup {[chat |-> i, entry |-> e]}

Init ==
    /\ visit = [p \in Pages |-> "closed"]
    /\ log = [p \in Pages |-> NoEntries]
    /\ answer = [p \in Pages |-> NoEntries]
    /\ owner = [i \in Chats |-> None]
    /\ tokens = [i \in Chats |-> 0]
    /\ started = 0
    /\ rows = NoEntries
    /\ posts = {} /\ deletes = {} /\ clears = 0 /\ lost = 0
    /\ excused = {} /\ torn = {} /\ wiped = {}

-----------------------------------------------------------------------------
(* A page.                                                                 *)

\* The page loads and asks for the stored entries.
Open(p) ==
    /\ visit[p] = "closed"
    /\ visit' = [visit EXCEPT ![p] = "asked"]
    /\ UNCHANGED <<log, answer, chatVars, rows, net, history>>

\* The page is closed or reloaded: its buffer is gone and its streams end unseen.
Close(p) ==
    /\ visit[p] # "closed"
    /\ visit' = [visit EXCEPT ![p] = "closed"]
    /\ log' = [log EXCEPT ![p] = NoEntries]
    /\ answer' = [answer EXCEPT ![p] = NoEntries]
    /\ owner' = [i \in Chats |-> IF owner[i] = p THEN None ELSE owner[i]]
    /\ excused' = excused \cup {i \in Chats : owner[i] = p}
    /\ UNCHANGED <<tokens, started, rows, net, torn, wiped>>

\* startEntry
Start(p) ==
    /\ visit[p] # "closed" /\ started < MaxChats
    /\ LET i == started + 1
           e == [st |-> "streaming", text |-> 0]
       IN  /\ started' = i
           /\ owner' = [owner EXCEPT ![i] = p]
           /\ log' = [log EXCEPT ![p] = Newest(Put(@, i, e))]
           /\ Post(i, e)
    /\ UNCHANGED <<visit, answer, tokens, rows, deletes, clears, lost, history>>
\* appendToken: not sent to the backend.
Token(i) ==
    /\ owner[i] # None /\ tokens[i] < MaxTokens
    /\ tokens' = [tokens EXCEPT ![i] = @ + 1]
    /\ LET p == owner[i]
       IN  log' = IF i \in DOMAIN log[p] THEN [log EXCEPT ![p][i].text = @ + 1] ELSE log
    /\ UNCHANGED <<visit, answer, owner, started, rows, net, history>>

\* Mutants: the end of a chat is kept to the page; or posted whether the page
\* still lists the chat or not.
FinishUnsynced(i) ==
    /\ owner[i] # None
    /\ LET p == owner[i]
       IN  IF i \in DOMAIN log[p]
           THEN log' = [log EXCEPT ![p][i].st = "ended"] /\ UNCHANGED excused
           ELSE excused' = excused \cup {i} /\ UNCHANGED log
    /\ owner' = [owner EXCEPT ![i] = None]
    /\ UNCHANGED <<visit, answer, tokens, started, rows, net, torn, wiped>>

FinishAnyway(i) ==
    /\ owner[i] # None
    /\ Post(i, [st |-> "ended", text |-> tokens[i]])
    /\ owner' = [owner EXCEPT ![i] = None]
    /\ UNCHANGED <<visit, log, answer, tokens, started, rows, deletes, clears, lost, history>>

\* finishEntry, whatever the outcome: an entry that left the buffer is let go.
Finish(i) ==
    /\ owner[i] # None
    /\ LET p == owner[i]
       IN  IF i \in DOMAIN log[p]
           THEN /\ log' = [log EXCEPT ![p][i].st = "ended"]
                /\ Post(i, [log[p][i] EXCEPT !.st = "ended"])
                /\ UNCHANGED excused
           ELSE /\ excused' = excused \cup {i}
                /\ UNCHANGED <<log, posts>>
    /\ owner' = [owner EXCEPT ![i] = None]
    /\ UNCHANGED <<visit, answer, tokens, started, rows, deletes, clears, lost, torn, wiped>>

\* clear
Clear(p) ==
    /\ visit[p] # "closed" /\ clears < MaxClears
    /\ log' = [log EXCEPT ![p] = NoEntries]
    /\ clears' = clears + 1
    /\ deletes' = deletes \cup {clears'}
    /\ UNCHANGED <<visit, answer, chatVars, rows, posts, lost, history>>

\* hydrate: the listing replaces the buffer, chats that stream included.
Hydrate(p) ==
    /\ visit[p] = "answered"
    /\ log' = [log EXCEPT ![p] = answer[p]]
    /\ torn' = torn \cup {i \in DOMAIN answer[p] : owner[i] = p}
    /\ visit' = [visit EXCEPT ![p] = "ready"]
    /\ answer' = [answer EXCEPT ![p] = NoEntries]
    /\ UNCHANGED <<chatVars, rows, net, excused, wiped>>

-----------------------------------------------------------------------------
(* The backend, and the network between.                                   *)

\* The first POST of a chat arrives when it is over and the last one has arrived.
Late(m) ==
    /\ m.entry.st = "streaming" /\ owner[m.chat] = None
    /\ \A n \in posts : n.chat = m.chat => n = m

\* Mutant: the response of a row is written when it is first inserted only.
UpsertKeepsText(m) ==
    /\ m \in posts
    /\ posts' = posts \ {m}
    /\ LET i == m.chat
       IN  /\ rows' = Put(rows, i, IF i \in DOMAIN rows THEN [m.entry EXCEPT !.text = rows[i].text]
                                                        ELSE m.entry)
           /\ excused' = IF Late(m) THEN excused \cup {i} ELSE excused
    /\ UNCHANGED <<pageVars, chatVars, deletes, clears, lost, torn, wiped>>

\* upsert_ai_interaction: whichever request comes last decides.
Upsert(m) ==
    /\ m \in posts
    /\ posts' = posts \ {m}
    /\ rows' = Put(rows, m.chat, m.entry)
    /\ excused' = IF Late(m) THEN excused \cup {m.chat} ELSE excused
    /\ UNCHANGED <<pageVars, chatVars, deletes, clears, lost, torn, wiped>>

Nowhere(i) ==
    /\ \A m \in posts : m.chat # i
    /\ \A p \in Pages : i \notin DOMAIN log[p] \cup DOMAIN answer[p]

\* clear_ai_interactions
Delete(n) ==
    /\ n \in deletes
    /\ deletes' = deletes \ {n}
    /\ rows' = NoEntries
    /\ wiped' = wiped \cup {i \in 1..started : Nowhere(i)}
    /\ UNCHANGED <<pageVars, chatVars, posts, clears, lost, excused, torn>>

\* list_ai_interactions; a listing that fails is answered as an empty one.
List(p) ==
    /\ visit[p] = "asked"
    /\ \E listed \in {Newest(rows), NoEntries} : answer' = [answer EXCEPT ![p] = listed]
    /\ visit' = [visit EXCEPT ![p] = "answered"]
    /\ UNCHANGED <<log, chatVars, rows, net, history>>

\* The network drops the request, or the backend cannot open the store (503).
LosePost(m) ==
    /\ m \in posts /\ lost < MaxLost
    /\ lost' = lost + 1
    /\ posts' = posts \ {m}
    /\ excused' = IF m.entry.st = "ended" THEN excused \cup {m.chat} ELSE excused
    /\ UNCHANGED <<pageVars, chatVars, rows, deletes, clears, torn, wiped>>

LoseDelete(n) ==
    /\ n \in deletes /\ lost < MaxLost
    /\ lost' = lost + 1
    /\ deletes' = deletes \ {n}
    /\ UNCHANGED <<pageVars, chatVars, rows, posts, clears, history>>

\* hydrate's catch, and its return on a status that is not ok.
LoseList(p) ==
    /\ visit[p] \in {"asked", "answered"} /\ lost < MaxLost
    /\ lost' = lost + 1
    /\ visit' = [visit EXCEPT ![p] = "ready"]
    /\ answer' = [answer EXCEPT ![p] = NoEntries]
    /\ UNCHANGED <<log, chatVars, rows, posts, deletes, clears, history>>

Next ==
    \/ \E p \in Pages :
          \/ Open(p) \/ Close(p) \/ Start(p) \/ Clear(p)
          \/ Hydrate(p) \/ List(p) \/ LoseList(p)
    \/ \E i \in Chats : Token(i) \/ Finish(i)
    \/ \E m \in posts : Upsert(m) \/ LosePost(m)
    \/ \E n \in deletes : Delete(n) \/ LoseDelete(n)

Spec == Init /\ [][Next]_vars

-----------------------------------------------------------------------------
Entries == UNION {[S -> Entry] : S \in SUBSET Chats}

\* Types; a page that is closed has no buffer, and only a page that waits for
\* its listing has one under way.
TypeOK ==
    /\ visit \in [Pages -> {"closed", "asked", "answered", "ready"}]
    /\ log \in [Pages -> Entries]
    /\ answer \in [Pages -> Entries]
    /\ owner \in [Chats -> Pages \cup {None}]
    /\ tokens \in [Chats -> 0..MaxTokens]
    /\ started \in 0..MaxChats
    /\ rows \in Entries
    /\ posts \subseteq [chat : 1..started, entry : Entry]
    /\ deletes \subseteq 1..clears /\ clears \in 0..MaxClears /\ lost \in 0..MaxLost
    /\ excused \cup torn \cup wiped \subseteq Chats
    /\ \A p \in Pages :
          /\ visit[p] = "closed" => log[p] = NoEntries
          /\ visit[p] # "answered" => answer[p] = NoEntries
    /\ DOMAIN rows \subseteq 1..started

\* A chat that is over and has no request under way is not stored as streaming,
\* unless its page was closed, had let go of it, or lost the last POST, or the
\* first POST arrived last.
EndIsStored ==
    \A i \in DOMAIN rows \ excused :
        owner[i] = None /\ (\A m \in posts : m.chat # i) => rows[i].st = "ended"

\* An ended chat is stored with its whole answer, unless the page's own listing
\* came back while it was streaming.
AnswerIsWhole ==
    \A i \in DOMAIN rows \ torn : rows[i].st = "ended" => rows[i].text = tokens[i]

\* "Clear all logged interactions?": once the DELETE has been served, a chat
\* that neither a page nor a request still holds does not come back, though it
\* may be streaming still.
ClearedStaysCleared == \A i \in wiped : i \notin DOMAIN rows
=============================================================================
