---------------------------- MODULE RequestsProofs ----------------------------
(***************************************************************************)
(* What the log of AI conversations keeps, for any number of pages and     *)
(* chats, whatever the network reorders or loses; and what the backend's   *)
(* requests together keep of it.                                           *)
(***************************************************************************)
EXTENDS Requests, Sequences, WellFoundedInduction, TLAPS


-----------------------------------------------------------------------------
(* Buffers, listings and the table: functions from chats to entries.       *)

LEMMA IsEntries ==
  ASSUME NEW f
  PROVE  f \in Entries <=> /\ f = [i \in DOMAIN f |-> f[i]]
                           /\ DOMAIN f \subseteq Chats
                           /\ \A i \in DOMAIN f : f[i] \in Entry
<1>1. ASSUME f \in Entries
      PROVE  /\ f = [i \in DOMAIN f |-> f[i]]
             /\ DOMAIN f \subseteq Chats
             /\ \A i \in DOMAIN f : f[i] \in Entry
  <2>1. PICK S \in SUBSET Chats : f \in [S -> Entry]
    BY <1>1 DEF Entries
  <2> QED  BY <2>1
<1>2. ASSUME /\ f = [i \in DOMAIN f |-> f[i]]
             /\ DOMAIN f \subseteq Chats
             /\ \A i \in DOMAIN f : f[i] \in Entry
      PROVE  f \in Entries
  <2>1. f \in [DOMAIN f -> Entry]
    BY <1>2
  <2> QED  BY <1>2, <2>1 DEF Entries
<1> QED  BY <1>1, <1>2

LEMMA EmptyIsEntries == NoEntries \in Entries /\ DOMAIN NoEntries = {}
BY IsEntries DEF NoEntries

LEMMA PutIsEntries ==
  ASSUME NEW f \in Entries, NEW i \in Chats, NEW e \in Entry
  PROVE  /\ Put(f, i, e) \in Entries
         /\ DOMAIN Put(f, i, e) = DOMAIN f \cup {i}
         /\ Put(f, i, e)[i] = e
         /\ \A j \in DOMAIN f : j # i => Put(f, i, e)[j] = f[j]
<1> DEFINE g == Put(f, i, e)
<1>1. /\ g = [j \in DOMAIN f \cup {i} |-> IF j = i THEN e ELSE f[j]]
      /\ DOMAIN g = DOMAIN f \cup {i}
      /\ g[i] = e
      /\ \A j \in DOMAIN f : j # i => g[j] = f[j]
  BY DEF Put
<1>2. g = [j \in DOMAIN g |-> g[j]]
  BY DEF Put
<1>3. DOMAIN g \subseteq Chats /\ \A j \in DOMAIN g : g[j] \in Entry
  <2> HIDE DEF g
  <2> QED  BY <1>1, IsEntries
<1> HIDE DEF g
<1>4. g \in Entries
  BY <1>2, <1>3, IsEntries
<1> QED  BY <1>1, <1>4 DEF g

LEMMA NewestIsEntries ==
  ASSUME NEW f \in Entries
  PROVE  /\ Newest(f) \in Entries
         /\ DOMAIN Newest(f) \subseteq DOMAIN f
         /\ \A i \in DOMAIN Newest(f) : Newest(f)[i] = f[i]
<1> DEFINE g == Newest(f)
<1>1. /\ DOMAIN g \subseteq DOMAIN f
      /\ \A i \in DOMAIN g : g[i] = f[i]
      /\ g = [i \in DOMAIN g |-> g[i]]
  BY DEF Newest
<1> HIDE DEF g
<1>2. g \in Entries
  BY <1>1, IsEntries
<1> QED  BY <1>1, <1>2 DEF g

LEMMA ChangeIsEntries ==
  ASSUME NEW f \in Entries, NEW i \in DOMAIN f, NEW e \in Entry
  PROVE  /\ [f EXCEPT ![i] = e] \in Entries
         /\ DOMAIN [f EXCEPT ![i] = e] = DOMAIN f
         /\ [f EXCEPT ![i] = e][i] = e
         /\ \A j \in DOMAIN f : j # i => [f EXCEPT ![i] = e][j] = f[j]
<1> DEFINE g == [f EXCEPT ![i] = e]
<1>0. f = [j \in DOMAIN f |-> f[j]]
  BY IsEntries
<1>1. /\ DOMAIN g = DOMAIN f
      /\ g[i] = e
      /\ \A j \in DOMAIN f : j # i => g[j] = f[j]
      /\ g = [j \in DOMAIN g |-> g[j]]
  BY <1>0
<1> HIDE DEF g
<1>2. g \in Entries
  BY <1>1, IsEntries
<1> QED  BY <1>1, <1>2 DEF g

-----------------------------------------------------------------------------
(* Types.  An entry never holds more tokens than were streamed, which is   *)
(* what keeps a token within its type.                                     *)

NoMore ==
    /\ \A p \in Pages : \A i \in DOMAIN log[p] : log[p][i].text <= tokens[i]
    /\ \A p \in Pages : \A i \in DOMAIN answer[p] : answer[p][i].text <= tokens[i]
    /\ \A i \in DOMAIN rows : rows[i].text <= tokens[i]
    /\ \A m \in posts : m.entry.text <= tokens[m.chat]
    /\ \A i \in Chats : owner[i] # None => i \in 1..started

TInv == TypeOK /\ NoMore

LEMMA TypeInit == AiLogAssumption /\ Init => TInv
<1> SUFFICES ASSUME AiLogAssumption, Init PROVE TInv
  OBVIOUS
<1>1. NoEntries \in Entries /\ DOMAIN NoEntries = {}
  BY EmptyIsEntries
<1>2. /\ {Max, MaxChats, MaxTokens, MaxClears, MaxLost} \subseteq Nat
      /\ None \notin Pages
  BY DEF AiLogAssumption
<1>3. TypeOK
  BY <1>1, <1>2 DEF Init, TypeOK
<1>4. NoMore
  BY <1>1 DEF Init, NoMore
<1> QED  BY <1>3, <1>4 DEF TInv

LEMMA TypeStep == AiLogAssumption /\ TInv /\ [Next]_vars => TInv'
<1> SUFFICES ASSUME AiLogAssumption, TypeOK, NoMore, [Next]_vars PROVE TypeOK' /\ NoMore'
  BY DEF TInv
<1>0. /\ Max \in Nat /\ MaxChats \in Nat /\ MaxTokens \in Nat
      /\ MaxClears \in Nat /\ MaxLost \in Nat
      /\ None \notin Pages
  BY DEF AiLogAssumption
<1>e. NoEntries \in Entries /\ DOMAIN NoEntries = {}
  BY EmptyIsEntries
<1>n. [st |-> "streaming", text |-> 0] \in Entry
  BY <1>0 DEF Entry
<1>1. ASSUME NEW p \in Pages, Open(p) PROVE TypeOK' /\ NoMore'
  <2>1. TypeOK'
    BY <1>1 DEF Open, TypeOK, chatVars, net, history
  <2>2. NoMore'
    BY <1>1 DEF Open, NoMore, chatVars, net, history
  <2> QED  BY <2>1, <2>2
<1>2. ASSUME NEW p \in Pages, Close(p) PROVE TypeOK' /\ NoMore'
  <2>1. TypeOK'
    BY <1>2, <1>e DEF Close, TypeOK, net
  <2>2. NoMore'
    BY <1>2, <1>e, <1>0 DEF Close, NoMore, TypeOK, net
  <2> QED  BY <2>1, <2>2
<1>3. ASSUME NEW p \in Pages, Start(p) PROVE TypeOK' /\ NoMore'
  <2> DEFINE i == started + 1
             e == [st |-> "streaming", text |-> 0]
             f == Put(log[p], i, e)
  <2>1. i \in Chats /\ log[p] \in Entries
    BY <1>3, <1>0 DEF Start, TypeOK, Chats
  <2>2. /\ f \in Entries
        /\ DOMAIN f = DOMAIN log[p] \cup {i}
        /\ f[i] = e
        /\ \A j \in DOMAIN log[p] : j # i => f[j] = log[p][j]
    BY <2>1, <1>n, PutIsEntries
  <2> HIDE DEF f
  <2>3. /\ Newest(f) \in Entries
        /\ DOMAIN Newest(f) \subseteq DOMAIN f
        /\ \A j \in DOMAIN Newest(f) : Newest(f)[j] = f[j]
    BY <2>2, NewestIsEntries
  <2>4. /\ started' = i /\ started < MaxChats /\ visit[p] # "closed"
        /\ owner' = [owner EXCEPT ![i] = p]
        /\ log' = [log EXCEPT ![p] = Newest(f)]
        /\ posts' = posts \cup {[chat |-> i, entry |-> e]}
        /\ UNCHANGED <<visit, answer, tokens, rows, deletes, clears, lost, excused, torn, wiped>>
    BY <1>3 DEF Start, Post, history, f
  <2>5. e \in Entry /\ e.text = 0
    BY <1>n
  <2> HIDE DEF e
  <2>6. posts' \subseteq [chat : 1..i, entry : Entry]
    <3>1. [chat |-> i, entry |-> e] \in [chat : 1..i, entry : Entry]
      BY <2>1, <2>5 DEF Chats
    <3>2. posts \subseteq [chat : 1..i, entry : Entry]
      BY <1>0 DEF TypeOK
    <3> QED  BY <2>4, <3>1, <3>2
  <2>7. /\ i \in 0..MaxChats
        /\ DOMAIN rows \subseteq 1..i
    BY <2>4, <1>0 DEF TypeOK
  <2> HIDE DEF i
  <2>8. TypeOK'
    BY <2>1, <2>3, <2>4, <2>6, <2>7 DEF TypeOK
  <2>9. \A j \in DOMAIN f : f[j].text <= tokens[j]
    BY <2>1, <2>2, <2>5 DEF NoMore, TypeOK
  <2>10. \A j \in Chats : owner'[j] # None => j \in 1..started'
    BY <2>1, <2>4, <2>7, <1>0 DEF NoMore, TypeOK, i, Chats
  <2>11. NoMore'
    BY <2>1, <2>3, <2>4, <2>5, <2>9, <2>10 DEF NoMore, TypeOK
  <2> QED  BY <2>8, <2>11
<1>4. ASSUME NEW i \in Chats, Token(i) PROVE TypeOK' /\ NoMore'
  <2> DEFINE p == owner[i]
  <2>1. /\ p \in Pages /\ log[p] \in Entries
        /\ tokens[i] \in 0..MaxTokens /\ tokens[i] < MaxTokens
        /\ tokens' = [tokens EXCEPT ![i] = @ + 1]
        /\ UNCHANGED <<visit, answer, owner, started, rows, posts, deletes, clears, lost, excused, torn, wiped>>
    BY <1>4 DEF Token, TypeOK, net, history
  <2>2. /\ tokens' \in [Chats -> 0..MaxTokens]
        /\ \A j \in Chats : tokens[j] <= tokens'[j]
        /\ tokens'[i] = tokens[i] + 1
    BY <2>1, <1>0 DEF TypeOK
  <2>3. /\ \A q \in Pages : \A j \in DOMAIN answer[q] : answer[q][j].text <= tokens'[j]
        /\ \A j \in DOMAIN rows : rows[j].text <= tokens'[j]
        /\ \A m \in posts : m.entry.text <= tokens'[m.chat]
        /\ \A q \in Pages : \A j \in DOMAIN log[q] : log[q][j].text <= tokens'[j]
    <3>1. /\ \A q \in Pages : answer[q] \in Entries /\ log[q] \in Entries
          /\ rows \in Entries
      BY DEF TypeOK
    <3>2. \A f \in Entries : \A j \in DOMAIN f : j \in Chats /\ f[j].text \in Nat
      BY IsEntries, <1>0 DEF Entry
    <3>3. \A m \in posts : m.chat \in Chats /\ m.entry.text \in Nat
      BY <1>0 DEF TypeOK, Entry, Chats
    <3>4. \A j \in Chats : tokens[j] \in Nat /\ tokens'[j] \in Nat
      BY <2>2, <1>0 DEF TypeOK
    <3>5. \A q \in Pages : \A j \in DOMAIN answer[q] : answer[q][j].text <= tokens'[j]
      BY <3>1, <3>2, <3>4, <2>2 DEF NoMore
    <3>6. \A q \in Pages : \A j \in DOMAIN log[q] : log[q][j].text <= tokens'[j]
      BY <3>1, <3>2, <3>4, <2>2 DEF NoMore
    <3>7. \A j \in DOMAIN rows : rows[j].text <= tokens'[j]
      BY <3>1, <3>2, <3>4, <2>2 DEF NoMore
    <3>8. \A m \in posts : m.entry.text <= tokens'[m.chat]
      BY <3>3, <3>4, <2>2 DEF NoMore
    <3> QED  BY <3>5, <3>6, <3>7, <3>8
  <2>4. CASE i \in DOMAIN log[p]
    <3> DEFINE e == [log[p][i] EXCEPT !.text = @ + 1]
    <3>1. /\ log[p][i] \in Entry
          /\ log[p][i].text <= tokens[i]
      BY <2>1, <2>4, IsEntries DEF NoMore
    <3>2. e \in Entry /\ e.text <= tokens'[i]
      BY <3>1, <2>1, <2>2, <1>0 DEF Entry
    <3>3. log' = [log EXCEPT ![p] = [log[p] EXCEPT ![i] = e]]
      BY <1>4, <2>4 DEF Token
    <3> HIDE DEF e
    <3>4. /\ [log[p] EXCEPT ![i] = e] \in Entries
          /\ DOMAIN [log[p] EXCEPT ![i] = e] = DOMAIN log[p]
          /\ [log[p] EXCEPT ![i] = e][i] = e
          /\ \A j \in DOMAIN log[p] : j # i => [log[p] EXCEPT ![i] = e][j] = log[p][j]
      BY <2>1, <2>4, <3>2, ChangeIsEntries
    <3>5. visit[p] # "closed"
      BY <2>1, <2>4, <1>e DEF TypeOK
    <3> HIDE DEF p
    <3>6. TypeOK'
      BY <2>1, <2>2, <3>3, <3>4, <3>5 DEF TypeOK
    <3>7. NoMore'
      BY <2>1, <2>3, <3>2, <3>3, <3>4 DEF NoMore, TypeOK
    <3> QED  BY <3>6, <3>7
  <2>5. CASE i \notin DOMAIN log[p]
    <3>1. log' = log
      BY <1>4, <2>5 DEF Token
    <3>2. TypeOK'
      BY <2>1, <2>2, <3>1 DEF TypeOK
    <3>3. NoMore'
      BY <2>1, <2>3, <3>1 DEF NoMore
    <3> QED  BY <3>2, <3>3
  <2> QED  BY <2>4, <2>5
<1>5. ASSUME NEW i \in Chats, Finish(i) PROVE TypeOK' /\ NoMore'
  <2> DEFINE p == owner[i]
  <2>1. /\ p \in Pages /\ log[p] \in Entries
        /\ owner' = [owner EXCEPT ![i] = None]
        /\ UNCHANGED <<visit, answer, tokens, started, rows, deletes, clears, lost, torn, wiped>>
    BY <1>5 DEF Finish, TypeOK
  <2>2. CASE i \in DOMAIN log[p]
    <3> DEFINE e == [log[p][i] EXCEPT !.st = "ended"]
    <3>1. /\ log[p][i] \in Entry
          /\ log[p][i].text <= tokens[i]
      BY <2>1, <2>2, IsEntries DEF NoMore
    <3>2. e \in Entry /\ e.text <= tokens[i]
      BY <3>1 DEF Entry
    <3>3. /\ log' = [log EXCEPT ![p] = [log[p] EXCEPT ![i] = e]]
          /\ posts' = posts \cup {[chat |-> i, entry |-> e]}
          /\ excused' = excused
      BY <1>5, <2>2 DEF Finish, Post
    <3> HIDE DEF e
    <3>4. /\ [log[p] EXCEPT ![i] = e] \in Entries
          /\ DOMAIN [log[p] EXCEPT ![i] = e] = DOMAIN log[p]
          /\ [log[p] EXCEPT ![i] = e][i] = e
          /\ \A j \in DOMAIN log[p] : j # i => [log[p] EXCEPT ![i] = e][j] = log[p][j]
      BY <2>1, <2>2, <3>2, ChangeIsEntries
    <3>5. visit[p] # "closed"
      BY <2>1, <2>2, <1>e DEF TypeOK
    <3> HIDE DEF p
    <3>6. owner[i] # None /\ i \in 1..started
      BY <1>5, <2>1, <1>0 DEF Finish, NoMore
    <3>7. posts' \subseteq [chat : 1..started, entry : Entry]
      <4>1. [chat |-> i, entry |-> e] \in [chat : 1..started, entry : Entry]
        BY <3>2, <3>6
      <4> QED  BY <3>3, <4>1 DEF TypeOK
    <3>8. TypeOK'
      BY <2>1, <3>3, <3>4, <3>5, <3>7 DEF TypeOK
    <3>9. NoMore'
      BY <2>1, <3>2, <3>3, <3>4 DEF NoMore, TypeOK
    <3> QED  BY <3>8, <3>9
  <2>3. CASE i \notin DOMAIN log[p]
    <3>1. log' = log /\ posts' = posts /\ excused' = excused \cup {i}
      BY <1>5, <2>3 DEF Finish
    <3>2. TypeOK'
      BY <2>1, <3>1 DEF TypeOK
    <3>3. NoMore'
      BY <2>1, <3>1 DEF NoMore, TypeOK
    <3> QED  BY <3>2, <3>3
  <2> QED  BY <2>2, <2>3
<1>6. ASSUME NEW p \in Pages, Clear(p) PROVE TypeOK' /\ NoMore'
  <2>1. TypeOK'
    BY <1>6, <1>0, <1>e DEF Clear, TypeOK, chatVars, history
  <2>2. NoMore'
    BY <1>6, <1>e DEF Clear, NoMore, TypeOK, chatVars, history
  <2> QED  BY <2>1, <2>2
<1>7. ASSUME NEW p \in Pages, Hydrate(p) PROVE TypeOK' /\ NoMore'
  <2>0. answer[p] \in Entries /\ DOMAIN answer[p] \subseteq Chats
    BY IsEntries DEF TypeOK
  <2>1. TypeOK'
    BY <1>7, <1>e, <2>0 DEF Hydrate, TypeOK, chatVars, net
  <2>2. NoMore'
    BY <1>7, <1>e DEF Hydrate, NoMore, TypeOK, chatVars, net
  <2> QED  BY <2>1, <2>2
<1>8. ASSUME NEW m \in posts, Upsert(m) PROVE TypeOK' /\ NoMore'
  <2>1. m.chat \in Chats /\ m.chat \in 1..started /\ m.entry \in Entry
    BY <1>0 DEF TypeOK, Chats
  <2>2. /\ Put(rows, m.chat, m.entry) \in Entries
        /\ DOMAIN Put(rows, m.chat, m.entry) = DOMAIN rows \cup {m.chat}
        /\ Put(rows, m.chat, m.entry)[m.chat] = m.entry
        /\ \A j \in DOMAIN rows : j # m.chat => Put(rows, m.chat, m.entry)[j] = rows[j]
    <3>1. rows \in Entries
      BY DEF TypeOK
    <3> QED  BY ONLY <2>1, <3>1, PutIsEntries, Zenon
  <2>3. /\ posts' = posts \ {m}
        /\ rows' = Put(rows, m.chat, m.entry)
        /\ excused' \subseteq Chats
        /\ UNCHANGED <<pageVars, chatVars, deletes, clears, lost, torn, wiped>>
    <3>1. excused' \subseteq Chats
      BY <1>8, <2>1, Zenon DEF Upsert, TypeOK
    <3>2. posts' = posts \ {m} /\ rows' = Put(rows, m.chat, m.entry)
      BY <1>8 DEF Upsert
    <3>3. UNCHANGED <<pageVars, chatVars, deletes, clears, lost, torn, wiped>>
      BY <1>8 DEF Upsert
    <3> QED  BY <3>1, <3>2, <3>3
  <2>4. TypeOK'
    BY <2>1, <2>2, <2>3 DEF TypeOK, pageVars, chatVars
  <2>5. NoMore'
    BY <2>1, <2>2, <2>3 DEF NoMore, TypeOK, pageVars, chatVars
  <2> QED  BY <2>4, <2>5
<1>9. ASSUME NEW n \in deletes, Delete(n) PROVE TypeOK' /\ NoMore'
  <2>0. 1..started \subseteq Chats
    BY <1>0 DEF TypeOK, Chats
  <2>1. wiped' \subseteq Chats
    BY <1>9, <2>0 DEF Delete, TypeOK
  <2>2. TypeOK'
    BY <1>9, <1>e, <2>1 DEF Delete, TypeOK, pageVars, chatVars
  <2>3. NoMore'
    BY <1>9, <1>e DEF Delete, NoMore, pageVars, chatVars
  <2> QED  BY <2>2, <2>3
<1>10. ASSUME NEW p \in Pages, List(p) PROVE TypeOK' /\ NoMore'
  <2>1. /\ Newest(rows) \in Entries
        /\ DOMAIN Newest(rows) \subseteq DOMAIN rows
        /\ \A j \in DOMAIN Newest(rows) : Newest(rows)[j] = rows[j]
    BY NewestIsEntries DEF TypeOK
  <2>2. PICK listed \in {Newest(rows), NoEntries} : answer' = [answer EXCEPT ![p] = listed]
    BY <1>10 DEF List
  <2>3. /\ listed \in Entries
        /\ DOMAIN listed \subseteq DOMAIN rows
        /\ \A j \in DOMAIN listed : listed[j] = rows[j]
    BY <2>1, <2>2, <1>e
  <2>4. TypeOK'
    BY <1>10, <2>2, <2>3 DEF List, TypeOK, chatVars, net, history
  <2>5. NoMore'
    BY <1>10, <2>2, <2>3 DEF List, NoMore, TypeOK, chatVars, net, history
  <2> QED  BY <2>4, <2>5
<1>11. ASSUME NEW m \in posts, LosePost(m) PROVE TypeOK' /\ NoMore'
  <2>0. m.chat \in Chats
    BY <1>0 DEF TypeOK, Chats
  <2>1. excused' \subseteq Chats
    BY <1>11, <2>0 DEF LosePost, TypeOK
  <2>2. TypeOK'
    BY <1>11, <1>0, <2>1 DEF LosePost, TypeOK, pageVars, chatVars
  <2>3. NoMore'
    BY <1>11 DEF LosePost, NoMore, pageVars, chatVars
  <2> QED  BY <2>2, <2>3
<1>12. ASSUME NEW n \in deletes, LoseDelete(n) PROVE TypeOK' /\ NoMore'
  <2>1. TypeOK'
    BY <1>12, <1>0 DEF LoseDelete, TypeOK, pageVars, chatVars, history
  <2>2. NoMore'
    BY <1>12 DEF LoseDelete, NoMore, pageVars, chatVars, history
  <2> QED  BY <2>1, <2>2
<1>13. ASSUME NEW p \in Pages, LoseList(p) PROVE TypeOK' /\ NoMore'
  <2>1. TypeOK'
    BY <1>13, <1>0, <1>e DEF LoseList, TypeOK, chatVars, history
  <2>2. NoMore'
    BY <1>13, <1>e DEF LoseList, NoMore, TypeOK, chatVars, history
  <2> QED  BY <2>1, <2>2
<1>14. CASE UNCHANGED vars
  <2>1. TypeOK'
    BY <1>14 DEF vars, pageVars, chatVars, net, history, TypeOK
  <2>2. NoMore'
    BY <1>14 DEF vars, pageVars, chatVars, net, history, NoMore
  <2> QED  BY <2>1, <2>2
<1> QED
  BY <1>1, <1>2, <1>3, <1>4, <1>5, <1>6, <1>7, <1>8, <1>9, <1>10, <1>11, <1>12,
     <1>13, <1>14 DEF Next

LEMMA Typed == Spec => []TInv
<1>1. AiLogAssumption
  BY AiLogAssumption
<1>2. Init => TInv
  BY <1>1, TypeInit
<1>3. TInv /\ [Next]_vars => TInv'
  BY <1>1, TypeStep
<1> QED  BY <1>2, <1>3, PTL DEF Spec

\* ailog.ts and logs.rs: buffers, listings, table and requests stay in their types.
THEOREM TypeCorrect == Spec => []TypeOK
<1>1. TInv => TypeOK
  BY DEF TInv
<1> QED  BY <1>1, Typed, PTL

-----------------------------------------------------------------------------
(* A chat that was cleared everywhere is not started again, so no page, no *)
(* listing and no request can bring it back.                               *)

Gone == \A i \in wiped : i \in 1..started /\ Nowhere(i) /\ i \notin DOMAIN rows

LEMMA GoneStep == AiLogAssumption /\ TInv /\ Gone /\ [Next]_vars => Gone'
<1> SUFFICES ASSUME AiLogAssumption, TypeOK, NoMore, Gone, [Next]_vars PROVE Gone'
  BY DEF TInv
<1>0. /\ MaxChats \in Nat /\ started \in 0..MaxChats /\ wiped \subseteq Chats
      /\ \A p \in Pages : log[p] \in Entries /\ answer[p] \in Entries
      /\ log \in [Pages -> Entries] /\ answer \in [Pages -> Entries]
      /\ rows \in Entries
      /\ owner \in [Chats -> Pages \cup {None}] /\ None \notin Pages
  BY DEF AiLogAssumption, TypeOK
<1>e. DOMAIN NoEntries = {}
  BY EmptyIsEntries
<1> USE DEF Gone, Nowhere
<1>1. ASSUME NEW p \in Pages, Open(p) PROVE Gone'
  BY <1>1 DEF Open, chatVars, net, history
<1>2. ASSUME NEW p \in Pages, Close(p) PROVE Gone'
  BY <1>2, <1>0, <1>e DEF Close, net
<1>3. ASSUME NEW p \in Pages, Start(p) PROVE Gone'
  <2> DEFINE i == started + 1
             e == [st |-> "streaming", text |-> 0]
             f == Put(log[p], i, e)
  <2>1. i \in Chats /\ e \in Entry
    BY <1>3, <1>0 DEF Start, Chats, AiLogAssumption, Entry
  <2>2. f \in Entries /\ DOMAIN f = DOMAIN log[p] \cup {i}
    <3>1. log[p] \in Entries
      BY <1>0
    <3> HIDE DEF e, i
    <3> QED  BY <2>1, <3>1, PutIsEntries
  <2>3. DOMAIN Newest(f) \subseteq DOMAIN log[p] \cup {i}
    BY <2>2, NewestIsEntries
  <2>4. /\ started' = i
        /\ log' = [log EXCEPT ![p] = Newest(f)]
        /\ posts' = posts \cup {[chat |-> i, entry |-> e]}
        /\ UNCHANGED <<answer, rows, wiped>>
    BY <1>3 DEF Start, Post, history
  <2> HIDE DEF f, e
  <2>5. \A j \in wiped : j \in 1..started' /\ j # i
    BY <2>4, <1>0
  <2> HIDE DEF i
  <2> QED  BY <2>3, <2>4, <2>5, <1>0
<1>4. ASSUME NEW i \in Chats, Token(i) PROVE Gone'
  <2>1. \A p \in Pages : DOMAIN log'[p] = DOMAIN log[p]
    BY <1>4, <1>0 DEF Token
  <2> QED  BY <1>4, <2>1 DEF Token, net, history
<1>5. ASSUME NEW i \in Chats, Finish(i) PROVE Gone'
  <2>1. \A p \in Pages : DOMAIN log'[p] = DOMAIN log[p]
    BY <1>5, <1>0 DEF Finish
  <2>2. \A m \in posts' : m \in posts \/ (m.chat = i /\ i \in DOMAIN log[owner[i]])
    BY <1>5 DEF Finish, Post
  <2>3. owner[i] \in Pages /\ UNCHANGED <<answer, started, rows, wiped>>
    BY <1>5, <1>0 DEF Finish
  <2> QED  BY <2>1, <2>2, <2>3
<1>6. ASSUME NEW p \in Pages, Clear(p) PROVE Gone'
  BY <1>6, <1>0, <1>e DEF Clear, chatVars, history
<1>7. ASSUME NEW p \in Pages, Hydrate(p) PROVE Gone'
  BY <1>7, <1>0, <1>e DEF Hydrate, chatVars, net
<1>8. ASSUME NEW m \in posts, Upsert(m) PROVE Gone'
  <2>1. /\ posts' = posts \ {m}
        /\ DOMAIN rows' = DOMAIN rows \cup {m.chat}
        /\ UNCHANGED <<log, answer, started, wiped>>
    BY <1>8 DEF Upsert, Put, pageVars, chatVars
  <2> QED  BY <2>1
<1>9. ASSUME NEW n \in deletes, Delete(n) PROVE Gone'
  BY <1>9, <1>e DEF Delete, pageVars, chatVars
<1>10. ASSUME NEW p \in Pages, List(p) PROVE Gone'
  <2>1. PICK listed \in {Newest(rows), NoEntries} : answer' = [answer EXCEPT ![p] = listed]
    BY <1>10 DEF List
  <2>2. DOMAIN listed \subseteq DOMAIN rows
    BY <2>1, <1>0, <1>e, NewestIsEntries
  <2> QED  BY <1>10, <1>0, <2>1, <2>2 DEF List, chatVars, net, history
<1>11. ASSUME NEW m \in posts, LosePost(m) PROVE Gone'
  BY <1>11 DEF LosePost, pageVars, chatVars
<1>12. ASSUME NEW n \in deletes, LoseDelete(n) PROVE Gone'
  BY <1>12 DEF LoseDelete, pageVars, chatVars, history
<1>13. ASSUME NEW p \in Pages, LoseList(p) PROVE Gone'
  BY <1>13, <1>0, <1>e DEF LoseList, chatVars, history
<1>14. CASE UNCHANGED vars
  BY <1>14 DEF vars, pageVars, chatVars, net, history
<1> QED
  BY <1>1, <1>2, <1>3, <1>4, <1>5, <1>6, <1>7, <1>8, <1>9, <1>10, <1>11, <1>12,
     <1>13, <1>14 DEF Next

\* A chat that a served DELETE found in the store only never comes back,
\* whatever other pages, listings and late requests do.
THEOREM StaysCleared == Spec => []ClearedStaysCleared
<1>1. AiLogAssumption
  BY AiLogAssumption
<1>2. Init => Gone
  BY DEF Init, Gone
<1>3. TInv /\ Gone /\ [Next]_vars => Gone'
  BY <1>1, GoneStep
<1>4. Gone => ClearedStaysCleared
  BY DEF Gone, ClearedStaysCleared
<1> QED  BY <1>2, <1>3, <1>4, Typed, PTL DEF Spec

-----------------------------------------------------------------------------
(* The text of an ended chat is what was streamed: a chat that is over has *)
(* had all its tokens, and while it streams its own page's buffer has them. *)

Whole ==
    /\ \A m \in posts :
          m.entry.st = "ended" /\ m.chat \notin torn =>
              owner[m.chat] = None /\ m.entry.text = tokens[m.chat]
    /\ \A i \in DOMAIN rows :
          i \notin torn /\ rows[i].st = "ended" =>
              owner[i] = None /\ rows[i].text = tokens[i]
    /\ \A p \in Pages : \A i \in DOMAIN log[p] :
          i \notin torn /\ owner[i] = p => log[p][i].text = tokens[i]
    /\ \A i \in Chats : i \notin 1..started => tokens[i] = 0

LEMMA WholeStep == AiLogAssumption /\ TInv /\ Whole /\ [Next]_vars => Whole'
<1> SUFFICES ASSUME AiLogAssumption, TypeOK, NoMore, Whole, [Next]_vars PROVE Whole'
  BY DEF TInv
<1>0. /\ MaxChats \in Nat /\ MaxTokens \in Nat /\ started \in 0..MaxChats
      /\ log \in [Pages -> Entries] /\ answer \in [Pages -> Entries]
      /\ rows \in Entries /\ DOMAIN rows \subseteq 1..started
      /\ owner \in [Chats -> Pages \cup {None}] /\ None \notin Pages
      /\ tokens \in [Chats -> 0..MaxTokens]
      /\ \A m \in posts : m.chat \in 1..started /\ m.chat \in Chats /\ m.entry \in Entry
      /\ \A i \in Chats : owner[i] # None => i \in 1..started
      /\ 1..started \subseteq Chats
  BY DEF AiLogAssumption, TypeOK, NoMore, Chats
<1>e. DOMAIN NoEntries = {}
  BY EmptyIsEntries
<1>f. \A g \in Entries : \A j \in DOMAIN g : j \in Chats /\ g[j] \in Entry
  BY IsEntries
<1> USE DEF Whole
<1>1. ASSUME NEW p \in Pages, Open(p) PROVE Whole'
  BY <1>1 DEF Open, chatVars, net, history
<1>2. ASSUME NEW p \in Pages, Close(p) PROVE Whole'
  <2>1. \A i \in Chats : owner'[i] = owner[i] \/ owner'[i] = None
    BY <1>2, <1>0 DEF Close
  <2>2. \A q \in Pages : log'[q] = log[q] \/ DOMAIN log'[q] = {}
    BY <1>2, <1>0, <1>e DEF Close
  <2> QED  BY <1>2, <1>0, <1>f, <2>1, <2>2 DEF Close, net
<1>3. ASSUME NEW p \in Pages, Start(p) PROVE Whole'
  <2> DEFINE i == started + 1
             e == [st |-> "streaming", text |-> 0]
             f == Put(log[p], i, e)
  <2>1. i \in Chats /\ e \in Entry /\ e.text = 0 /\ e.st = "streaming" /\ i \notin 1..started
    BY <1>3, <1>0 DEF Start, Chats, AiLogAssumption, Entry
  <2>2. /\ f \in Entries /\ DOMAIN f = DOMAIN log[p] \cup {i}
        /\ f[i] = e
        /\ \A j \in DOMAIN log[p] : j # i => f[j] = log[p][j]
    <3> DEFINE l == log[p]
    <3>1. l \in Entries
      BY <1>0
    <3> HIDE DEF e, i, l
    <3>2. i \in Chats /\ e \in Entry
      BY <2>1
    <3>3. /\ f \in Entries /\ DOMAIN f = DOMAIN l \cup {i} /\ f[i] = e
          /\ \A j \in DOMAIN l : j # i => f[j] = l[j]
      <4>1. f = Put(l, i, e)
        BY DEF l
      <4>2. Put(l, i, e) \in Entries /\ DOMAIN Put(l, i, e) = DOMAIN l \cup {i}
        BY <3>1, <3>2, PutIsEntries
      <4>3. Put(l, i, e)[i] = e
        BY <3>1, <3>2, PutIsEntries
      <4>4. \A j \in DOMAIN l : j # i => Put(l, i, e)[j] = l[j]
        BY DEF Put
      <4> HIDE DEF f
      <4> QED  BY <4>1, <4>2, <4>3, <4>4
    <3> QED  BY <3>3 DEF l
  <2>3. /\ DOMAIN Newest(f) \subseteq DOMAIN f
        /\ \A j \in DOMAIN Newest(f) : Newest(f)[j] = f[j]
    BY <2>2, NewestIsEntries
  <2>4. /\ started' = i
        /\ owner' = [owner EXCEPT ![i] = p]
        /\ log' = [log EXCEPT ![p] = Newest(f)]
        /\ posts' = posts \cup {[chat |-> i, entry |-> e]}
        /\ UNCHANGED <<answer, rows, tokens, torn>>
    BY <1>3 DEF Start, Post, history
  <2> HIDE DEF f, e
  <2>5. \A j \in Chats : j \notin 1..started' => tokens'[j] = 0
    BY <2>4, <1>0
  <2>6. tokens[i] = 0
    BY <2>1
  <2> HIDE DEF i
  <2>7. \A m \in posts' : m.entry.st = "ended" => m \in posts /\ m.chat # i
    BY <2>1, <2>4, <1>0
  <2>8. \A q \in Pages : \A j \in DOMAIN log'[q] :
           j \notin torn /\ owner'[j] = q => log'[q][j].text = tokens[j]
    <3> SUFFICES ASSUME NEW q \in Pages, NEW j \in DOMAIN log'[q], j \notin torn, owner'[j] = q
                 PROVE  log'[q][j].text = tokens[j]
      OBVIOUS
    <3>1. CASE q = p
      <4>1. log'[q] = Newest(f)
        BY <2>4, <1>0, <3>1
      <4>2. j \in DOMAIN f /\ log'[q][j] = f[j]
        BY <4>1, <2>3
      <4>3. CASE j = i
        BY <4>2, <4>3, <2>1, <2>2, <2>6
      <4>4. CASE j # i
        BY <4>2, <4>4, <2>2, <2>4, <1>0, <1>f, <3>1
      <4> QED  BY <4>3, <4>4
    <3>2. CASE q # p
      BY <3>2, <2>1, <2>4, <1>0, <1>f
    <3> QED  BY <3>1, <3>2
  <2> QED  BY <2>1, <2>4, <2>5, <2>7, <2>8, <1>0
<1>4. ASSUME NEW i \in Chats, Token(i) PROVE Whole'
  <2>1. /\ owner[i] \in Pages
        /\ tokens' = [tokens EXCEPT ![i] = @ + 1]
        /\ UNCHANGED <<owner, started, rows, posts, torn>>
    BY <1>4, <1>0 DEF Token, net, history
  <2>2. /\ \A j \in Chats : j # i => tokens'[j] = tokens[j]
        /\ tokens'[i] = tokens[i] + 1
        /\ owner[i] # None /\ i \in 1..started
    BY <2>1, <1>0
  <2>3. \A q \in Pages : \A j \in DOMAIN log'[q] :
           j \notin torn /\ owner[j] = q => log'[q][j].text = tokens'[j]
    <3> SUFFICES ASSUME NEW q \in Pages, NEW j \in DOMAIN log'[q], j \notin torn, owner[j] = q
                 PROVE  log'[q][j].text = tokens'[j]
      OBVIOUS
    <3>1. DOMAIN log'[q] = DOMAIN log[q]
      BY <1>4, <1>0 DEF Token
    <3>2. CASE j = i
      <4>1. log'[q][i].text = log[q][i].text + 1
        <5>1. log' = [log EXCEPT ![q][i].text = @ + 1]
          BY <1>4, <3>1, <3>2 DEF Token
        <5>2. log'[q][i] = [log[q][i] EXCEPT !.text = @ + 1]
          BY <5>1, <1>0, <3>1, <3>2
        <5>3. log[q][i] \in Entry
          BY <1>0, <1>f, <3>1, <3>2
        <5> QED  BY <5>2, <5>3 DEF Entry
      <4> QED  BY <4>1, <2>2, <3>1, <3>2
    <3>3. CASE j # i
      <4>1. log'[q][j] = log[q][j]
        BY <1>4, <1>0, <3>1, <3>3 DEF Token
      <4>2. log[q] \in Entries
        BY <1>0
      <4>3. j \in Chats /\ j \in DOMAIN log[q]
        BY <4>2, <3>1, <1>f
      <4>4. log[q][j].text = tokens[j]
        BY <4>3
      <4>5. tokens'[j] = tokens[j]
        BY <4>3, <3>3, <2>2
      <4> QED  BY <4>1, <4>4, <4>5
    <3> QED  BY <3>2, <3>3
  <2>4. \A j \in Chats : j \notin 1..started' => tokens'[j] = 0
    BY <2>1, <2>2
  <2>5. \A m \in posts' :
          m.entry.st = "ended" /\ m.chat \notin torn' =>
              owner'[m.chat] = None /\ m.entry.text = tokens'[m.chat]
    BY <2>1, <2>2, <1>0
  <2>6. \A j \in DOMAIN rows' :
          j \notin torn' /\ rows'[j].st = "ended" =>
              owner'[j] = None /\ rows'[j].text = tokens'[j]
    BY <2>1, <2>2, <1>0
  <2> QED  BY <2>1, <2>3, <2>4, <2>5, <2>6
<1>5. ASSUME NEW i \in Chats, Finish(i) PROVE Whole'
  <2> DEFINE p == owner[i]
  <2>1. /\ p \in Pages
        /\ owner' = [owner EXCEPT ![i] = None]
        /\ UNCHANGED <<tokens, started, rows, torn>>
    BY <1>5, <1>0 DEF Finish
  <2>2. /\ owner'[i] = None
        /\ \A j \in Chats : j # i => owner'[j] = owner[j]
    BY <2>1, <1>0
  <2>3. CASE i \in DOMAIN log[p]
    <3> DEFINE e == [log[p][i] EXCEPT !.st = "ended"]
    <3>1. /\ log' = [log EXCEPT ![p] = [log[p] EXCEPT ![i] = e]]
          /\ posts' = posts \cup {[chat |-> i, entry |-> e]}
      BY <1>5, <2>3 DEF Finish, Post
    <3>2. log[p][i] \in Entry
      BY <1>0, <1>f, <2>1, <2>3
    <3>3. e.text = log[p][i].text
      BY <3>2 DEF Entry
    <3>4. i \notin torn => e.text = tokens[i]
      BY <3>3, <2>1, <2>3
    <3> HIDE DEF e, p
    <3>5. \A q \in Pages : \A j \in DOMAIN log'[q] : j # i =>
            j \in DOMAIN log[q] /\ log'[q][j] = log[q][j]
      BY <3>1, <1>0, <2>1
    <3>6. \A m \in posts' :
            m.entry.st = "ended" /\ m.chat \notin torn' =>
                owner'[m.chat] = None /\ m.entry.text = tokens'[m.chat]
      BY <3>1, <3>4, <2>1, <2>2, <1>0
    <3>7. \A q \in Pages : \A j \in DOMAIN log'[q] :
            j \notin torn' /\ owner'[j] = q => log'[q][j].text = tokens'[j]
      <4>1. \A q \in Pages : DOMAIN log'[q] \subseteq Chats
        <5>1. \A q \in Pages : DOMAIN log'[q] = DOMAIN log[q]
          BY <3>1, <1>0, <2>1
        <5> QED  BY <5>1, <1>0, <1>f
      <4> QED  BY <3>5, <4>1, <2>1, <2>2, <1>0
    <3> QED  BY <3>6, <3>7, <2>1, <2>2, <1>0
  <2>4. CASE i \notin DOMAIN log[p]
    <3>1. log' = log /\ posts' = posts
      BY <1>5, <2>4 DEF Finish
    <3> HIDE DEF p
    <3>2. \A q \in Pages : \A j \in DOMAIN log'[q] :
            j \notin torn' /\ owner'[j] = q => log'[q][j].text = tokens'[j]
      BY <3>1, <2>1, <2>2, <1>0, <1>f
    <3> QED  BY <3>1, <3>2, <2>1, <2>2, <1>0
  <2> QED  BY <2>3, <2>4
<1>6. ASSUME NEW p \in Pages, Clear(p) PROVE Whole'
  BY <1>6, <1>0, <1>e DEF Clear, chatVars, history
<1>7. ASSUME NEW p \in Pages, Hydrate(p) PROVE Whole'
  <2>1. /\ log' = [log EXCEPT ![p] = answer[p]]
        /\ torn' = torn \cup {i \in DOMAIN answer[p] : owner[i] = p}
        /\ UNCHANGED <<owner, tokens, started, rows, posts>>
    BY <1>7 DEF Hydrate, chatVars, net
  <2>2. \A q \in Pages : \A j \in DOMAIN log'[q] :
            j \notin torn' /\ owner[j] = q => log'[q][j].text = tokens[j]
    <3>1. log'[p] = answer[p] /\ \A q \in Pages : q # p => log'[q] = log[q]
      BY <2>1, <1>0
    <3> QED  BY <2>1, <3>1
  <2> QED  BY <2>1, <2>2
<1>8. ASSUME NEW m \in posts, Upsert(m) PROVE Whole'
  <2>1. /\ posts' = posts \ {m}
        /\ rows' = Put(rows, m.chat, m.entry)
        /\ UNCHANGED <<log, owner, tokens, started, torn>>
    BY <1>8 DEF Upsert, pageVars, chatVars
  <2>2. /\ DOMAIN rows' = DOMAIN rows \cup {m.chat}
        /\ rows'[m.chat] = m.entry
        /\ \A j \in DOMAIN rows : j # m.chat => rows'[j] = rows[j]
    BY <2>1 DEF Put
  <2> QED  BY <2>1, <2>2
<1>9. ASSUME NEW n \in deletes, Delete(n) PROVE Whole'
  BY <1>9, <1>e DEF Delete, pageVars, chatVars
<1>10. ASSUME NEW p \in Pages, List(p) PROVE Whole'
  BY <1>10 DEF List, chatVars, net, history
<1>11. ASSUME NEW m \in posts, LosePost(m) PROVE Whole'
  BY <1>11 DEF LosePost, pageVars, chatVars
<1>12. ASSUME NEW n \in deletes, LoseDelete(n) PROVE Whole'
  BY <1>12 DEF LoseDelete, pageVars, chatVars, history
<1>13. ASSUME NEW p \in Pages, LoseList(p) PROVE Whole'
  BY <1>13 DEF LoseList, chatVars, history
<1>14. CASE UNCHANGED vars
  BY <1>14 DEF vars, pageVars, chatVars, net, history
<1> QED
  BY <1>1, <1>2, <1>3, <1>4, <1>5, <1>6, <1>7, <1>8, <1>9, <1>10, <1>11, <1>12,
     <1>13, <1>14 DEF Next

\* A chat stored as ended has the whole answer, unless its page's own listing
\* came back while it was streaming: neither another page, nor eviction, nor a
\* late or lost request can cut it short.
THEOREM StoredWhole == Spec => []AnswerIsWhole
<1>1. AiLogAssumption
  BY AiLogAssumption
<1>2. Init => Whole
  BY EmptyIsEntries DEF Init, Whole
<1>3. TInv /\ Whole /\ [Next]_vars => Whole'
  BY <1>1, WholeStep
<1>4. Whole => AnswerIsWhole
  BY DEF Whole, AnswerIsWhole
<1> QED  BY <1>2, <1>3, <1>4, Typed, PTL DEF Spec

-----------------------------------------------------------------------------
(* A chat that is over and stored as streaming has its last POST under way. *)

Settled ==
    /\ \A m \in posts : m.entry.st = "streaming" => m.entry.text = 0
    /\ \A i \in DOMAIN rows :
          i \notin excused /\ owner[i] = None /\ rows[i].st = "streaming" =>
              \E m \in posts : m.chat = i /\ m.entry.st = "ended"

LEMMA SettledStep == AiLogAssumption /\ TypeOK /\ Settled /\ [Next]_vars => Settled'
<1> SUFFICES ASSUME AiLogAssumption, TypeOK, Settled, [Next]_vars PROVE Settled'
  OBVIOUS
<1>0. /\ started \in 0..MaxChats /\ MaxChats \in Nat
      /\ owner \in [Chats -> Pages \cup {None}] /\ None \notin Pages
      /\ rows \in Entries /\ DOMAIN rows \subseteq 1..started /\ 1..started \subseteq Chats
      /\ posts \subseteq [chat : 1..started, entry : Entry]
  BY DEF AiLogAssumption, TypeOK, Chats
<1>e. DOMAIN NoEntries = {}
  BY EmptyIsEntries
<1> USE DEF Settled
<1>1. ASSUME NEW p \in Pages, Open(p) PROVE Settled'
  BY <1>1 DEF Open, chatVars, net, history
<1>2. ASSUME NEW p \in Pages, Close(p) PROVE Settled'
  <2>1. \A i \in Chats : i \notin excused' => owner'[i] = owner[i]
    BY <1>2 DEF Close
  <2> QED  BY <1>2, <1>0, <2>1 DEF Close, net
<1>3. ASSUME NEW p \in Pages, Start(p) PROVE Settled'
  <2> DEFINE i == started + 1
             e == [st |-> "streaming", text |-> 0]
  <2>1. /\ owner' = [owner EXCEPT ![i] = p]
        /\ posts' = posts \cup {[chat |-> i, entry |-> e]}
        /\ UNCHANGED <<rows, excused>>
    BY <1>3 DEF Start, Post, history
  <2>2. \A j \in DOMAIN rows : j # i /\ j \in Chats
    BY <1>0
  <2>3. \A j \in DOMAIN rows : owner'[j] = owner[j]
    BY <2>1, <2>2, <1>0
  <2>4. \A m \in posts' : m.entry.st = "streaming" => m.entry.text = 0
    BY <2>1
  <2> QED  BY <2>1, <2>3, <2>4
<1>4. ASSUME NEW i \in Chats, Token(i) PROVE Settled'
  BY <1>4 DEF Token, net, history
<1>5. ASSUME NEW i \in Chats, Finish(i) PROVE Settled'
  <2> DEFINE p == owner[i]
             e == [log[p][i] EXCEPT !.st = "ended"]
  <2>1. /\ \A j \in Chats : j # i => owner'[j] = owner[j]
        /\ rows' = rows
    BY <1>5, <1>0 DEF Finish
  <2>2. CASE i \in DOMAIN log[p]
    <3>1. posts' = posts \cup {[chat |-> i, entry |-> e]} /\ excused' = excused
      BY <1>5, <2>2 DEF Finish, Post
    <3>2. p \in Pages
      BY <1>5, <1>0 DEF Finish
    <3>3. log[p] \in Entries
      BY <3>2 DEF TypeOK
    <3>4. log[p][i] \in Entry
      BY <3>3, <2>2, IsEntries
    <3>5. e.st = "ended"
      BY <3>4 DEF Entry
    <3> HIDE DEF e, p
    <3>6. \A m \in posts' : m.entry.st = "streaming" => m.entry.text = 0
      BY <3>1, <3>5
    <3>7. \E m \in posts' : m.chat = i /\ m.entry.st = "ended"
      <4> DEFINE m == [chat |-> i, entry |-> e]
      <4>1. m \in posts'
        BY <3>1
      <4>2. m.chat = i /\ m.entry = e
        OBVIOUS
      <4> HIDE DEF m
      <4> QED  BY <4>1, <4>2, <3>5
    <3> QED  BY <2>1, <3>1, <3>6, <3>7, <1>0
  <2>3. CASE i \notin DOMAIN log[p]
    <3>1. posts' = posts /\ excused' = excused \cup {i}
      BY <1>5, <2>3 DEF Finish
    <3> QED  BY <2>1, <3>1, <1>0
  <2> QED  BY <2>2, <2>3
<1>6. ASSUME NEW p \in Pages, Clear(p) PROVE Settled'
  BY <1>6 DEF Clear, chatVars, history
<1>7. ASSUME NEW p \in Pages, Hydrate(p) PROVE Settled'
  BY <1>7 DEF Hydrate, chatVars, net
<1>8. ASSUME NEW m \in posts, Upsert(m) PROVE Settled'
  <2>1. /\ posts' = posts \ {m}
        /\ rows' = Put(rows, m.chat, m.entry)
        /\ owner' = owner
        /\ excused' = IF Late(m) THEN excused \cup {m.chat} ELSE excused
    BY <1>8 DEF Upsert, chatVars
  <2>2. /\ DOMAIN rows' = DOMAIN rows \cup {m.chat}
        /\ rows'[m.chat] = m.entry
        /\ \A j \in DOMAIN rows : j # m.chat => rows'[j] = rows[j]
    BY <2>1 DEF Put
  <2>3. ASSUME m.chat \notin excused', owner[m.chat] = None, m.entry.st = "streaming"
        PROVE  \E n \in posts' : n.chat = m.chat /\ n.entry.st = "ended"
    <3>1. ~Late(m)
      BY <2>1, <2>3
    <3>2. PICK n \in posts : n.chat = m.chat /\ n # m
      BY <3>1, <2>3 DEF Late
    <3>3. n.entry.st = "ended"
      <4> SUFFICES ASSUME n.entry.st # "ended" PROVE FALSE
        OBVIOUS
      <4>1. n \in [chat : 1..started, entry : Entry] /\ m \in [chat : 1..started, entry : Entry]
        BY <1>0
      <4>2. n.entry \in Entry /\ m.entry \in Entry
        BY <4>1
      <4>3. n.entry.st = "streaming"
        BY <4>2 DEF Entry
      <4>4. n.entry.text = 0 /\ m.entry.text = 0
        BY <4>3, <2>3
      <4>5. n.entry = m.entry
        BY <4>2, <4>3, <4>4, <2>3 DEF Entry
      <4> QED  BY <4>1, <4>5, <3>2
    <3> QED  BY <3>2, <3>3, <2>1
  <2>4. \A j \in DOMAIN rows : j # m.chat /\ j \notin excused' /\ owner[j] = None /\ rows[j].st = "streaming"
           => \E n \in posts' : n.chat = j /\ n.entry.st = "ended"
    BY <2>1
  <2> QED  BY <2>1, <2>2, <2>3, <2>4
<1>9. ASSUME NEW n \in deletes, Delete(n) PROVE Settled'
  BY <1>9, <1>e DEF Delete, chatVars
<1>10. ASSUME NEW p \in Pages, List(p) PROVE Settled'
  BY <1>10 DEF List, chatVars, net, history
<1>11. ASSUME NEW m \in posts, LosePost(m) PROVE Settled'
  BY <1>11 DEF LosePost, chatVars
<1>12. ASSUME NEW n \in deletes, LoseDelete(n) PROVE Settled'
  BY <1>12 DEF LoseDelete, chatVars, history
<1>13. ASSUME NEW p \in Pages, LoseList(p) PROVE Settled'
  BY <1>13 DEF LoseList, chatVars, history
<1>14. CASE UNCHANGED vars
  BY <1>14 DEF vars, chatVars, net, history
<1> QED
  BY <1>1, <1>2, <1>3, <1>4, <1>5, <1>6, <1>7, <1>8, <1>9, <1>10, <1>11, <1>12,
     <1>13, <1>14 DEF Next

\* Once a chat is over and nothing of it is under way, the store says that it
\* has ended, unless a request was lost or overtaken, or its page let it go.
THEOREM EndStored == Spec => []EndIsStored
<1>1. AiLogAssumption
  BY AiLogAssumption
<1>2. Init => Settled
  BY EmptyIsEntries DEF Init, Settled
<1>3. TInv /\ Settled /\ [Next]_vars => Settled'
  BY <1>1, SettledStep DEF TInv
<1>4. TInv /\ Settled => EndIsStored
  <2> SUFFICES ASSUME TypeOK, Settled, NEW i \in DOMAIN rows, i \notin excused,
                      owner[i] = None, \A m \in posts : m.chat # i
               PROVE  rows[i].st = "ended"
    BY DEF TInv, EndIsStored
  <2>1. rows[i] \in Entry
    BY IsEntries DEF TypeOK
  <2>2. rows[i].st # "streaming"
    BY DEF Settled
  <2> QED  BY <2>1, <2>2 DEF Entry
<1> QED  BY <1>2, <1>3, <1>4, Typed, PTL DEF Spec

-----------------------------------------------------------------------------
(* The actual plan, for any batches.  A batch in flight is the one asked,  *)
(* what is left of it is part of it, and outside of the transaction there  *)
(* is something left to run only if the batch itself rolled back.          *)
\* Only a page that waits has a request at the backend.
OneRequest == handler # "none" => page = "waiting"

\* Past its price a heavy batch has its licence.
Licensed == handler \in {"open", "run", "undo"} /\ asked \in Heavy => asked \in licence

\* What runs holds no blocked word, and is in the transaction unless the batch
\* itself rolled back.
Wrapped ==
    handler = "run" =>
        /\ AP!ToSet(rest) \subseteq AP!ToSet(asked)
        /\ "blocked" \notin AP!ToSet(asked)
        /\ rest # <<>> /\ ~inTran => "rollback" \in AP!ToSet(asked)

PlanInv == AP!TypeOK /\ OneRequest /\ Licensed /\ Wrapped /\ AP!OnlyOwnRollbackTraces

-----------------------------------------------------------------------------
\* The head of a sequence is one of its elements, and so are those of its tail.
LEMMA HeadAndTail ==
    ASSUME NEW S, NEW s \in Seq(S), s # <<>>
    PROVE  /\ Head(s) \in AP!ToSet(s) /\ Head(s) \in S
           /\ Tail(s) \in Seq(S) /\ AP!ToSet(Tail(s)) \subseteq AP!ToSet(s)
<1>1. 1 \in DOMAIN s /\ Head(s) = s[1] /\ Tail(s) \in Seq(S)
  OBVIOUS
<1>2. \A i \in DOMAIN Tail(s) : i + 1 \in DOMAIN s /\ Tail(s)[i] = s[i + 1]
  OBVIOUS
<1>3. s[1] \in S
  BY <1>1
<1>4. \A x \in AP!ToSet(Tail(s)) : x \in AP!ToSet(s)
  BY <1>2 DEF AP!ToSet
<1>5. s[1] \in AP!ToSet(s)
  BY <1>1 DEF AP!ToSet
<1> QED
  BY <1>1, <1>3, <1>4, <1>5

\* What is left of a batch that is over is a batch.
LEMMA NothingLeft == <<>> \in Seq(AP!Kinds) /\ AP!ToSet(<<>>) = {}
<1>1. \A S : <<>> \in Seq(S)
  OBVIOUS
<1> QED
  BY <1>1 DEF AP!ToSet

LEMMA PlanInit == ASSUME AP!ActualPlanAssumption PROVE AP!Init => PlanInv
<1> SUFFICES ASSUME AP!Init PROVE PlanInv
  OBVIOUS
<1>1. AP!TypeOK
  BY NothingLeft DEF AP!ActualPlanAssumption, AP!Init, AP!TypeOK
<1>2. OneRequest /\ Licensed /\ Wrapped /\ AP!OnlyOwnRollbackTraces
  BY DEF AP!Init, OneRequest, Licensed, Wrapped, AP!OnlyOwnRollbackTraces
<1> QED
  BY <1>1, <1>2 DEF PlanInv

\* A statement of a licensed, wrapped batch.
LEMMA StepKeeps == ASSUME PlanInv, AP!Step PROVE PlanInv'
<1> USE DEF AP!Step, AP!pageVars
<1>1. /\ Head(rest) \in AP!ToSet(rest) /\ Head(rest) \in AP!Kinds
      /\ Tail(rest) \in Seq(AP!Kinds) /\ AP!ToSet(Tail(rest)) \subseteq AP!ToSet(rest)
  BY HeadAndTail DEF PlanInv, AP!TypeOK
<1>2. Head(rest) \in {"read", "write", "begin", "rollback"}
  BY <1>1 DEF PlanInv, Wrapped, AP!Kinds
<1>3. inTran' \in BOOLEAN /\ pending' \in BOOLEAN
  BY <1>2 DEF AP!Execute, PlanInv, AP!TypeOK
<1>4. ~inTran' => "rollback" \in AP!ToSet(asked)
  BY <1>1, <1>2 DEF AP!Execute, PlanInv, Wrapped
<1>5. \/ trace' = trace
      \/ trace' = trace \cup {asked} /\ ~inTran
  BY <1>2 DEF AP!Execute
<1>6. AP!TypeOK' /\ OneRequest' /\ Licensed'
  BY <1>1, <1>3 DEF PlanInv, AP!TypeOK, OneRequest, Licensed
<1>7. Wrapped'
  BY <1>1, <1>4 DEF PlanInv, Wrapped
<1>8. AP!OnlyOwnRollbackTraces'
  BY <1>5 DEF PlanInv, Wrapped, AP!OnlyOwnRollbackTraces
<1> QED
  BY <1>6, <1>7, <1>8 DEF PlanInv

\* A reply, and a request that is dropped, leaves nothing at the backend.
LEMMA EndKeeps ==
    ASSUME PlanInv, handler' = "none", page' = "idle", AP!EndSession,
           UNCHANGED <<asked, licence, trace>>, text' \in {text, asked}
    PROVE  PlanInv'
<1>1. AP!TypeOK'
  BY NothingLeft DEF PlanInv, AP!TypeOK, AP!EndSession
<1>2. OneRequest' /\ Licensed' /\ Wrapped' /\ AP!OnlyOwnRollbackTraces'
  BY DEF PlanInv, OneRequest, Licensed, Wrapped, AP!OnlyOwnRollbackTraces
<1> QED
  BY <1>1, <1>2 DEF PlanInv

LEMMA ReplyKeeps == ASSUME PlanInv, NEW plan \in BOOLEAN, AP!Reply(plan) PROVE PlanInv'
<1>1. text' \in {text, asked}
  BY DEF AP!Reply
<1> QED
  BY <1>1, EndKeeps DEF AP!Reply

\* The steps of the page, and those of the handler before and after the batch.
LEMMA PageKeeps ==
    ASSUME AP!ActualPlanAssumption, PlanInv,
           AP!Ask \/ AP!Decline \/ AP!Confirm \/ \E b \in Batches : AP!Type(b)
    PROVE  PlanInv'
<1> USE DEF AP!ActualPlanAssumption, AP!session
<1>1. AP!TypeOK'
  BY DEF PlanInv, AP!TypeOK, AP!Type, AP!Ask, AP!Decline, AP!Confirm
<1>2. OneRequest' /\ Licensed'
  BY DEF PlanInv, AP!TypeOK, OneRequest, Licensed, AP!Type, AP!Ask, AP!Decline, AP!Confirm
<1>3. Wrapped' /\ AP!OnlyOwnRollbackTraces'
  BY DEF PlanInv, OneRequest, Wrapped, AP!OnlyOwnRollbackTraces, AP!Type, AP!Ask, AP!Decline, AP!Confirm
<1> QED
  BY <1>1, <1>2, <1>3 DEF PlanInv

LEMMA HandlerKeeps == ASSUME PlanInv, AP!Price \/ AP!Open \/ AP!StatementFails \/ AP!Undo PROVE PlanInv'
<1> USE DEF AP!session, AP!pageVars
<1>1. handler = "run" /\ rest # <<>> => Tail(rest) \in Seq(AP!Kinds) /\ AP!ToSet(Tail(rest)) \subseteq AP!ToSet(rest)
  BY HeadAndTail DEF PlanInv, AP!TypeOK
<1>2. AP!TypeOK'
  BY <1>1, NothingLeft DEF PlanInv, AP!TypeOK, AP!Price, AP!Open, AP!StatementFails, AP!Undo
<1>3. OneRequest' /\ Licensed'
  BY DEF PlanInv, OneRequest, Licensed, AP!Price, AP!Open, AP!StatementFails, AP!Undo
<1>4. Wrapped'
  BY <1>1, NothingLeft DEF PlanInv, Wrapped, AP!Blocked, AP!Price, AP!Open, AP!StatementFails, AP!Undo
<1>5. AP!OnlyOwnRollbackTraces'
  BY DEF PlanInv, AP!OnlyOwnRollbackTraces, AP!Price, AP!Open, AP!StatementFails, AP!Undo
<1> QED
  BY <1>2, <1>3, <1>4, <1>5 DEF PlanInv

LEMMA PlanNext == ASSUME AP!ActualPlanAssumption, PlanInv, [AP!Next]_AP!vars PROVE PlanInv'
<1>1. CASE AP!Ask \/ AP!Decline \/ AP!Confirm \/ \E b \in Batches : AP!Type(b)
  BY <1>1, PageKeeps
<1>2. CASE AP!Price \/ AP!Open \/ AP!StatementFails \/ AP!Undo
  BY <1>2, HandlerKeeps
<1>3. CASE AP!Step
  BY <1>3, StepKeeps
<1>4. CASE AP!Refuse \/ AP!OpenFails \/ AP!Answer \/ AP!Lose
  BY <1>4, ReplyKeeps DEF AP!Refuse, AP!OpenFails, AP!Answer, AP!Lose
<1>5. CASE AP!HangUp
  BY <1>5, EndKeeps DEF AP!HangUp
<1>6. CASE UNCHANGED AP!vars
  BY <1>6 DEF AP!vars, AP!pageVars, AP!session, PlanInv, AP!TypeOK, OneRequest, Licensed, Wrapped,
              AP!OnlyOwnRollbackTraces
<1> QED
  BY <1>1, <1>2, <1>3, <1>4, <1>5, <1>6 DEF AP!Next

LEMMA PlanKept == ASSUME AP!ActualPlanAssumption PROVE AP!Spec => []PlanInv
<1>1. AP!Init => PlanInv
  BY PlanInit
<1>2. PlanInv /\ [AP!Next]_AP!vars => PlanInv'
  BY PlanNext
<1> QED BY <1>1, <1>2, PTL DEF AP!Spec

-----------------------------------------------------------------------------
(* The index advisor.                                                      *)

Suggested == [key : Seq(STRING) \ {<<>>}, inc : SUBSET STRING, seeks : Nat]

AddSeeks(n, m) == n + m.seeks
Merge(l, k) == IA!MergeFirstPair(l)

Seekers == INSTANCE FoldLeftTheorems WITH Op <- AddSeeks
Merges == INSTANCE FoldLeftTheorems WITH Op <- Merge

LEMMA LeastIsIn == ASSUME NEW S \in SUBSET Nat, S # {} PROVE IA!Min(S) \in S
<1>1. PICK m \in S : \A n \in S : m <= n
  <2>1. IsWellFoundedOn(Merges!Less, Nat)
    BY NatLessThanWellFounded DEF OpToRel, Merges!Less
  <2>2. PICK m \in S : \A k \in S : <<k, m>> \notin Merges!Less
    BY <2>1, WFMin
  <2>3. ASSUME NEW k \in S PROVE m <= k
    <3>1. k \in Nat /\ m \in Nat /\ ~(k < m)
      BY <2>2 DEF Merges!Less
    <3>. QED BY <3>1
  <2>. QED BY <2>3
<1>. QED BY <1>1 DEF IA!Min

\* Prefixes, point by point.
LEMMA PrefixPoints ==
    ASSUME NEW s \in Seq(STRING), NEW t \in Seq(STRING)
    PROVE  IA!IsPrefix(s, t) <=> Len(s) <= Len(t) /\ \A i \in 1..Len(s) : s[i] = t[i]
BY DEF IA!IsPrefix

LEMMA PrefixTransitive ==
    ASSUME NEW s \in Seq(STRING), NEW t \in Seq(STRING), NEW u \in Seq(STRING),
           IA!IsPrefix(s, t), IA!IsPrefix(t, u)
    PROVE  IA!IsPrefix(s, u)
<1>1. /\ Len(s) <= Len(t) /\ \A i \in 1..Len(s) : s[i] = t[i]
      /\ Len(t) <= Len(u) /\ \A i \in 1..Len(t) : t[i] = u[i]
  BY PrefixPoints
<1>2. Len(s) <= Len(u) /\ \A i \in 1..Len(s) : s[i] = u[i]
  BY <1>1
<1>. QED BY <1>2, PrefixPoints

LEMMA PrefixReflexive == ASSUME NEW s \in Seq(STRING) PROVE IA!IsPrefix(s, s)
BY PrefixPoints

LEMMA RemoveElement ==
    ASSUME NEW S, NEW s \in Seq(S), NEW j \in 1..Len(s)
    PROVE  /\ IA!RemoveAt(s, j) \in Seq(S)
           /\ Len(IA!RemoveAt(s, j)) = Len(s) - 1
           /\ \A k \in 1..(Len(s) - 1) :
                IA!RemoveAt(s, j)[k] = IF k < j THEN s[k] ELSE s[k + 1]
<1> DEFINE a == SubSeq(s, 1, j - 1)
           b == SubSeq(s, j + 1, Len(s))
<1>1. /\ a \in Seq(S) /\ Len(a) = j - 1 /\ \A k \in 1..(j - 1) : a[k] = s[k]
      /\ b \in Seq(S) /\ Len(b) = Len(s) - j /\ \A k \in 1..(Len(s) - j) : b[k] = s[j + k]
  OBVIOUS
<1> HIDE DEF a, b
<1>2. a \o b \in Seq(S) /\ Len(a \o b) = Len(s) - 1
  <2>1. a \in Seq(S) /\ b \in Seq(S)
    BY <1>1
  <2>2. a \o b \in Seq(S)
    BY <2>1
  <2>3. Len(a \o b) = Len(a) + Len(b)
    BY <2>1
  <2>. QED BY <2>2, <2>3, <1>1
<1>3. \A k \in 1..(Len(s) - 1) : (a \o b)[k] = IF k < j THEN s[k] ELSE s[k + 1]
  <2> SUFFICES ASSUME NEW k \in 1..(Len(s) - 1)
               PROVE  (a \o b)[k] = IF k < j THEN s[k] ELSE s[k + 1]
    OBVIOUS
  <2>1. CASE k < j
    <3>1. k \in 1..(j - 1)
      BY <2>1
    <3>2. (a \o b)[k] = a[k]
      BY <3>1, <1>1
    <3>. QED BY <2>1, <3>1, <3>2, <1>1
  <2>2. CASE k >= j
    <3> DEFINE d == k - (j - 1)
    <3>1. d \in 1..(Len(s) - j) /\ j + d = k + 1
      BY <2>2
    <3>2. b[d] = s[j + d] /\ ~(k < j)
      BY <3>1, <1>1, <2>2
    <3>3. (a \o b)[k] = b[d]
      BY <3>1, <1>1, <2>2
    <3>. QED BY <3>1, <3>2, <3>3
  <2>3. k < j \/ k >= j
    OBVIOUS
  <2>. QED BY <2>1, <2>2, <2>3
<1>. QED BY <1>2, <1>3 DEF IA!RemoveAt, a, b

-----------------------------------------------------------------------------
(* Seeks summed.                                                           *)

LEMMA SeekSumIsFold == ASSUME NEW s PROVE IA!SeekSum(s) = Seekers!Fold(0, s)
BY DEF IA!SeekSum, Seekers!Fold, AddSeeks, IA!FoldLeft, IA!MapThenFoldSet,
       Seekers!FoldLeft, Seekers!MapThenFoldSet, Seekers!Max, IA!Max

\* What the first n elements sum to.
First(s, n) == Seekers!Fold(0, [k \in 1..n |-> s[k]])

LEMMA FirstNone == ASSUME NEW s PROVE First(s, 0) = 0
<1>1. DOMAIN [k \in 1..0 |-> s[k]] = 1..0
  OBVIOUS
<1>. QED BY <1>1, Seekers!FoldEmpty DEF First

LEMMA FirstExtends ==
    ASSUME NEW s, NEW n \in Nat
    PROVE  First(s, n + 1) = First(s, n) + s[n + 1].seeks
<1> DEFINE a == [k \in 1..n |-> s[k]]
           b == [k \in 1..(n + 1) |-> s[k]]
<1>1. /\ DOMAIN a = 1..n /\ DOMAIN b = 1..(n + 1)
      /\ \A i \in 1..n : b[i] = a[i]
      /\ b[n + 1] = s[n + 1]
  OBVIOUS
<1>2. First(s, n) = Seekers!Fold(0, a) /\ First(s, n + 1) = Seekers!Fold(0, b)
  BY DEF First
<1> HIDE DEF a, b
<1>3. Seekers!Fold(0, b) = AddSeeks(Seekers!Fold(0, a), b[n + 1])
  BY <1>1, Seekers!FoldExtends
<1>. QED BY <1>1, <1>2, <1>3 DEF AddSeeks

LEMMA SumIsFirst ==
    ASSUME NEW s \in Seq(Suggested)
    PROVE  IA!SeekSum(s) = First(s, Len(s))
<1>1. s = [k \in 1..Len(s) |-> s[k]]
  OBVIOUS
<1>. QED BY <1>1, SeekSumIsFold DEF First

LEMMA FirstIsNat ==
    ASSUME NEW s \in Seq(Suggested), NEW n \in 0..Len(s)
    PROVE  First(s, n) \in Nat
<1> DEFINE N == {k \in Nat : k <= Len(s) => First(s, k) \in Nat}
<1>1. 0 \in N
  BY FirstNone
<1>2. ASSUME NEW k \in Nat, k \in N PROVE k + 1 \in N
  <2>1. ASSUME k + 1 <= Len(s) PROVE s[k + 1].seeks \in Nat
    <3>1. s[k + 1] \in Suggested
      BY <2>1
    <3>. QED BY <3>1 DEF Suggested
  <2>2. k + 1 <= Len(s) => First(s, k) \in Nat
    BY <1>2
  <2>3. First(s, k + 1) = First(s, k) + s[k + 1].seeks
    BY FirstExtends
  <2>. QED BY <2>1, <2>2, <2>3
<1>3. Nat \subseteq N
  BY <1>1, <1>2, Seekers!SetInduction
<1>. QED BY <1>3

\* Removing an element removes its seeks.
LEMMA RemoveTakes ==
    ASSUME NEW s \in Seq(Suggested), NEW j \in 1..Len(s)
    PROVE  IA!SeekSum(IA!RemoveAt(s, j)) + s[j].seeks = IA!SeekSum(s)
<1> DEFINE u == IA!RemoveAt(s, j)
           L == Len(s) - 1
<1>1. /\ u \in Seq(Suggested) /\ Len(u) = L
      /\ \A k \in 1..L : u[k] = IF k < j THEN s[k] ELSE s[k + 1]
  BY RemoveElement
<1> HIDE DEF u
<1>2. /\ L \in Nat /\ j \in Nat /\ j >= 1 /\ j <= L + 1 /\ Len(s) = L + 1
  OBVIOUS
<1> HIDE DEF L
<1>3. /\ \A k \in 1..(L + 1) : s[k].seeks \in Nat
      /\ \A k \in 0..(L + 1) : First(s, k) \in Nat
      /\ \A k \in 0..L : First(u, k) \in Nat
  <2>1. \A k \in 1..Len(s) : s[k] \in Suggested
    OBVIOUS
  <2>. QED BY <2>1, <1>1, <1>2, FirstIsNat DEF Suggested
<1> DEFINE Kept(n) == IF n < j THEN First(u, n) = First(s, n)
                      ELSE First(u, n) + s[j].seeks = First(s, n + 1)
           N == {n \in Nat : n <= L => Kept(n)}
<1>4. 0 \in N
  BY FirstNone, <1>2
<1>5. ASSUME NEW n \in Nat, n \in N PROVE n + 1 \in N
  <2> SUFFICES ASSUME n + 1 <= L PROVE Kept(n + 1)
    OBVIOUS
  <2>1. Kept(n)
    BY <1>2, <1>5
  <2>2. /\ First(u, n + 1) = First(u, n) + u[n + 1].seeks
        /\ First(s, n + 1) = First(s, n) + s[n + 1].seeks
        /\ First(s, (n + 1) + 1) = First(s, n + 1) + s[(n + 1) + 1].seeks
    BY FirstExtends, n + 1 \in Nat
  <2>3. /\ n + 1 \in 1..L /\ n \in 0..L /\ n \in 0..(L + 1) /\ n + 1 \in 1..(L + 1)
        /\ (n + 1) + 1 \in 1..(L + 1)
    BY <1>2
  <2>4. /\ s[n + 1].seeks \in Nat /\ s[(n + 1) + 1].seeks \in Nat /\ s[j].seeks \in Nat
        /\ First(s, n) \in Nat /\ First(u, n) \in Nat /\ First(s, n + 1) \in Nat
    BY <1>2, <1>3, <2>3
  <2>5. u[n + 1] = IF n + 1 < j THEN s[n + 1] ELSE s[(n + 1) + 1]
    BY <1>1, <2>3
  <2>6. CASE n + 1 < j
    <3>1. n < j /\ First(u, n) = First(s, n)
      BY <2>1, <2>6, <1>2
    <3>. QED BY <3>1, <2>2, <2>5, <2>6
  <2>7. CASE n + 1 = j
    <3>1. n < j /\ ~(n + 1 < j) /\ First(u, n) = First(s, n)
      BY <2>1, <2>7, <1>2
    <3>2. First(u, n + 1) = First(s, n) + s[(n + 1) + 1].seeks
      BY <3>1, <2>2, <2>5
    <3>3. First(s, (n + 1) + 1) = First(s, n) + s[j].seeks + s[(n + 1) + 1].seeks
      BY <2>2, <2>7
    <3>. QED BY <3>1, <3>2, <3>3, <2>4
  <2>8. CASE n >= j
    <3>1. ~(n < j) /\ ~(n + 1 < j) /\ First(u, n) + s[j].seeks = First(s, n + 1)
      BY <2>1, <2>8, <1>2
    <3>2. First(u, n + 1) = First(u, n) + s[(n + 1) + 1].seeks
      BY <3>1, <2>2, <2>5
    <3>3. First(u, n + 1) + s[j].seeks = (First(u, n) + s[j].seeks) + s[(n + 1) + 1].seeks
      <4> DEFINE a == First(u, n)
                 b == s[j].seeks
                 c == s[(n + 1) + 1].seeks
      <4>1. a \in Nat /\ b \in Nat /\ c \in Nat
        BY <2>4
      <4> HIDE DEF a, b, c
      <4>2. (a + c) + b = (a + b) + c
        BY <4>1
      <4>. QED BY <3>2, <4>2 DEF a, b, c
    <3>4. First(u, n + 1) + s[j].seeks = First(s, (n + 1) + 1)
      BY <3>1, <3>3, <2>2
    <3>. QED BY <3>1, <3>4
  <2>. QED BY <2>6, <2>7, <2>8, <1>2
<1>6. Kept(L)
  <2>1. Nat \subseteq N
    BY <1>4, <1>5, Seekers!SetInduction
  <2>. QED BY <1>2, <2>1
<1>7. IA!SeekSum(u) = First(u, L) /\ IA!SeekSum(s) = First(s, L + 1)
  BY <1>1, <1>2, SumIsFirst
<1>8. First(s, L + 1) = First(s, L) + s[L + 1].seeks
  BY <1>2, FirstExtends
<1>9. CASE L < j
  <2>1. j = L + 1
    BY <1>2, <1>9
  <2>. QED BY <1>6, <1>7, <1>8, <1>9, <2>1 DEF u
<1>10. CASE ~(L < j)
  BY <1>6, <1>7, <1>10 DEF u
<1>. QED BY <1>9, <1>10

LEMMA AbsorbBoth ==
    ASSUME NEW m \in Suggested, NEW n \in Suggested
    PROVE  /\ IA!Absorb(m, n) \in Suggested
           /\ IA!Absorb(m, n).key = m.key
           /\ IA!Absorb(m, n).inc = m.inc \cup n.inc
           /\ IA!Absorb(m, n).seeks = m.seeks + n.seeks
<1>1. /\ m.key \in Seq(STRING) \ {<<>>} /\ m.inc \cup n.inc \in SUBSET STRING
      /\ m.seeks + n.seeks \in Nat
  BY DEF Suggested
<1>. QED BY <1>1 DEF IA!Absorb, Suggested

\* Seeks added to one element are added to the sum.
LEMMA AbsorbAdds ==
    ASSUME NEW s \in Seq(Suggested), NEW i \in 1..Len(s), NEW m \in Suggested
    PROVE  /\ [s EXCEPT ![i] = IA!Absorb(@, m)] \in Seq(Suggested)
           /\ Len([s EXCEPT ![i] = IA!Absorb(@, m)]) = Len(s)
           /\ IA!SeekSum([s EXCEPT ![i] = IA!Absorb(@, m)]) = IA!SeekSum(s) + m.seeks
<1> DEFINE a == IA!Absorb(s[i], m)
           t == [s EXCEPT ![i] = IA!Absorb(@, m)]
           L == Len(s)
<1>1. a \in Suggested /\ a.seeks = s[i].seeks + m.seeks
  <2>1. s[i] \in Suggested
    OBVIOUS
  <2>. QED BY <2>1, AbsorbBoth
<1>2. t = [s EXCEPT ![i] = a]
  OBVIOUS
<1> HIDE DEF a, t
<1>3. /\ t \in Seq(Suggested) /\ Len(t) = L
      /\ t[i] = a /\ \A k \in 1..L : k # i => t[k] = s[k]
  BY <1>1, <1>2
<1>4. L \in Nat /\ i \in Nat /\ i >= 1 /\ i <= L /\ m.seeks \in Nat
  BY DEF Suggested
<1>5. /\ \A k \in 1..L : s[k].seeks \in Nat
      /\ \A k \in 0..L : First(s, k) \in Nat /\ First(t, k) \in Nat
  <2>1. \A k \in 1..L : s[k] \in Suggested
    OBVIOUS
  <2>2. \A k \in 0..Len(s) : First(s, k) \in Nat
    BY FirstIsNat
  <2>3. \A k \in 0..Len(t) : First(t, k) \in Nat
    BY FirstIsNat, <1>3
  <2>. QED BY <2>1, <2>2, <2>3, <1>3 DEF Suggested
<1>7. IA!SeekSum(t) = First(t, L) /\ IA!SeekSum(s) = First(s, L)
  BY <1>3, SumIsFirst
<1> HIDE DEF L
<1> DEFINE Kept(n) == First(t, n) = IF n < i THEN First(s, n) ELSE First(s, n) + m.seeks
           N == {n \in Nat : n <= L => Kept(n)}
<1>8. 0 \in N
  BY FirstNone, <1>4
<1>9. ASSUME NEW n \in Nat, n \in N PROVE n + 1 \in N
  <2> SUFFICES ASSUME n + 1 <= L PROVE Kept(n + 1)
    OBVIOUS
  <2>1. Kept(n)
    BY <1>4, <1>9
  <2>2. /\ First(t, n + 1) = First(t, n) + t[n + 1].seeks
        /\ First(s, n + 1) = First(s, n) + s[n + 1].seeks
    BY FirstExtends
  <2>3. n + 1 \in 1..L /\ n \in 0..L
    BY <1>4
  <2>4. s[n + 1].seeks \in Nat /\ First(s, n) \in Nat
    BY <1>5, <2>3
  <2>5. CASE n + 1 = i
    <3>1. n < i /\ ~(n + 1 < i) /\ t[n + 1].seeks = s[n + 1].seeks + m.seeks
      BY <2>5, <1>1, <1>3, <1>4
    <3>. QED BY <3>1, <2>1, <2>2, <2>4, <1>4
  <2>6. CASE n + 1 # i
    <3>1. (n < i <=> n + 1 < i) /\ t[n + 1] = s[n + 1]
      BY <2>3, <2>6, <1>3, <1>4
    <3>. QED BY <3>1, <2>1, <2>2, <2>4, <1>4
  <2>. QED BY <2>5, <2>6
<1>10. Kept(L)
  <2>1. Nat \subseteq N
    BY <1>8, <1>9, Seekers!SetInduction
  <2>. QED BY <1>4, <2>1
<1>11. ~(L < i)
  BY <1>4
<1>12. IA!SeekSum(t) = IA!SeekSum(s) + m.seeks
  BY <1>7, <1>10, <1>11
<1>. QED BY <1>3, <1>12 DEF t, L

-----------------------------------------------------------------------------
(* Consolidation.                                                          *)

\* An index made for m serves what s asks.
Serves(m, s) == IA!IsKeyPrefix(s.key, m.key) /\ s.inc \subseteq m.inc

LEMMA ServesItself == ASSUME NEW m \in Suggested PROVE Serves(m, m)
BY PrefixReflexive DEF Serves, IA!IsKeyPrefix, Suggested

LEMMA ServesOn ==
    ASSUME NEW s \in Suggested, NEW m \in Suggested, NEW n \in Suggested,
           Serves(m, s), Serves(n, m)
    PROVE  Serves(n, s)
<1>1. IA!IsPrefix(s.key, n.key)
  BY PrefixTransitive DEF Serves, IA!IsKeyPrefix, Suggested
<1>. QED BY <1>1 DEF Serves, IA!IsKeyPrefix

Folds(list) ==
    {p \in (1..Len(list)) \X (1..Len(list)) :
       /\ p[1] # p[2]
       /\ IA!IsKeyPrefix(list[p[2]].key, list[p[1]].key)
       /\ list[p[1]].key = list[p[2]].key => p[1] < p[2]}

\* The pair that is folded.
LEMMA FirstPair ==
    ASSUME NEW list \in Seq(Suggested), Folds(list) # {}
    PROVE  \E i, j \in 1..Len(list) :
             /\ i # j /\ IA!IsKeyPrefix(list[j].key, list[i].key)
             /\ IA!MergeFirstPair(list) = IA!RemoveAt([list EXCEPT ![i] = IA!Absorb(@, list[j])], j)
<1> DEFINE folds == Folds(list)
           I == {p[1] : p \in folds}
           i == IA!Min(I)
           J == {p[2] : p \in {f \in folds : f[1] = i}}
           j == IA!Min(J)
<1>1. IA!MergeFirstPair(list) = IA!RemoveAt([list EXCEPT ![i] = IA!Absorb(@, list[j])], j)
  BY DEF IA!MergeFirstPair, Folds
<1>2. folds \subseteq (1..Len(list)) \X (1..Len(list))
  BY DEF Folds
<1>3. I \in SUBSET Nat /\ I # {}
  BY <1>2
<1>4. i \in I
  BY <1>3, LeastIsIn
<1>5. J \in SUBSET Nat /\ J # {}
  <2>1. PICK p \in folds : p[1] = i
    BY <1>4
  <2> HIDE DEF i, folds
  <2>2. p[2] \in J
    BY <2>1
  <2>3. J \subseteq Nat
    BY <1>2
  <2>. QED BY <2>2, <2>3
<1>6. j \in J
  BY <1>5, LeastIsIn
<1> HIDE DEF i, j, folds
<1>7. <<i, j>> \in folds
  BY <1>2, <1>6
<1>8. i \in 1..Len(list) /\ j \in 1..Len(list) /\ i # j /\ IA!IsKeyPrefix(list[j].key, list[i].key)
  BY <1>7 DEF folds, Folds
<1>. QED BY <1>1, <1>8 DEF i, j, folds

\* What a list owes to the one it is made from, after k passes.
Owes(list, l, k) ==
    /\ l \in Seq(Suggested)
    /\ Folds(l) = {} \/ Len(l) + k <= Len(list)
    /\ \A s \in IA!Range(list) : \E m \in IA!Range(l) : Serves(m, s)
    /\ IA!SeekSum(l) = IA!SeekSum(list)

LEMMA OnePass ==
    ASSUME NEW list \in Seq(Suggested), NEW k \in Nat, NEW l, Owes(list, l, k)
    PROVE  Owes(list, IA!MergeFirstPair(l), k + 1)
<1>1. CASE Folds(l) = {}
  <2>1. IA!MergeFirstPair(l) = l
    BY <1>1 DEF IA!MergeFirstPair, Folds
  <2>. QED BY <1>1, <2>1 DEF Owes
<1>2. CASE Folds(l) # {}
  <2>0. l \in Seq(Suggested)
    BY DEF Owes
  <2>1. PICK i, j \in 1..Len(l) :
          /\ i # j /\ IA!IsKeyPrefix(l[j].key, l[i].key)
          /\ IA!MergeFirstPair(l) = IA!RemoveAt([l EXCEPT ![i] = IA!Absorb(@, l[j])], j)
    BY <1>2, <2>0, FirstPair
  <2> DEFINE t == [l EXCEPT ![i] = IA!Absorb(@, l[j])]
             u == IA!RemoveAt(t, j)
             a == IA!Absorb(l[i], l[j])
  <2>2. l[i] \in Suggested /\ l[j] \in Suggested
    BY <2>0
  <2>3. t \in Seq(Suggested) /\ Len(t) = Len(l) /\ IA!SeekSum(t) = IA!SeekSum(l) + l[j].seeks
    BY <2>0, <2>2, AbsorbAdds
  <2>4. t[i] = a /\ \A n \in 1..Len(l) : n # i => t[n] = l[n]
    BY <2>0
  <2>5. /\ a \in Suggested /\ a.key = l[i].key /\ a.inc = l[i].inc \cup l[j].inc
    BY <2>2, AbsorbBoth
  <2> HIDE DEF t, a
  <2>6. /\ u \in Seq(Suggested) /\ Len(u) = Len(l) - 1
        /\ \A n \in 1..(Len(l) - 1) : u[n] = IF n < j THEN t[n] ELSE t[n + 1]
    BY <2>3, RemoveElement
  <2>7. IA!SeekSum(u) + t[j].seeks = IA!SeekSum(t)
    BY <2>3, RemoveTakes
  <2>8. IA!MergeFirstPair(l) = u
    BY <2>1 DEF t
  <2> HIDE DEF u
  <2>9. IA!SeekSum(u) = IA!SeekSum(list)
    <3>1. t[j] = l[j] /\ l[j].seeks \in Nat
      BY <2>1, <2>2, <2>4 DEF Suggested
    <3>2. IA!SeekSum(u) \in Nat /\ IA!SeekSum(l) \in Nat
      BY <2>0, <2>6, SumIsFirst, FirstIsNat
    <3>3. IA!SeekSum(u) = IA!SeekSum(l)
      BY <3>1, <3>2, <2>3, <2>7
    <3>. QED BY <3>3 DEF Owes
  <2>10. Len(u) + (k + 1) <= Len(list)
    BY <1>2, <2>6, <2>0 DEF Owes
  \* every element but the jth is still there, the ith wider
  <2>11. ASSUME NEW n \in 1..Len(l), n # j PROVE t[n] \in IA!Range(u)
    <3>1. CASE n < j
      <4>1. n \in 1..(Len(l) - 1) /\ u[n] = t[n]
        BY <3>1, <2>6
      <4>. QED BY <4>1, <2>6 DEF IA!Range
    <3>2. CASE n > j
      <4>1. n - 1 \in 1..(Len(l) - 1) /\ ~(n - 1 < j) /\ (n - 1) + 1 = n
        BY <3>2
      <4>2. u[n - 1] = t[n]
        BY <4>1, <2>6
      <4>. QED BY <4>1, <4>2, <2>6 DEF IA!Range
    <3>. QED BY <3>1, <3>2, <2>11
  <2>12. ASSUME NEW m \in IA!Range(l) PROVE \E w \in IA!Range(u) : Serves(w, m)
    <3>1. PICK n \in 1..Len(l) : m = l[n]
      BY <2>0 DEF IA!Range
    <3>2. m \in Suggested
      BY <3>1, <2>0
    <3>3. CASE n = i \/ n = j
      <4>1. Serves(a, m)
        <5>1. CASE n = i
          BY <5>1, <3>1, <2>2, <2>5, PrefixReflexive DEF Serves, IA!IsKeyPrefix, Suggested
        <5>2. CASE n = j
          BY <5>2, <3>1, <2>1, <2>5 DEF Serves
        <5>. QED BY <3>3, <5>1, <5>2
      <4>2. a \in IA!Range(u)
        BY <2>1, <2>4, <2>11
      <4>. QED BY <4>1, <4>2
    <3>4. CASE n # i /\ n # j
      <4>1. m \in IA!Range(u)
        BY <3>1, <3>4, <2>4, <2>11
      <4>. QED BY <4>1, <3>2, ServesItself
    <3>. QED BY <3>3, <3>4
  <2>13. ASSUME NEW s \in IA!Range(list) PROVE \E w \in IA!Range(u) : Serves(w, s)
    <3>1. PICK m \in IA!Range(l) : Serves(m, s)
      BY DEF Owes
    <3>2. PICK w \in IA!Range(u) : Serves(w, m)
      BY <2>12
    <3>3. s \in Suggested /\ m \in Suggested /\ w \in Suggested
      BY <2>0, <2>6 DEF IA!Range
    <3>. QED BY <3>1, <3>2, <3>3, ServesOn
  <2>. QED BY <2>6, <2>8, <2>9, <2>10, <2>13 DEF Owes
<1>. QED BY <1>1, <1>2

LEMMA PassesFold ==
    ASSUME NEW list
    PROVE  IA!ConsolidateMissingIndexes(list) = Merges!Fold(list, [k \in 1..Len(list) |-> k])
BY DEF IA!ConsolidateMissingIndexes, Merges!Fold, Merge, IA!FoldLeft, IA!MapThenFoldSet,
       Merges!FoldLeft, Merges!MapThenFoldSet, Merges!Max, IA!Max

LEMMA Consolidated ==
    ASSUME NEW list \in Seq(Suggested)
    PROVE  /\ Owes(list, IA!ConsolidateMissingIndexes(list), Len(list))
           /\ Folds(IA!ConsolidateMissingIndexes(list)) = {}
<1> DEFINE Passes(n) == [k \in 1..n |-> k]
           N == {n \in Nat : Owes(list, Merges!Fold(list, Passes(n)), n)}
<1>1. 0 \in N
  <2>1. DOMAIN Passes(0) = 1..0
    OBVIOUS
  <2>2. Merges!Fold(list, Passes(0)) = list
    BY <2>1, Merges!FoldEmpty
  <2>3. ASSUME NEW s \in IA!Range(list) PROVE \E m \in IA!Range(list) : Serves(m, s)
    <3>1. s \in Suggested
      BY DEF IA!Range
    <3>. QED BY <3>1, ServesItself
  <2>4. Owes(list, list, 0)
    BY <2>3 DEF Owes
  <2>. QED BY <2>2, <2>4
<1>2. ASSUME NEW n \in Nat, n \in N PROVE n + 1 \in N
  <2> DEFINE a == Passes(n)
             b == Passes(n + 1)
  <2>1. DOMAIN a = 1..n /\ DOMAIN b = 1..(n + 1) /\ \A i \in 1..n : b[i] = a[i]
    OBVIOUS
  <2>2. Owes(list, Merges!Fold(list, a), n)
    BY <1>2
  <2> HIDE DEF a, b
  <2>3. Merges!Fold(list, b) = Merge(Merges!Fold(list, a), b[n + 1])
    BY <2>1, Merges!FoldExtends
  <2>4. Owes(list, Merges!Fold(list, b), n + 1)
    BY <2>2, <2>3, OnePass DEF Merge
  <2>. QED BY <2>4 DEF b
<1>3. Owes(list, Merges!Fold(list, Passes(Len(list))), Len(list))
  <2>1. Nat \subseteq N
    BY <1>1, <1>2, Merges!SetInduction
  <2>2. Len(list) \in N
    BY <2>1
  <2>. QED BY <2>2
<1> DEFINE one == IA!ConsolidateMissingIndexes(list)
<1>4. Owes(list, one, Len(list))
  BY <1>3, PassesFold
<1> HIDE DEF one
<1>5. Folds(one) = {}
  <2> SUFFICES ASSUME Folds(one) # {} PROVE FALSE
    OBVIOUS
  <2>1. one \in Seq(Suggested) /\ Len(one) + Len(list) <= Len(list)
    BY <1>4 DEF Owes
  <2>2. Len(one) = 0
    BY <2>1
  <2>. QED BY <2>2 DEF Folds
<1>. QED BY <1>4, <1>5 DEF one

-----------------------------------------------------------------------------
(* The advice, and the table as it moves.                                  *)

AdvisorTypes ==
    /\ DOMAIN catalog \subseteq Ids /\ catalog \in [DOMAIN catalog -> IA!Shapes]
    /\ usage \in [DOMAIN catalog -> [reads : Nat, updates : 0..2]]
    /\ missing \in Seq(Suggested)
    /\ young \in BOOLEAN /\ small \in BOOLEAN
    /\ seeking \subseteq Queries

\* A query that sought an index has read one that stands, a covering one if
\* the table has any.
Sought ==
    \A q \in seeking : \E i \in DOMAIN catalog :
       /\ IA!Seeks(q, catalog[i]) /\ usage[i].reads > 0
       /\ IA!Covered(q, catalog) => IA!Covers(q, catalog[i])

AdvisorInv == AdvisorTypes /\ Sought

\* What is made for a suggestion: an index on its key, with its columns.
LEMMA MadeFor ==
    ASSUME NEW cat, DOMAIN cat \in SUBSET Nat, NEW m, NEW r \in IA!CreateOrWiden(cat, m)
    PROVE  /\ r.key = m.key /\ m.inc \subseteq r.inc /\ r.drop = IA!NoIndex
           /\ IA!CreateOrWiden(cat, m) = {r}
           /\ \/ r.build = IA!NoIndex
              \/ r.build \in DOMAIN cat /\ r.inc = cat[r.build].inc \cup m.inc
<1> DEFINE same == {i \in DOMAIN cat : /\ cat[i].key = m.key
                                      /\ ~cat[i].unique /\ ~cat[i].clustered}
           i == IA!Min(same)
<1>1. CASE same = {}
  <2>1. IA!CreateOrWiden(cat, m) = {IA!Statement("create", IA!NoIndex, m.key, m.inc, IA!NoIndex, FALSE)}
    BY <1>1 DEF IA!CreateOrWiden
  <2>2. r = IA!Statement("create", IA!NoIndex, m.key, m.inc, IA!NoIndex, FALSE)
    BY <2>1
  <2>. QED BY <2>1, <2>2 DEF IA!Statement
<1>2. CASE same # {}
  <2>1. i \in same
    BY <1>2, LeastIsIn
  <2>2. IA!CreateOrWiden(cat, m) =
          IF m.inc \subseteq IA!Columns(cat[i]) THEN {}
          ELSE {IA!Statement("widen", i, m.key, cat[i].inc \cup m.inc, IA!NoIndex, FALSE)}
    BY <1>2 DEF IA!CreateOrWiden
  <2> HIDE DEF i
  <2>3. i \in DOMAIN cat
    BY <2>1
  <2>4. r = IA!Statement("widen", i, m.key, cat[i].inc \cup m.inc, IA!NoIndex, FALSE)
    BY <2>2
  <2>5. IA!CreateOrWiden(cat, m) = {r}
    BY <2>2
  <2>6. /\ r.key = m.key /\ r.drop = IA!NoIndex /\ r.build = i
        /\ r.inc = cat[i].inc \cup m.inc
    BY <2>4 DEF IA!Statement
  <2>. QED BY <2>3, <2>5, <2>6
<1>. QED BY <1>1, <1>2

LEMMA NoneMade ==
    ASSUME NEW cat, DOMAIN cat \in SUBSET Nat, NEW m, IA!CreateOrWiden(cat, m) = {}
    PROVE  \E i \in DOMAIN cat : cat[i].key = m.key /\ m.inc \subseteq IA!Columns(cat[i])
<1> DEFINE same == {i \in DOMAIN cat : /\ cat[i].key = m.key
                                      /\ ~cat[i].unique /\ ~cat[i].clustered}
           i == IA!Min(same)
<1>1. same # {}
  BY DEF IA!CreateOrWiden
<1>2. i \in same
  BY <1>1, LeastIsIn
<1>3. m.inc \subseteq IA!Columns(cat[i])
  BY <1>1 DEF IA!CreateOrWiden
<1> HIDE DEF i
<1>. QED BY <1>2, <1>3

LEMMA SoundConsolidation == ASSUME IA!IndexAdvisorAssumption, AdvisorTypes PROVE IA!ConsolidationIsSound
<1> DEFINE one == IA!ConsolidateMissingIndexes(missing)
           made == IA!Creates(catalog, missing)
<1>1. Owes(missing, one, Len(missing)) /\ Folds(one) = {}
  BY Consolidated DEF AdvisorTypes
<1>2. one \in Seq(Suggested) /\ IA!SeekSum(one) = IA!SeekSum(missing)
  BY <1>1 DEF Owes
<1>3. DOMAIN catalog \in SUBSET Nat
  BY DEF AdvisorTypes, IA!IndexAdvisorAssumption
<1>4. ASSUME ~small, NEW s \in IA!Range(missing)
      PROVE  \/ \E r \in made : IA!Answers(s, IA!Range(r.key) \cup r.inc, r.key)
             \/ \E i \in DOMAIN catalog : IA!Answers(s, IA!Columns(catalog[i]), catalog[i].key)
  <2>1. PICK m \in IA!Range(one) : Serves(m, s)
    BY <1>1 DEF Owes
  <2>2. CASE IA!CreateOrWiden(catalog, m) = {}
    <3>1. PICK i \in DOMAIN catalog :
            catalog[i].key = m.key /\ m.inc \subseteq IA!Columns(catalog[i])
      BY <1>3, <2>2, NoneMade
    <3>2. IA!Answers(s, IA!Columns(catalog[i]), catalog[i].key)
      BY <2>1, <3>1 DEF Serves, IA!Answers
    <3>. QED BY <3>2
  <2>3. CASE IA!CreateOrWiden(catalog, m) # {}
    <3>1. PICK r \in IA!CreateOrWiden(catalog, m) : TRUE
      BY <2>3
    <3>2. r.key = m.key /\ m.inc \subseteq r.inc
      BY <1>3, MadeFor
    <3>3. r \in made
      BY <1>4, <3>1, <2>1 DEF IA!Creates
    <3>4. IA!Answers(s, IA!Range(r.key) \cup r.inc, r.key)
      BY <2>1, <3>2 DEF Serves, IA!Answers
    <3>. QED BY <3>3, <3>4
  <2>. QED BY <2>2, <2>3
<1>5. ASSUME NEW r \in made, NEW t \in made, r # t, IA!IsKeyPrefix(r.key, t.key) PROVE FALSE
  <2>1. PICK m \in IA!Range(one), n \in IA!Range(one) :
          r \in IA!CreateOrWiden(catalog, m) /\ t \in IA!CreateOrWiden(catalog, n)
    BY DEF IA!Creates
  <2>2. /\ IA!CreateOrWiden(catalog, m) = {r} /\ r.key = m.key
        /\ IA!CreateOrWiden(catalog, n) = {t} /\ t.key = n.key
    BY <1>3, <2>1, MadeFor
  <2>3. PICK i, j \in 1..Len(one) : m = one[i] /\ n = one[j]
    BY <1>2 DEF IA!Range
  <2> HIDE DEF one, made
  <2>4. i # j /\ IA!IsKeyPrefix(one[i].key, one[j].key)
    BY <1>5, <2>2, <2>3
  <2>5. <<j, i>> \in Folds(one) \/ <<i, j>> \in Folds(one)
    BY <2>4 DEF Folds
  <2>. QED BY <1>1, <2>5 DEF one
<1>. QED BY <1>2, <1>4, <1>5 DEF IA!ConsolidationIsSound

\* What a statement of the scan does to the indexes of the table it was made
\* from: what it builds gains columns, and of what it drops there is another
\* index to seek, or nobody has read it.
LEMMA WhatIsAdvised ==
    ASSUME IA!IndexAdvisorAssumption, AdvisorTypes, NEW r \in IA!Advice
    PROVE  /\ \A i \in DOMAIN catalog : i = r.build => catalog[i].inc \subseteq r.inc
           /\ \/ r.drop \notin DOMAIN catalog
              \/ usage[r.drop].reads = 0
              \/ \E j \in DOMAIN catalog :
                   /\ j # r.drop
                   /\ IA!IsPrefix(catalog[r.drop].key, catalog[j].key)
                   /\ \/ r.kind = "prefix"
                      \/ /\ catalog[j].key = catalog[r.drop].key
                         /\ catalog[j].inc = catalog[r.drop].inc
                      \/ /\ catalog[j].key = catalog[r.drop].key
                         /\ j = r.build
                         /\ r.inc = catalog[j].inc \cup catalog[r.drop].inc
<1>1. PICK cat \in {catalog, <<>>}, u \in {usage, <<>>}, idle \in {{}, DOMAIN usage} :
        r \in IA!Advise(cat, u, missing, idle)
  BY DEF IA!Advice, IA!OrNothing
<1>2. /\ DOMAIN catalog \subseteq Nat \ {0} /\ DOMAIN usage = DOMAIN catalog
      /\ \A i \in DOMAIN catalog : catalog[i] \in IA!Shapes
  BY DEF AdvisorTypes, IA!IndexAdvisorAssumption
<1>3. DOMAIN cat \subseteq DOMAIN catalog /\ \A i \in DOMAIN cat : cat[i] = catalog[i]
  BY DEF IA!OrNothing
<1>4. IA!NoIndex \notin DOMAIN catalog
  BY <1>2 DEF IA!NoIndex
<1>5. CASE r \in IA!Creates(cat, missing)
  <2>1. PICK m : r \in IA!CreateOrWiden(cat, m)
    BY <1>5 DEF IA!Creates
  <2>2. DOMAIN cat \in SUBSET Nat
    BY <1>2, <1>3
  <2>3. /\ r.drop = IA!NoIndex
        /\ \/ r.build = IA!NoIndex
           \/ r.build \in DOMAIN cat /\ r.inc = cat[r.build].inc \cup m.inc
    BY <2>1, <2>2, MadeFor
  <2>. QED BY <2>3, <1>3, <1>4
<1>6. CASE r \in IA!Drops(cat, idle)
  <2>1. r.build = IA!NoIndex /\ usage[r.drop].reads = 0
    BY <1>6 DEF IA!Drops, IA!Statement, IA!Unread
  <2>. QED BY <2>1, <1>4
<1>7. CASE r \in IA!Duplicates(cat)
  <2>1. PICK p \in IA!SameKeyPairs(cat) :
          /\ cat[p[1]].inc = cat[p[2]].inc
          /\ r = IA!Statement("duplicate", IA!NoIndex, <<>>, {},
                   IF cat[p[2]].unique /\ ~cat[p[1]].unique THEN p[1] ELSE p[2], FALSE)
    BY <1>7 DEF IA!Duplicates
  <2>2. /\ p[1] \in DOMAIN cat /\ p[2] \in DOMAIN cat /\ p[1] < p[2]
        /\ cat[p[1]].key = cat[p[2]].key
    BY DEF IA!SameKeyPairs
  <2>3. r.build = IA!NoIndex /\ r.drop \in {p[1], p[2]}
    BY <2>1 DEF IA!Statement
  <2>4. PICK j \in {p[1], p[2]} : j # r.drop
    BY <2>2, <2>3, <1>2, <1>3
  <2>5. /\ j \in DOMAIN catalog /\ r.drop \in DOMAIN catalog
        /\ catalog[j].key = catalog[r.drop].key /\ catalog[j].inc = catalog[r.drop].inc
    BY <2>1, <2>2, <2>3, <2>4, <1>3
  <2>6. IA!IsPrefix(catalog[r.drop].key, catalog[j].key)
    BY <2>5, <1>2, PrefixReflexive DEF IA!Shapes
  <2>. QED BY <2>3, <2>4, <2>5, <2>6, <1>4
<1>8. CASE r \in IA!Overlaps(cat, u)
  <2>1. PICK p \in IA!SameKeyPairs(cat) :
          r \in {IA!Overlap(cat, p[1], p[2]), IA!Overlap(cat, p[2], p[1])}
    BY <1>8 DEF IA!Overlaps
  <2>2. /\ p[1] \in DOMAIN cat /\ p[2] \in DOMAIN cat /\ p[1] < p[2]
        /\ cat[p[1]].key = cat[p[2]].key
    BY DEF IA!SameKeyPairs
  <2>3. PICK keep \in {p[1], p[2]}, drop \in {p[1], p[2]} :
          keep # drop /\ r = IA!Overlap(cat, keep, drop)
    BY <2>1, <2>2, <1>2, <1>3
  <2>4. /\ r.build = keep /\ r.drop = drop
        /\ r.inc = cat[keep].inc \cup cat[drop].inc
    BY <2>3 DEF IA!Overlap, IA!Statement, IA!UnionIncludes
  <2>5. /\ keep \in DOMAIN catalog /\ drop \in DOMAIN catalog
        /\ catalog[keep].key = catalog[drop].key
        /\ r.inc = catalog[keep].inc \cup catalog[drop].inc
    BY <2>2, <2>3, <2>4, <1>3
  <2>6. IA!IsPrefix(catalog[drop].key, catalog[keep].key)
    BY <2>5, <1>2, PrefixReflexive DEF IA!Shapes
  <2>. QED BY <2>3, <2>4, <2>5, <2>6
<1>9. CASE r \in IA!RedundantExistingIndexes(cat)
  <2>1. PICK i \in DOMAIN cat, j \in DOMAIN cat :
          /\ r = IA!Statement("prefix", IA!NoIndex, <<>>, {}, i, FALSE)
          /\ Len(cat[j].key) > Len(cat[i].key) /\ IA!IsKeyPrefix(cat[i].key, cat[j].key)
    BY <1>9 DEF IA!RedundantExistingIndexes
  <2>2. r.build = IA!NoIndex /\ r.drop = i /\ r.kind = "prefix"
    BY <2>1 DEF IA!Statement
  <2>3. /\ i \in DOMAIN catalog /\ j \in DOMAIN catalog
        /\ Len(catalog[j].key) > Len(catalog[i].key)
        /\ IA!IsPrefix(catalog[i].key, catalog[j].key)
    BY <2>1, <1>3 DEF IA!IsKeyPrefix
  <2>4. i # j
    BY <2>3, <1>2 DEF IA!Shapes
  <2>. QED BY <2>2, <2>3, <2>4, <1>4
<1>. QED BY <1>1, <1>5, <1>6, <1>7, <1>8, <1>9 DEF IA!Advise

\* Following it, an index that is not dropped keeps its key and its columns.
LEMMA WhatIsLeft ==
    ASSUME IA!IndexAdvisorAssumption, AdvisorTypes, NEW r \in IA!Advice, IA!Follow(r),
           NEW i \in DOMAIN catalog, i # r.drop
    PROVE  /\ i \in DOMAIN catalog' /\ catalog'[i].key = catalog[i].key
           /\ catalog'[i].clustered = catalog[i].clustered
           /\ catalog[i].inc \subseteq catalog'[i].inc
           /\ i = r.build /\ ~catalog[i].clustered => catalog'[i].inc = r.inc
<1>1. PICK new : /\ new \in IF r.kind = "create" THEN {{k} : k \in Ids \ DOMAIN catalog} ELSE {{}}
                 /\ catalog' = [k \in (DOMAIN catalog \ {r.drop}) \cup new |->
                                  IF k \in new THEN IA!Created(r)
                                  ELSE IF k = r.build THEN IA!Rebuilt(catalog[k], r)
                                  ELSE catalog[k]]
  BY DEF IA!Follow
<1>2. i \notin new
  BY <1>1
<1>3. i \in DOMAIN catalog' /\ catalog'[i] = IF i = r.build THEN IA!Rebuilt(catalog[i], r) ELSE catalog[i]
  BY <1>1, <1>2
<1>4. catalog[i] \in IA!Shapes
  BY DEF AdvisorTypes
<1>5. /\ [catalog[i] EXCEPT !.inc = r.inc].key = catalog[i].key
      /\ [catalog[i] EXCEPT !.inc = r.inc].clustered = catalog[i].clustered
      /\ [catalog[i] EXCEPT !.inc = r.inc].inc = r.inc
  BY <1>4 DEF IA!Shapes
<1>6. i = r.build => catalog[i].inc \subseteq r.inc
  BY WhatIsAdvised
<1>7. CASE i = r.build /\ ~catalog[i].clustered
  <2>1. catalog'[i] = [catalog[i] EXCEPT !.inc = r.inc]
    BY <1>3, <1>7 DEF IA!Rebuilt
  <2>. QED BY <2>1, <1>3, <1>5, <1>6, <1>7
<1>8. CASE ~(i = r.build /\ ~catalog[i].clustered)
  <2>1. catalog'[i] = catalog[i]
    BY <1>3, <1>8 DEF IA!Rebuilt
  <2>. QED BY <2>1, <1>3, <1>8
<1>. QED BY <1>7, <1>8

LEMMA SeeksOn ==
    ASSUME NEW q \in IA!Lookups, NEW a \in IA!Shapes, NEW b \in IA!Shapes,
           IA!Seeks(q, a), IA!IsPrefix(a.key, b.key)
    PROVE  IA!Seeks(q, b)
<1>1. /\ q.key \in Seq(STRING) /\ a.key \in Seq(STRING) /\ b.key \in Seq(STRING)
  BY DEF IA!Lookups, IA!Shapes
<1>. QED BY <1>1, PrefixTransitive DEF IA!Seeks

LEMMA SeekKept ==
    ASSUME IA!IndexAdvisorAssumption, AdvisorInv, NEW r \in IA!Advice, IA!Follow(r),
           NEW q \in seeking
    PROVE  IA!Seekable(q, catalog')
<1> USE DEF AdvisorInv
<1>1. PICK i \in DOMAIN catalog : IA!Seeks(q, catalog[i]) /\ usage[i].reads > 0
  BY DEF Sought
<1>2. CASE i # r.drop
  <2>1. i \in DOMAIN catalog' /\ catalog'[i].key = catalog[i].key
    BY <1>2, WhatIsLeft
  <2>. QED BY <1>1, <2>1 DEF IA!Seekable, IA!Seeks
<1>3. CASE i = r.drop
  <2>1. PICK j \in DOMAIN catalog : j # r.drop /\ IA!IsPrefix(catalog[i].key, catalog[j].key)
    BY <1>1, <1>3, WhatIsAdvised
  <2>2. j \in DOMAIN catalog' /\ catalog'[j].key = catalog[j].key
    BY <2>1, WhatIsLeft
  <2>3. q \in IA!Lookups /\ catalog[i] \in IA!Shapes /\ catalog[j] \in IA!Shapes
    BY DEF AdvisorTypes, IA!IndexAdvisorAssumption
  <2>4. IA!Seeks(q, catalog[j])
    BY <1>1, <2>1, <2>3, SeeksOn
  <2>. QED BY <2>2, <2>4 DEF IA!Seekable, IA!Seeks
<1>. QED BY <1>2, <1>3

LEMMA CoverKept ==
    ASSUME IA!IndexAdvisorAssumption, AdvisorInv, NEW r \in IA!Advice, IA!Follow(r),
           r.kind # "prefix", r.drop \in DOMAIN catalog => ~catalog[r.drop].clustered,
           NEW q \in seeking, IA!Covered(q, catalog)
    PROVE  IA!Covered(q, catalog')
<1> USE DEF AdvisorInv
<1>1. PICK i \in DOMAIN catalog : IA!Covers(q, catalog[i]) /\ usage[i].reads > 0
  BY DEF Sought
<1>2. CASE i # r.drop
  <2>1. /\ i \in DOMAIN catalog' /\ catalog'[i].key = catalog[i].key
        /\ catalog'[i].clustered = catalog[i].clustered
        /\ catalog[i].inc \subseteq catalog'[i].inc
    BY <1>2, WhatIsLeft
  <2>2. IA!Covers(q, catalog'[i])
    BY <1>1, <2>1 DEF IA!Covers, IA!Seeks, IA!Columns
  <2>. QED BY <2>1, <2>2 DEF IA!Covered
<1>3. CASE i = r.drop
  <2>1. PICK j \in DOMAIN catalog :
          /\ j # r.drop /\ catalog[j].key = catalog[i].key
          /\ \/ catalog[j].inc = catalog[i].inc
             \/ j = r.build /\ r.inc = catalog[j].inc \cup catalog[i].inc
    BY <1>1, <1>3, WhatIsAdvised
  <2>2. /\ j \in DOMAIN catalog' /\ catalog'[j].key = catalog[j].key
        /\ catalog'[j].clustered = catalog[j].clustered
        /\ catalog[j].inc \subseteq catalog'[j].inc
        /\ j = r.build /\ ~catalog[j].clustered => catalog'[j].inc = r.inc
    BY <2>1, WhatIsLeft
  <2>3. IA!Seeks(q, catalog[i]) /\ q.needs \subseteq IA!Columns(catalog[i])
    BY <1>1, <1>3 DEF IA!Covers
  <2>4. CASE catalog[j].clustered
    <3>1. IA!Covers(q, catalog'[j])
      BY <2>1, <2>2, <2>3, <2>4 DEF IA!Covers, IA!Seeks
    <3>. QED BY <2>2, <3>1 DEF IA!Covered
  <2>5. CASE ~catalog[j].clustered
    <3>1. catalog[i].inc \subseteq catalog'[j].inc
      BY <2>1, <2>2, <2>5
    <3>2. IA!Covers(q, catalog'[j])
      BY <3>1, <2>1, <2>2, <2>3 DEF IA!Covers, IA!Seeks, IA!Columns
    <3>. QED BY <2>2, <3>2 DEF IA!Covered
  <2>. QED BY <2>4, <2>5
<1>. QED BY <1>2, <1>3

\* A statement names columns.
LEMMA AdviceNames ==
    ASSUME IA!IndexAdvisorAssumption, AdvisorTypes, NEW r \in IA!Advice
    PROVE  r.key \in Seq(STRING) /\ r.inc \in SUBSET STRING
<1>1. PICK cat \in {catalog, <<>>}, u \in {usage, <<>>}, idle \in {{}, DOMAIN usage} :
        r \in IA!Advise(cat, u, missing, idle)
  BY DEF IA!Advice, IA!OrNothing
<1>2. /\ DOMAIN cat \in SUBSET Nat
      /\ \A i \in DOMAIN cat : cat[i].key \in Seq(STRING) /\ cat[i].inc \in SUBSET STRING
  BY DEF AdvisorTypes, IA!IndexAdvisorAssumption, IA!Shapes
<1>3. CASE r \in IA!Creates(cat, missing)
  <2>1. PICK m \in IA!Range(IA!ConsolidateMissingIndexes(missing)) : r \in IA!CreateOrWiden(cat, m)
    BY <1>3 DEF IA!Creates
  <2>2. m \in Suggested
    <3>1. IA!ConsolidateMissingIndexes(missing) \in Seq(Suggested)
      BY Consolidated DEF AdvisorTypes, Owes
    <3>. QED BY <2>1, <3>1 DEF IA!Range
  <2>3. m.key \in Seq(STRING) /\ m.inc \in SUBSET STRING
    BY <2>2 DEF Suggested
  <2>4. /\ r.key = m.key
        /\ \/ IA!CreateOrWiden(cat, m) = {r} /\ r.build = IA!NoIndex
           \/ r.build \in DOMAIN cat /\ r.inc = cat[r.build].inc \cup m.inc
    BY <2>1, <1>2, MadeFor
  <2>5. r.inc \in {m.inc} \cup {cat[i].inc \cup m.inc : i \in DOMAIN cat}
    <3> DEFINE same == {i \in DOMAIN cat : /\ cat[i].key = m.key
                                          /\ ~cat[i].unique /\ ~cat[i].clustered}
    <3>1. CASE same = {}
      <4>1. IA!CreateOrWiden(cat, m) = {IA!Statement("create", IA!NoIndex, m.key, m.inc, IA!NoIndex, FALSE)}
        BY <3>1 DEF IA!CreateOrWiden
      <4>2. r = IA!Statement("create", IA!NoIndex, m.key, m.inc, IA!NoIndex, FALSE)
        BY <2>1, <4>1
      <4>. QED BY <4>2 DEF IA!Statement
    <3>2. CASE same # {}
      <4>1. IA!Min(same) \in same
        BY <3>2, <1>2, LeastIsIn
      <4>2. r \in {IA!Statement("widen", IA!Min(same), m.key, cat[IA!Min(same)].inc \cup m.inc, IA!NoIndex, FALSE)}
        BY <2>1, <3>2 DEF IA!CreateOrWiden
      <4>3. r.inc = cat[IA!Min(same)].inc \cup m.inc
        BY <4>2 DEF IA!Statement
      <4>. QED BY <4>1, <4>3
    <3>. QED BY <3>1, <3>2
  <2>. QED BY <2>3, <2>4, <2>5, <1>2
<1>4. CASE r \in IA!Drops(cat, idle) \cup IA!Duplicates(cat) \cup IA!RedundantExistingIndexes(cat)
  <2>1. r.key = <<>> /\ r.inc = {}
    BY <1>4 DEF IA!Drops, IA!Duplicates, IA!RedundantExistingIndexes, IA!Statement
  <2>. QED BY <2>1
<1>5. CASE r \in IA!Overlaps(cat, u)
  <2>1. PICK a \in DOMAIN cat, b \in DOMAIN cat : r = IA!Overlap(cat, a, b)
    <3>1. PICK p \in IA!SameKeyPairs(cat) :
            r \in {IA!Overlap(cat, p[1], p[2]), IA!Overlap(cat, p[2], p[1])}
      BY <1>5 DEF IA!Overlaps
    <3>2. p[1] \in DOMAIN cat /\ p[2] \in DOMAIN cat
      BY DEF IA!SameKeyPairs
    <3>. QED BY <3>1, <3>2
  <2>2. r.key = cat[a].key /\ r.inc = cat[a].inc \cup cat[b].inc
    BY <2>1 DEF IA!Overlap, IA!Statement, IA!UnionIncludes
  <2>. QED BY <2>2, <1>2
<1>. QED BY <1>1, <1>3, <1>4, <1>5 DEF IA!Advise

LEMMA AdvisorInit == ASSUME IA!IndexAdvisorAssumption, IA!Init PROVE AdvisorInv
<1>1. AdvisorTypes
  BY DEF IA!Init, IA!IndexAdvisorAssumption, AdvisorTypes, IA!Unused
<1>2. Sought
  BY DEF IA!Init, Sought
<1>. QED BY <1>1, <1>2 DEF AdvisorInv

\* Counting reads keeps what has been read.
LEMMA Counted ==
    ASSUME IA!IndexAdvisorAssumption, AdvisorTypes, NEW read, IA!Count(read)
    PROVE  /\ usage' \in [DOMAIN catalog -> [reads : Nat, updates : 0..2]]
           /\ \A i \in DOMAIN catalog : i \in read \/ usage[i].reads > 0 => usage'[i].reads > 0
<1>1. \A n \in Nat : IA!Capped(n + 1) \in Nat /\ IA!Capped(n + 1) > 0
  BY DEF IA!Capped, IA!IndexAdvisorAssumption
<1>2. /\ usage' = [i \in DOMAIN catalog |->
                     IF i \in read THEN [usage[i] EXCEPT !.reads = IA!Capped(@ + 1)] ELSE usage[i]]
      /\ \A i \in DOMAIN catalog : usage[i] \in [reads : Nat, updates : 0..2]
  BY DEF IA!Count, AdvisorTypes
<1>3. ASSUME NEW i \in DOMAIN catalog
      PROVE  /\ usage'[i] \in [reads : Nat, updates : 0..2]
             /\ i \in read \/ usage[i].reads > 0 => usage'[i].reads > 0
  BY <1>1, <1>2
<1>. QED BY <1>2, <1>3

LEMMA SuggestTyped ==
    ASSUME IA!IndexAdvisorAssumption, AdvisorTypes, NEW q \in Queries, IA!Suggest(q)
    PROVE  missing' \in Seq(Suggested)
<1> DEFINE m == [key |-> q.key, inc |-> q.needs \ IA!Range(q.key), seeks |-> 1]
           here == {k \in 1..Len(missing) : missing[k].key = m.key /\ missing[k].inc = m.inc}
           k == IA!Min(here)
<1>1. m \in Suggested /\ missing \in Seq(Suggested)
  BY DEF IA!IndexAdvisorAssumption, IA!Lookups, Suggested, AdvisorTypes
<1>2. CASE here = {}
  <2>1. missing' = Append(missing, m)
    BY <1>2 DEF IA!Suggest
  <2> HIDE DEF m
  <2>. QED BY <1>1, <2>1
<1>3. CASE here # {}
  <2>1. k \in here
    <3>1. here \in SUBSET Nat
      OBVIOUS
    <3> HIDE DEF here
    <3>. QED BY <1>3, <3>1, LeastIsIn
  <2>2. missing' = [missing EXCEPT ![k].seeks = IA!Capped(@ + 1)]
    BY <1>3 DEF IA!Suggest
  <2> HIDE DEF k
  <2>3. k \in 1..Len(missing) /\ missing[k] \in Suggested
    BY <1>1, <2>1
  <2> DEFINE e == [missing[k] EXCEPT !.seeks = IA!Capped(@ + 1)]
  <2>4. e \in Suggested
    <3>1. IA!Capped(missing[k].seeks + 1) \in Nat
      BY <2>3 DEF IA!Capped, IA!IndexAdvisorAssumption, Suggested
    <3>. QED BY <2>3, <3>1 DEF Suggested
  <2>5. missing' = [missing EXCEPT ![k] = e]
    BY <2>2
  <2> HIDE DEF e
  <2>. QED BY <1>1, <2>3, <2>4, <2>5
<1>. QED BY <1>2, <1>3

LEMMA QueryKeeps ==
    ASSUME IA!IndexAdvisorAssumption, AdvisorInv, NEW q \in Queries, IA!RunQuery(q)
    PROVE  AdvisorInv'
<1> USE DEF AdvisorInv
<1>1. PICK read :
        /\ IA!Count(read)
        /\ \/ UNCHANGED seeking
           \/ /\ seeking' = seeking \cup {q}
              /\ \E i \in read :
                   /\ i \in DOMAIN catalog /\ IA!Seeks(q, catalog[i])
                   /\ IA!Covered(q, catalog) => IA!Covers(q, catalog[i])
  BY DEF IA!RunQuery, IA!Covers
<1>2. UNCHANGED <<catalog, young, small>> /\ (UNCHANGED missing \/ IA!Suggest(q))
  BY DEF IA!RunQuery
<1>3. /\ usage' \in [DOMAIN catalog -> [reads : Nat, updates : 0..2]]
      /\ \A i \in DOMAIN catalog : i \in read \/ usage[i].reads > 0 => usage'[i].reads > 0
  BY <1>1, Counted
<1>4. missing' \in Seq(Suggested)
  BY <1>2, SuggestTyped DEF AdvisorTypes
<1>5. AdvisorTypes'
  BY <1>1, <1>2, <1>3, <1>4 DEF AdvisorTypes
<1>6. Sought'
  BY <1>1, <1>2, <1>3 DEF Sought, IA!Seeks, IA!Covered, IA!Covers, IA!Columns
<1>. QED BY <1>5, <1>6

LEMMA FollowKeeps ==
    ASSUME IA!IndexAdvisorAssumption, AdvisorInv, NEW r \in IA!Advice, IA!Follow(r)
    PROVE  AdvisorInv'
<1> USE DEF AdvisorInv
<1>1. PICK new : /\ new \in IF r.kind = "create" THEN {{k} : k \in Ids \ DOMAIN catalog} ELSE {{}}
                 /\ LET left == (DOMAIN catalog \ {r.drop}) \cup new
                    IN  /\ catalog' = [k \in left |->
                                         IF k \in new THEN IA!Created(r)
                                         ELSE IF k = r.build THEN IA!Rebuilt(catalog[k], r)
                                         ELSE catalog[k]]
                        /\ usage' = [k \in left |-> IF k \in new THEN IA!Unused ELSE usage[k]]
  BY DEF IA!Follow
<1>2. r.key \in Seq(STRING) /\ r.inc \in SUBSET STRING
  BY AdviceNames
<1>3. /\ IA!Created(r) \in IA!Shapes /\ IA!Unused \in [reads : Nat, updates : 0..2]
      /\ \A k \in DOMAIN catalog : IA!Rebuilt(catalog[k], r) \in IA!Shapes
  <2>1. IA!Created(r) \in IA!Shapes /\ IA!Unused \in [reads : Nat, updates : 0..2]
    BY <1>2 DEF IA!Created, IA!Unused, IA!Shapes
  <2>2. ASSUME NEW k \in DOMAIN catalog PROVE IA!Rebuilt(catalog[k], r) \in IA!Shapes
    <3>1. catalog[k] \in IA!Shapes
      BY DEF AdvisorTypes
    <3>2. [catalog[k] EXCEPT !.inc = r.inc] \in IA!Shapes
      BY <3>1, <1>2 DEF IA!Shapes
    <3>. QED BY <3>1, <3>2 DEF IA!Rebuilt
  <2>. QED BY <2>1, <2>2
<1>4. new \subseteq Ids
  BY <1>1
<1>5. /\ DOMAIN catalog' \subseteq Ids /\ catalog' \in [DOMAIN catalog' -> IA!Shapes]
      /\ usage' \in [DOMAIN catalog' -> [reads : Nat, updates : 0..2]]
  BY <1>1, <1>3, <1>4 DEF AdvisorTypes
<1>6. missing' \in Seq(Suggested) /\ seeking' = {} /\ UNCHANGED <<young, small>>
  <2>1. missing \in Seq(Suggested) /\ <<>> \in Seq(Suggested)
    BY DEF AdvisorTypes
  <2>2. missing' = missing \/ missing' = <<>>
    BY DEF IA!Follow, IA!OrNothing
  <2>3. seeking' = {} /\ UNCHANGED <<young, small>>
    BY DEF IA!Follow
  <2>. QED BY <2>1, <2>2, <2>3
<1>7. AdvisorTypes'
  BY <1>5, <1>6 DEF AdvisorTypes
<1>8. Sought'
  BY <1>6 DEF Sought
<1>. QED BY <1>7, <1>8

LEMMA AdvisorNext == ASSUME IA!IndexAdvisorAssumption, AdvisorInv, [IA!Next]_IA!vars PROVE AdvisorInv'
<1>1. ASSUME NEW q \in Queries, IA!RunQuery(q) PROVE AdvisorInv'
  BY <1>1, QueryKeeps
<1>2. ASSUME NEW many \in BOOLEAN, IA!Write(many) PROVE AdvisorInv'
  <2>1. /\ usage' \in [DOMAIN catalog -> [reads : Nat, updates : 0..2]]
        /\ \A i \in DOMAIN catalog : usage'[i].reads = usage[i].reads
    <3>1. /\ usage' = [i \in DOMAIN catalog |->
                        [usage[i] EXCEPT !.updates = IF many \/ @ = 2 THEN 2 ELSE 1]]
          /\ \A i \in DOMAIN catalog : usage[i] \in [reads : Nat, updates : 0..2]
      BY <1>2 DEF IA!Write, AdvisorInv, AdvisorTypes
    <3>2. ASSUME NEW i \in DOMAIN catalog
          PROVE  usage'[i] \in [reads : Nat, updates : 0..2] /\ usage'[i].reads = usage[i].reads
      BY <3>1
    <3>. QED BY <3>1, <3>2
  <2>2. AdvisorTypes'
    BY <1>2, <2>1 DEF IA!Write, AdvisorInv, AdvisorTypes
  <2>3. Sought'
    BY <1>2, <2>1 DEF IA!Write, AdvisorInv, Sought, IA!Seeks, IA!Covered, IA!Covers, IA!Columns
  <2>. QED BY <2>2, <2>3 DEF AdvisorInv
<1>3. CASE IA!Age \/ UNCHANGED IA!vars
  BY <1>3 DEF IA!Age, IA!vars, AdvisorInv, AdvisorTypes, Sought, IA!Seeks, IA!Covered, IA!Covers, IA!Columns
<1>4. CASE IA!Restart
  <2>1. AdvisorTypes'
    BY <1>4 DEF IA!Restart, AdvisorInv, AdvisorTypes, IA!Unused
  <2>2. Sought'
    BY <1>4 DEF IA!Restart, Sought
  <2>. QED BY <2>1, <2>2 DEF AdvisorInv
<1>5. ASSUME NEW r \in IA!Advice, IA!Follow(r) PROVE AdvisorInv'
  BY <1>5, FollowKeeps
<1>. QED BY <1>1, <1>2, <1>3, <1>4, <1>5 DEF IA!Next

LEMMA AdvisorKept == ASSUME IA!IndexAdvisorAssumption PROVE IA!Spec => []AdvisorInv
<1>1. IA!Init => AdvisorInv
  BY AdvisorInit
<1>2. AdvisorInv /\ [IA!Next]_IA!vars => AdvisorInv'
  BY AdvisorNext
<1>. QED BY <1>1, <1>2, PTL DEF IA!Spec

\* A step that changes the catalog follows a statement.
LEMMA CatalogMoves ==
    ASSUME [IA!Next]_IA!vars, catalog' # catalog
    PROVE  \E r \in IA!Advice : IA!Follow(r)
BY DEF IA!Next, IA!RunQuery, IA!Write, IA!Age, IA!Restart, IA!vars

-----------------------------------------------------------------------------
(* The requests of one backend.  What is shown of the AI log or of the     *)
(* actual plan alone holds of the composition: a step of it is a step of   *)
(* the component, or leaves its variables alone.                           *)

LEMMA AiLogMoves == RequestsSpec => Spec
<1>1. RequestsInit => Init
    BY DEF RequestsInit
<1>2. [RequestsNext]_allVars => [Next]_vars
    BY DEF RequestsNext, AiLogs, HealthScan, IndexAdvice, PlanRun, allVars
<1> QED
    BY <1>1, <1>2, PTL DEF RequestsSpec, Spec

LEMMA PlanMoves == RequestsSpec => AP!Spec
<1>1. RequestsInit => AP!Init
    BY DEF RequestsInit
<1>2. [RequestsNext]_allVars => [AP!Next]_AP!vars
    BY DEF RequestsNext, AiLogs, HealthScan, IndexAdvice, PlanRun, allVars, pVars,
           AP!vars, AP!pageVars, AP!session
<1> QED
    BY <1>1, <1>2, PTL DEF RequestsSpec, AP!Spec

LEMMA AdviceMoves == RequestsSpec => IA!Spec
<1>1. RequestsInit => IA!Init
    BY DEF RequestsInit
<1>2. [RequestsNext]_allVars => [IA!Next]_IA!vars
    BY DEF RequestsNext, AiLogs, HealthScan, IndexAdvice, PlanRun, allVars, iVars, IA!vars
<1> QED
    BY <1>1, <1>2, PTL DEF RequestsSpec, IA!Spec

LEMMA AdvisorKeptThere == RequestsSpec => []AdvisorInv
BY AdviceMoves, AdvisorKept, RequestsAssumption, PTL

LEMMA PlanKeptThere == RequestsSpec => []PlanInv
BY PlanMoves, PlanKept, RequestsAssumption, PTL

\* Beside any other request, a chat that a served DELETE found in the store only
\* never comes back (ailog.ts, clearAiLog; delete_ai_log).
THEOREM ChatsStayCleared == RequestsSpec => []ClearedStaysCleared
BY AiLogMoves, StaysCleared, PTL

\* A chat the store has as ended has its whole answer, unless its page's boot
\* listing came back while it streamed (ailog.ts).
THEOREM AnswersStoredWhole == RequestsSpec => []AnswerIsWhole
BY AiLogMoves, StoredWhole, PTL

\* ... and one that is over and has nothing under way is stored as ended.
THEOREM EndsStored == RequestsSpec => []EndIsStored
BY AiLogMoves, EndStored, PTL

\* Page, request and session of an actual plan stay in their types.
THEOREM PlanTypes == RequestsSpec => []AP!TypeOK
<1>1. PlanInv => AP!TypeOK
    BY DEF PlanInv
<1> QED
    BY <1>1, PlanKeptThere, PTL

\* A heavy batch runs only if the user confirmed that very batch or it could not
\* be priced, whatever was typed while the request was out (routes.rs:339).
THEOREM LoadAskedFor == RequestsSpec => []NoUnaskedLoad
<1>1. PlanInv => NoUnaskedLoad
    BY DEF PlanInv, Licensed, NoUnaskedLoad, AP!NoUnaskedLoad
<1> QED
    BY <1>1, PlanKeptThere, PTL

\* Wherever a batch fails and whenever its session ends, only one that holds a
\* ROLLBACK leaves a write behind (actual_plan, sqlserver.rs).
THEOREM OwnTraces == RequestsSpec => []OnlyOwnRollbackTraces
<1>1. PlanInv => OnlyOwnRollbackTraces
    BY DEF PlanInv, OnlyOwnRollbackTraces
<1> QED
    BY <1>1, PlanKeptThere, PTL

\* In whatever order the DMV lists its suggestions, consolidation answers every
\* one and keeps every seek (consolidate_missing_indexes, dmv.rs).
THEOREM Consolidates == RequestsSpec => []ConsolidationIsSound
<1>1. IA!IndexAdvisorAssumption
    BY RequestsAssumption
<1>2. AdvisorInv => ConsolidationIsSound
    BY <1>1, SoundConsolidation DEF AdvisorInv, ConsolidationIsSound
<1> QED
    BY <1>2, AdvisorKeptThere, PTL

\* Whichever statement of an up-to-date scan is followed, and whichever of the
\* scan's queries failed, what could be sought still can (advise, dmv.rs).
THEOREM SeeksAreKept == RequestsSpec => SeeksStay
<1>1. IA!IndexAdvisorAssumption
    BY RequestsAssumption
<1>2. AdvisorInv /\ [IA!Next]_IA!vars =>
        [catalog' # catalog =>
           \A q \in seeking : IA!Seekable(q, catalog) => IA!Seekable(q, catalog')]_IA!vars
    BY <1>1, CatalogMoves, SeekKept
<1> QED
    BY <1>2, AdvisorKeptThere, AdviceMoves, PTL DEF SeeksStay, IA!SeeksStay, IA!Spec

\* Nor does a statement take the covering index from a query that used one, but
\* by the drop of a prefix or of a clustered index (advise, dmv.rs).
THEOREM CoverIsKept == RequestsSpec => CoverStays
<1>1. IA!IndexAdvisorAssumption
    BY RequestsAssumption
<1>2. AdvisorInv =>
        [catalog' # catalog =>
           \A r \in IA!Advice :
             /\ IA!Follow(r) /\ r.kind # "prefix"
             /\ r.drop \in DOMAIN catalog => ~catalog[r.drop].clustered
             => \A q \in seeking : IA!Covered(q, catalog) => IA!Covered(q, catalog')]_IA!vars
    BY <1>1, CoverKept
<1> QED
    BY <1>2, AdvisorKeptThere, PTL DEF CoverStays, IA!CoverStays
=============================================================================
