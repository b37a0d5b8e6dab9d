-------------------------- MODULE DocServerProofs --------------------------
(***************************************************************************)
(* The document server, for every set of connections and users, every      *)
(* seeded document, every threshold and every bound: the session registry, *)
(* the version numbers, recovery, the presence hash and the refinement of  *)
(* DocStore.  What it and its clients keep for each other is in            *)
(* DocReplicaProofs.                                                       *)
(*                                                                         *)
(* Folds are unwound into loops once, in the first sections; what the      *)
(* proofs of the steps know of them are those lemmas.                      *)
(***************************************************************************)
EXTENDS DocProperties, OTProofs, TLAPS

-----------------------------------------------------------------------------
(* The session registry.                                                   *)

Links == {"new", "open", "gone", "done"}

\* An entry is a record: moving its cursor leaves its connection alone.
EntryShapes ==
  \A u \in DOMAIN session :
    session[u] = [ws |-> session[u].ws, cursor |-> session[u].cursor, role |-> session[u].role]

Registry ==
  /\ link \in [Conns -> Links] /\ joined \in [Conns -> BOOLEAN]
  /\ EntryShapes
  /\ \A u \in DOMAIN session : session[u].ws \in Conns
  /\ NoGhostEditors

\* Nothing in the registry's invariant but these three variables.
LEMMA RegistryUnchanged ==
  Registry /\ UNCHANGED <<session, link, joined>> => Registry'
BY DEF Registry, EntryShapes, NoGhostEditors

\* The empty registry is in order whatever the connections are.
LEMMA RegistryEmpty ==
  ASSUME session' = Empty, link' \in [Conns -> Links], joined' \in [Conns -> BOOLEAN]
  PROVE  Registry'
<1>1. DOMAIN session' = {}
  BY DEF Empty
<1> QED BY <1>1 DEF Registry, EntryShapes, NoGhostEditors

\* A registry whose entries are the old ones, some with another cursor.
LEMMA RegistryCursors ==
  ASSUME Registry, UNCHANGED <<link, joined>>, DOMAIN session' \subseteq DOMAIN session,
         \A u \in DOMAIN session' :
           session'[u] = session[u] \/ \E p : session'[u] = [session[u] EXCEPT !.cursor = p]
  PROVE  Registry'
<1>1. \A u \in DOMAIN session' :
        /\ session'[u].ws = session[u].ws
        /\ session'[u] = [ws |-> session'[u].ws, cursor |-> session'[u].cursor,
                          role |-> session'[u].role]
  <2> SUFFICES ASSUME NEW u \in DOMAIN session'
               PROVE  /\ session'[u].ws = session[u].ws
                      /\ session'[u] = [ws |-> session'[u].ws, cursor |-> session'[u].cursor,
                                        role |-> session'[u].role]
    OBVIOUS
  <2>1. session[u] = [ws |-> session[u].ws, cursor |-> session[u].cursor, role |-> session[u].role]
    BY DEF Registry, EntryShapes
  <2>2. CASE session'[u] = session[u]
    BY <2>1, <2>2
  <2>3. CASE \E p : session'[u] = [session[u] EXCEPT !.cursor = p]
    <3>1. PICK p : session'[u] = [session[u] EXCEPT !.cursor = p]
      BY <2>3
    <3>2. session'[u] = [ws |-> session[u].ws, cursor |-> p, role |-> session[u].role]
      BY <2>1, <3>1
    <3> QED BY <3>2
  <2> QED BY <2>2, <2>3
<1> QED BY <1>1 DEF Registry, EntryShapes, NoGhostEditors

\* Before the first connection nobody is registered.
LEMMA RegistryInit == Init => Registry
<1> SUFFICES ASSUME Init PROVE Registry
  OBVIOUS
<1>1. DOMAIN session = {}
  BY DEF Init, Empty
<1>2. link \in [Conns -> Links] /\ joined \in [Conns -> BOOLEAN]
  BY DEF Init, Links
<1> QED BY <1>1, <1>2 DEF Registry, EntryShapes, NoGhostEditors

\* Each action that changes the registry, or a connection it names, keeps it
\* in order; the others leave all three variables alone.
LEMMA RegistryStep == Registry /\ [Next]_vars => Registry'
<1> SUFFICES ASSUME Registry, [Next]_vars PROVE Registry'
  OBVIOUS
<1>0. link \in [Conns -> Links] /\ joined \in [Conns -> BOOLEAN]
  BY DEF Registry
<1>1. ASSUME NEW c \in Conns, HandleJoin(c) PROVE Registry'
  <2>1. /\ link[c] \in {"open", "gone"} /\ link' = link
        /\ joined' = [joined EXCEPT ![c] = TRUE]
    BY <1>1 DEF HandleJoin, Takes
  <2>2. \/ session' = session
        \/ \E r : session' = Bind(session, UserOf[c], [ws |-> c, cursor |-> 0, role |-> r])
    BY <1>1 DEF HandleJoin
  <2>3. joined' \in [Conns -> BOOLEAN] /\ joined'[c] /\ \A d \in Conns : joined[d] => joined'[d]
    BY <1>0, <2>1
  <2>4. CASE session' = session
    BY <2>1, <2>3, <2>4 DEF Registry, EntryShapes, NoGhostEditors
  <2>5. ASSUME NEW r, session' = Bind(session, UserOf[c], [ws |-> c, cursor |-> 0, role |-> r])
        PROVE  Registry'
    <3>1. /\ session'[UserOf[c]] = [ws |-> c, cursor |-> 0, role |-> r]
          /\ DOMAIN session' = DOMAIN session \cup {UserOf[c]}
          /\ \A u \in DOMAIN session : u # UserOf[c] => session'[u] = session[u]
      BY <2>5 DEF Bind
    <3>2. ASSUME NEW u \in DOMAIN session'
          PROVE  /\ session'[u] = [ws |-> session'[u].ws, cursor |-> session'[u].cursor,
                                   role |-> session'[u].role]
                 /\ session'[u].ws \in Conns /\ UserOf[session'[u].ws] = u
                 /\ joined'[session'[u].ws] /\ link'[session'[u].ws] \in {"open", "gone"}
      <4>1. CASE u = UserOf[c]
        BY <2>1, <2>3, <3>1, <4>1
      <4>2. CASE u # UserOf[c]
        BY <2>1, <2>3, <3>1, <3>2, <4>2 DEF Registry, EntryShapes, NoGhostEditors
      <4> QED BY <4>1, <4>2
    <3> QED BY <1>0, <2>1, <2>3, <3>2 DEF Registry, EntryShapes, NoGhostEditors
  <2> QED BY <2>2, <2>4, <2>5
<1>2. ASSUME NEW c \in Conns, HandleEdit(c) PROVE Registry'
  <2>1. UNCHANGED <<link, joined>>
    BY <1>2 DEF HandleEdit
  <2>2. session' = session \/ \E ops : MoveCursors(ops, UserOf[c])
    BY <1>2 DEF HandleEdit
  <2>3. ASSUME NEW ops, MoveCursors(ops, UserOf[c]) PROVE Registry'
    <3>1. session' = [u \in DOMAIN session |->
                        IF u = UserOf[c] THEN session[u]
                        ELSE [session[u] EXCEPT !.cursor = MovedCursor(u, ops)]]
      BY <2>3 DEF MoveCursors
    <3>2. DOMAIN session' = DOMAIN session
      BY <3>1
    <3>3. \A u \in DOMAIN session' :
            session'[u] = session[u] \/ \E p : session'[u] = [session[u] EXCEPT !.cursor = p]
      BY <3>1
    <3> QED BY <2>1, <3>2, <3>3, RegistryCursors
  <2> QED BY <2>1, <2>2, <2>3, RegistryUnchanged
<1>3. ASSUME NEW c \in Conns, HandleCursorUpdate(c) PROVE Registry'
  <2>1. UNCHANGED <<link, joined>>
    BY <1>3 DEF HandleCursorUpdate
  <2>2. session' = session \/ \E p : session' = [session EXCEPT ![UserOf[c]].cursor = p]
    BY <1>3 DEF HandleCursorUpdate
  <2>3. ASSUME NEW p, session' = [session EXCEPT ![UserOf[c]].cursor = p] PROVE Registry'
    <3>1. DOMAIN session' = DOMAIN session
      BY <2>3
    <3>2. \A u \in DOMAIN session' :
            session'[u] = session[u] \/ session'[u] = [session[u] EXCEPT !.cursor = p]
      BY <2>3
    <3> QED BY <2>1, <3>1, <3>2, RegistryCursors
  <2> QED BY <2>1, <2>2, <2>3, RegistryUnchanged
<1>4. ASSUME NEW c \in Conns, HandleDisconnect(c) PROVE Registry'
  <2>1. link' = [link EXCEPT ![c] = "done"] /\ joined' = joined
    BY <1>4 DEF HandleDisconnect
  <2>2. link' \in [Conns -> Links] /\ \A d \in Conns : d # c => link'[d] = link[d]
    BY <1>0, <2>1 DEF Links
  <2>3. /\ DOMAIN session' \subseteq DOMAIN session
        /\ \A u \in DOMAIN session' : session'[u] = session[u]
        /\ joined[c] => UserOf[c] \notin DOMAIN session'
    <3>1. CASE joined[c] /\ UserOf[c] \in DOMAIN session
      <4>1. session' = Restrict(session, DOMAIN session \ {UserOf[c]})
        BY <1>4, <3>1 DEF HandleDisconnect, Leave
      <4> QED BY <4>1 DEF Restrict
    <3>2. CASE ~(joined[c] /\ UserOf[c] \in DOMAIN session)
      BY <1>4, <3>2 DEF HandleDisconnect
    <3> QED BY <3>1, <3>2
  <2>4. \A u \in DOMAIN session' : session[u].ws # c
    BY <2>3 DEF Registry, NoGhostEditors
  <2> QED BY <2>1, <2>2, <2>3, <2>4 DEF Registry, EntryShapes, NoGhostEditors
<1>5. ASSUME NEW c \in Conns, CheckUnload(c) PROVE Registry'
  <2>1. UNCHANGED <<link, joined>> /\ (session' = session \/ session' = Empty)
    BY <1>5 DEF CheckUnload
  <2> QED BY <1>0, <2>1, RegistryEmpty, RegistryUnchanged
<1>6. ASSUME NEW c \in Conns, Connect(c) \/ ClientCloses(c) PROVE Registry'
  <2>1. /\ UNCHANGED <<session, joined>>
        /\ \/ link[c] = "new" /\ link' = [link EXCEPT ![c] = "open"]
           \/ link[c] = "open" /\ link' = [link EXCEPT ![c] = "gone"]
    BY <1>6 DEF Connect, ClientCloses
  <2>2. /\ link' \in [Conns -> Links]
        /\ \A d \in Conns : link[d] \in {"open", "gone"} => link'[d] \in {"open", "gone"}
    BY <1>0, <2>1 DEF Links
  <2> QED BY <2>1, <2>2 DEF Registry, EntryShapes, NoGhostEditors
<1>7. CASE Crash
  <2>1. session' = Empty /\ joined' \in [Conns -> BOOLEAN] /\ link' \in [Conns -> Links]
    BY <1>7 DEF Crash, Links
  <2> QED BY <2>1, RegistryEmpty
<1>8. ASSUME NEW c \in Conns,
             \/ HandleSaveSnapshot(c) \/ HandleRestoreVersion(c) \/ HandleCreateDoc(c)
             \/ SendReply(c) \/ SendNext(c) \/ BeginBroadcast(c) \/ CheckAutoSnapshot(c)
             \/ ClientReceives(c)
      PROVE  Registry'
  <2>1. UNCHANGED <<session, link, joined>>
    BY <1>8 DEF HandleSaveSnapshot, HandleRestoreVersion, HandleCreateDoc, SendReply, SendNext,
                BeginBroadcast, CheckAutoSnapshot, ClientReceives
  <2> QED BY <2>1, RegistryUnchanged
<1>9. ASSUME NEW c \in Conns,
             \/ ClientJoins(c) \/ ClientEdits(c) \/ ClientMovesCursor(c) \/ ClientSaves(c)
             \/ ClientRestores(c) \/ ClientCreates(c)
      PROVE  Registry'
  <2>1. UNCHANGED <<session, link, joined>>
    BY <1>9 DEF ClientJoins, ClientEdits, ClientMovesCursor, ClientSaves, ClientRestores,
                ClientCreates, ClientSends
  <2> QED BY <2>1, RegistryUnchanged
<1>10. CASE Restart
  BY <1>10, RegistryUnchanged DEF Restart
<1>11. CASE UNCHANGED vars
  BY <1>11, RegistryUnchanged DEF vars
<1> QED
  BY <1>1, <1>2, <1>3, <1>4, <1>5, <1>6, <1>7, <1>8, <1>9, <1>10, <1>11
  DEF Next, Handle, Step, ClientActs

\* handle_disconnect cleans up after every connection that joined, however many
\* connections a user has and in whatever order they join and end.
THEOREM NoGhosts == Spec => []NoGhostEditors
<1>1. Registry => NoGhostEditors
  BY DEF Registry
<1> QED BY RegistryInit, RegistryStep, <1>1, PTL DEF Spec

-----------------------------------------------------------------------------
(* The version numbers.                                                    *)

DbShape(d) ==
  d = [row |-> d.row, collab |-> d.collab, snaps |-> d.snaps, ops |-> d.ops, current |-> d.current]

DocShape(m) ==
  m = [text |-> m.text, version |-> m.version, pending |-> m.pending, log |-> m.log]

\* A history: versions are numbers, and unless there is none one is greatest.
Numbered(snaps) ==
  /\ snaps = [v \in DOMAIN snaps |-> snaps[v]]
  /\ \A v \in DOMAIN snaps : v \in Nat
  /\ DOMAIN snaps = {} \/ \E v \in DOMAIN snaps : \A w \in DOMAIN snaps : v >= w

\* documents.current_version has not passed the history, and without a
\* documents row there is nothing else.
HistoryOK(d) ==
  /\ DbShape(d) /\ Numbered(d.snaps)
  /\ d.current \in Nat /\ d.current <= LatestVersion(d)
  /\ ~d.row => DOMAIN d.snaps = {} /\ DOMAIN d.collab = {} /\ d.current = 0

\* What is loaded has the latest version, and was loaded from a documents row.
LoadedLatest == Loaded => DocShape(doc) /\ doc.version = LatestVersion(db) /\ db.row

Versions == HistoryOK(db) /\ LoadedLatest

\* The latest version is 0 or the greatest in the history.
LEMMA LatestIsGreatest ==
  ASSUME NEW d, Numbered(d.snaps)
  PROVE  /\ LatestVersion(d) \in Nat /\ \A v \in DOMAIN d.snaps : v <= LatestVersion(d)
         /\ DOMAIN d.snaps = {} => LatestVersion(d) = 0
         /\ DOMAIN d.snaps # {} => LatestVersion(d) \in DOMAIN d.snaps
<1>1. CASE DOMAIN d.snaps = {}
  <2>1. d.snaps = Empty
    BY <1>1 DEF Empty, Numbered
  <2> QED BY <1>1, <2>1 DEF LatestVersion
<1>2. CASE DOMAIN d.snaps # {}
  <2>1. d.snaps # Empty
    BY <1>2 DEF Empty
  <2>2. PICK v \in DOMAIN d.snaps : \A w \in DOMAIN d.snaps : v >= w
    BY <1>2 DEF Numbered
  <2>3. LatestVersion(d) = CHOOSE x \in DOMAIN d.snaps : \A w \in DOMAIN d.snaps : x >= w
    BY <2>1 DEF LatestVersion, Max
  <2>4. /\ LatestVersion(d) \in DOMAIN d.snaps
        /\ \A w \in DOMAIN d.snaps : LatestVersion(d) >= w
    BY <2>2, <2>3
  <2> QED BY <1>2, <2>4 DEF Numbered
<1> QED BY <1>1, <1>2

\* A new greatest number becomes the latest version.
LEMMA LatestAfterBind ==
  ASSUME NEW d, NEW e, NEW n \in Nat, NEW t, e.snaps = Bind(d.snaps, n, t),
         \A v \in DOMAIN d.snaps : v \in Nat /\ v < n
  PROVE  LatestVersion(e) = n /\ Numbered(e.snaps)
<1>1. /\ DOMAIN e.snaps = DOMAIN d.snaps \cup {n}
      /\ e.snaps = [v \in DOMAIN e.snaps |-> e.snaps[v]]
  BY DEF Bind
<1>2. \A v \in DOMAIN e.snaps : v \in Nat /\ n >= v
  BY <1>1
<1>3. Numbered(e.snaps)
  BY <1>1, <1>2 DEF Numbered
<1>4. LatestVersion(e) \in DOMAIN e.snaps /\ \A v \in DOMAIN e.snaps : v <= LatestVersion(e)
  BY <1>1, <1>3, LatestIsGreatest
<1>5. LatestVersion(e) = n
  BY <1>1, <1>2, <1>4
<1> QED BY <1>3, <1>5

\* Each of the two commits of create_snapshot leaves a history in order.
LEMMA SnapshotKeepsHistory ==
  ASSUME NEW d, NEW m, HistoryOK(d), d.row, m.version = LatestVersion(d)
  PROVE  LET s == SnapshotCommits(d, m)
         IN  /\ HistoryOK(s[1]) /\ HistoryOK(s[2]) /\ Last(s) = s[2] /\ Len(s) = 2
             /\ s[2].row /\ LatestVersion(s[2]) = m.version + 1
<1> DEFINE e == [d EXCEPT !.snaps = Bind(@, m.version + 1, m.text)]
           f == [e EXCEPT !.current = m.version + 1]
<1>1. SnapshotCommits(d, m) = << e, f >>
  BY DEF SnapshotCommits
<1>2. LatestVersion(d) \in Nat /\ \A v \in DOMAIN d.snaps : v <= LatestVersion(d)
  BY LatestIsGreatest DEF HistoryOK
<1>3. m.version + 1 \in Nat /\ \A v \in DOMAIN d.snaps : v \in Nat /\ v < m.version + 1
  BY <1>2 DEF HistoryOK, Numbered
<1> DEFINE newer == Bind(d.snaps, m.version + 1, m.text)
           next == m.version + 1
<1>4. /\ e = [row |-> d.row, collab |-> d.collab, snaps |-> newer, ops |-> d.ops,
              current |-> d.current]
      /\ f = [row |-> d.row, collab |-> d.collab, snaps |-> newer, ops |-> d.ops,
              current |-> next]
  <2>1. e = [d EXCEPT !.snaps = newer] /\ f = [e EXCEPT !.current = next]
    OBVIOUS
  <2> HIDE DEF e, f, newer, next
  <2>2. d = [row |-> d.row, collab |-> d.collab, snaps |-> d.snaps, ops |-> d.ops,
             current |-> d.current]
    BY DEF HistoryOK, DbShape
  <2>3. e = [row |-> d.row, collab |-> d.collab, snaps |-> newer, ops |-> d.ops,
             current |-> d.current]
    BY <2>1, <2>2
  <2> QED BY <2>1, <2>3
<1> HIDE DEF e, f
<1>5. ASSUME NEW g \in {e, f} PROVE LatestVersion(g) = next /\ Numbered(g.snaps)
  <2>1. next \in Nat /\ \A v \in DOMAIN d.snaps : v \in Nat /\ v < next
    BY <1>3
  <2>2. e.snaps = newer /\ f.snaps = newer
    <3> HIDE DEF newer, next
    <3> QED BY <1>4
  <2>3. g.snaps = newer
    BY <2>2
  <2> DEFINE t == m.text
  <2>4. g.snaps = Bind(d.snaps, next, t)
    BY <2>3
  <2> HIDE DEF next, t
  <2> QED BY ONLY <2>1, <2>4, LatestAfterBind
<1>6. /\ e.current = d.current /\ d.current \in Nat /\ d.current <= LatestVersion(d)
      /\ f.current = next /\ e.row = d.row /\ f.row = d.row
  <2> HIDE DEF newer, next
  <2> QED BY <1>4 DEF HistoryOK
<1>7. DbShape(e) /\ DbShape(f)
  <2> HIDE DEF newer, next
  <2> QED BY <1>4, <1>5 DEF DbShape
<1>8. HistoryOK(e) /\ HistoryOK(f)
  BY <1>2, <1>3, <1>5, <1>6, <1>7 DEF HistoryOK
<1>9. f.row /\ LatestVersion(f) = m.version + 1
  BY <1>5, <1>6
<1>10. Last(<< e, f >>) = f /\ Len(<< e, f >>) = 2 /\ << e, f >>[1] = e /\ << e, f >>[2] = f
  BY DEF Last
<1> QED BY <1>1, <1>8, <1>9, <1>10

\* A row of operations does not touch the history.
LEMMA LoggedKeepsHistory ==
  ASSUME NEW d, NEW v, NEW ops, HistoryOK(d)
  PROVE  /\ HistoryOK(Logged(d, v, ops)) /\ LatestVersion(Logged(d, v, ops)) = LatestVersion(d)
         /\ Logged(d, v, ops).row = d.row
<1> DEFINE rows == d.ops \o [k \in DOMAIN ops |-> [version |-> v, op |-> ops[k]]]
           e == Logged(d, v, ops)
<1>1. d = [row |-> d.row, collab |-> d.collab, snaps |-> d.snaps, ops |-> d.ops,
           current |-> d.current]
  BY DEF HistoryOK, DbShape
<1>2. e = [d EXCEPT !.ops = rows]
  BY DEF Logged
<1> HIDE DEF rows, e
<1>3. e = [row |-> d.row, collab |-> d.collab, snaps |-> d.snaps, ops |-> rows,
           current |-> d.current]
  BY <1>1, <1>2
<1>4. /\ e.row = d.row /\ e.collab = d.collab /\ e.snaps = d.snaps /\ e.current = d.current
      /\ e.ops = rows
  BY <1>3
<1>5. LatestVersion(e) = LatestVersion(d)
  BY <1>4 DEF LatestVersion
<1>6. HistoryOK(e)
  BY <1>3, <1>4, <1>5 DEF HistoryOK, DbShape
<1> QED BY <1>4, <1>5, <1>6 DEF e

\* The history of a new document.
LEMMA FirstVersion ==
  ASSUME NEW t
  PROVE  DOMAIN Bind(Empty, 0, t) = {0} /\ Numbered(Bind(Empty, 0, t))
<1> DEFINE snaps == Bind(Empty, 0, t)
<1>1. DOMAIN snaps = {0} /\ snaps = [v \in DOMAIN snaps |-> snaps[v]]
  BY DEF Bind, Empty
<1> HIDE DEF snaps
<1>2. Numbered(snaps)
  BY <1>1 DEF Numbered
<1> QED BY <1>1, <1>2 DEF snaps

\* Each commit of handle_create_doc, on a database without the document.
LEMMA CreateKeepsHistory ==
  ASSUME NEW u, HistoryOK(db), ~db.row
  PROVE  LET s == CreateCommits(u)
         IN  /\ HistoryOK(s[1]) /\ HistoryOK(s[2]) /\ HistoryOK(s[3])
             /\ Last(s) = s[3] /\ Len(s) = 3
<1> DEFINE s == CreateCommits(u)
<1>1. /\ db = [row |-> db.row, collab |-> db.collab, snaps |-> db.snaps, ops |-> db.ops,
               current |-> db.current]
      /\ Numbered(db.snaps) /\ DOMAIN db.snaps = {} /\ db.current = 0
  BY DEF HistoryOK, DbShape
<1>2. /\ s[1] = [row |-> TRUE, collab |-> db.collab, snaps |-> db.snaps, ops |-> db.ops,
                 current |-> db.current]
      /\ s[2] = [row |-> TRUE, collab |-> Bind(Empty, u, "owner"), snaps |-> db.snaps,
                 ops |-> db.ops, current |-> db.current]
      /\ s[3] = [row |-> TRUE, collab |-> Bind(Empty, u, "owner"), snaps |-> Bind(Empty, 0, << >>),
                 ops |-> db.ops, current |-> db.current]
      /\ Len(s) = 3 /\ Last(s) = s[3]
  BY <1>1 DEF CreateCommits, Last
<1> HIDE DEF s
<1>3. ASSUME NEW g \in {s[1], s[2]} PROVE HistoryOK(g)
  <2>1. g.row = TRUE /\ g.snaps = db.snaps /\ g.current = 0 /\ DbShape(g)
    BY <1>1, <1>2 DEF DbShape
  <2>2. DOMAIN g.snaps = {} /\ Numbered(g.snaps)
    BY <1>1, <2>1
  <2>3. LatestVersion(g) = 0
    BY <2>2, LatestIsGreatest
  <2> QED BY <2>1, <2>2, <2>3 DEF HistoryOK
<1>4. HistoryOK(s[3])
  <2>1. /\ s[3].row = TRUE /\ s[3].snaps = Bind(Empty, 0, << >>) /\ s[3].current = 0
        /\ DbShape(s[3])
    BY <1>1, <1>2 DEF DbShape
  <2>2. DOMAIN s[3].snaps = {0} /\ Numbered(s[3].snaps)
    BY <2>1, FirstVersion
  <2>3. LatestVersion(s[3]) \in {0}
    BY <2>2, LatestIsGreatest
  <2> QED BY <2>1, <2>2, <2>3 DEF HistoryOK
<1> QED BY <1>2, <1>3, <1>4 DEF s

-----------------------------------------------------------------------------
\* What load_document returns, and what handle_restore_version makes of it.
LEMMA MemoryIsLatest ==
  ASSUME Versions
  PROVE  /\ DocShape(LoadDocument) /\ LoadDocument.version = LatestVersion(db)
         /\ \A v : DocShape(Restored(v)) /\ Restored(v).version = LatestVersion(db)
<1>1. DocShape(LoadDocument) /\ LoadDocument.version = LatestVersion(db)
  BY DEF LoadDocument, Versions, LoadedLatest, DocShape
<1>2. ASSUME NEW v PROVE DocShape(Restored(v)) /\ Restored(v).version = LatestVersion(db)
  <2>1. Restored(v) = [LoadDocument EXCEPT !.text = db.snaps[v], !.pending = 0, !.log = << >>]
    BY DEF Restored
  <2> QED BY <1>1, <2>1 DEF DocShape
<1> QED BY <1>1, <1>2

\* create_snapshot keeps memory and database in step.
LEMMA SnapshotStep ==
  ASSUME Versions, NEW m, DocShape(m), m.version = LatestVersion(db), db.row, CreateSnapshot(m)
  PROVE  Versions'
<1>1. doc' = [m EXCEPT !.version = @ + 1, !.pending = 0] /\ db' = Last(SnapshotCommits(db, m))
  BY DEF CreateSnapshot, Snapshotted
<1>2. HistoryOK(db') /\ LatestVersion(db') = m.version + 1 /\ db'.row
  BY <1>1, SnapshotKeepsHistory DEF Versions
<1>3. DocShape(doc') /\ doc'.version = m.version + 1
  BY <1>1 DEF DocShape
<1> QED BY <1>2, <1>3 DEF Versions, LoadedLatest

\* What a crash between two commits can leave is a history in order.
LEMMA CrashKeepsHistory ==
  ASSUME Versions, NEW c, NEW d \in CutShort(c)
  PROVE  HistoryOK(d)
<1>1. \/ /\ Loaded
         /\ \E k \in 1 .. Len(SnapshotCommits(db, doc)) - 1 : d = SnapshotCommits(db, doc)[k]
      \/ Loaded /\ \E ops : d = Logged(db, doc.version, ops)
      \/ \E v \in DOMAIN db.snaps : \E k \in 1 .. Len(SnapshotCommits(db, Restored(v))) - 1 :
           d = SnapshotCommits(db, Restored(v))[k]
      \/ /\ ~db.row
         /\ \E k \in 1 .. Len(CreateCommits(UserOf[c])) - 1 : d = CreateCommits(UserOf[c])[k]
  BY DEF CutShort
<1>2. HistoryOK(db)
  BY DEF Versions
<1>3. ASSUME NEW m, m.version = LatestVersion(db), db.row,
             NEW k \in 1 .. Len(SnapshotCommits(db, m)) - 1
      PROVE  HistoryOK(SnapshotCommits(db, m)[k])
  <2>1. Len(SnapshotCommits(db, m)) = 2 /\ HistoryOK(SnapshotCommits(db, m)[1])
    BY <1>2, <1>3, SnapshotKeepsHistory
  <2>2. k = 1
    BY <2>1
  <2> QED BY <2>1, <2>2
<1>4. ASSUME ~db.row, NEW k \in 1 .. Len(CreateCommits(UserOf[c])) - 1
      PROVE  HistoryOK(CreateCommits(UserOf[c])[k])
  <2>1. /\ Len(CreateCommits(UserOf[c])) = 3 /\ HistoryOK(CreateCommits(UserOf[c])[1])
        /\ HistoryOK(CreateCommits(UserOf[c])[2])
    BY <1>2, <1>4, CreateKeepsHistory
  <2>2. k = 1 \/ k = 2
    BY <2>1
  <2> QED BY <2>1, <2>2
<1>5. DOMAIN db.snaps # {} => db.row
  BY <1>2 DEF HistoryOK
<1>6. Loaded => db.row /\ doc.version = LatestVersion(db)
  BY DEF Versions, LoadedLatest
<1> QED BY <1>1, <1>2, <1>3, <1>4, <1>5, <1>6, LoggedKeepsHistory, MemoryIsLatest

\* No document has no versions; a seeded one has versions 0 and 1 and nothing
\* of it is in memory.
LEMMA VersionsInit == Init => Versions
<1> SUFFICES ASSUME Init PROVE Versions
  OBVIOUS
<1>1. ~Loaded
  BY DEF Init, Loaded
<1>2. CASE db = NoDocument
  <2>1. /\ ~db.row /\ DOMAIN db.snaps = {} /\ DOMAIN db.collab = {} /\ db.current = 0
        /\ DbShape(db) /\ Numbered(db.snaps)
    BY <1>2 DEF NoDocument, Empty, DbShape, Numbered
  <2>2. LatestVersion(db) = 0
    BY <2>1, LatestIsGreatest
  <2> QED BY <1>1, <2>1, <2>2 DEF Versions, HistoryOK, LoadedLatest
<1>3. ASSUME NEW collab, db = SeededDocument(collab) PROVE Versions
  <2> DEFINE first == [snaps |-> Bind(Empty, 0, << >>)]
             history == Bind(first.snaps, 1, Seed)
             rows == << [version |-> 0,
                         op |-> MakeInsert(0, Seed, CHOOSE u \in DOMAIN collab : collab[u] = "owner")] >>
  <2>1. db = [row |-> TRUE, collab |-> collab, snaps |-> history, ops |-> rows, current |-> 1]
    BY <1>3 DEF SeededDocument
  <2>2. DOMAIN first.snaps = {0}
    BY FirstVersion
  <2>3. \A v \in DOMAIN first.snaps : v \in Nat /\ v < 1
    BY <2>2
  <2> HIDE DEF first, rows
  <2>4. db.snaps = Bind(first.snaps, 1, Seed)
    BY <2>1
  <2>5. LatestVersion(db) = 1 /\ Numbered(db.snaps)
    BY ONLY <2>3, <2>4, LatestAfterBind
  <2> HIDE DEF history
  <2>6. db.row /\ db.current = 1 /\ DbShape(db)
    BY <2>1 DEF DbShape
  <2> QED BY <1>1, <2>5, <2>6 DEF Versions, HistoryOK, LoadedLatest
<1> QED BY <1>2, <1>3 DEF Init

\* The actions that commit a snapshot, load the document or unload it keep the
\* version in memory the latest of the history; the others touch neither.
LEMMA VersionsStep == Versions /\ [Next]_vars => Versions'
<1> SUFFICES ASSUME Versions, [Next]_vars PROVE Versions'
  OBVIOUS
<1>0. ASSUME UNCHANGED <<doc, db>> PROVE Versions'
  BY <1>0 DEF Versions, LoadedLatest, Loaded
<1>1. HistoryOK(db) /\ (Loaded => DocShape(doc) /\ doc.version = LatestVersion(db) /\ db.row)
  BY DEF Versions, LoadedLatest
<1>2. ASSUME NEW c \in Conns, HandleJoin(c) PROVE Versions'
  <2>1. db' = db /\ (doc' = doc \/ (doc' = LoadDocument /\ UserOf[c] \in DOMAIN db.collab))
    BY <1>2 DEF HandleJoin
  <2>2. CASE doc' = LoadDocument /\ UserOf[c] \in DOMAIN db.collab
    <3>1. db.row
      BY <1>1, <2>2 DEF HistoryOK
    <3> QED BY <1>1, <2>1, <2>2, <3>1, MemoryIsLatest DEF Versions, LoadedLatest
  <2> QED BY <1>0, <2>1, <2>2
<1>3. ASSUME NEW c \in Conns, HandleEdit(c) PROVE Versions'
  <2>1. \/ UNCHANGED <<doc, db>>
        \/ /\ Loaded
           /\ \E ops, text, log, pending :
                /\ doc' = [doc EXCEPT !.text = text, !.log = log, !.pending = pending]
                /\ db' = Logged(db, doc.version, ops)
    BY <1>3 DEF HandleEdit
  <2>2. ASSUME Loaded, NEW ops, NEW text, NEW log, NEW pending,
               doc' = [doc EXCEPT !.text = text, !.log = log, !.pending = pending],
               db' = Logged(db, doc.version, ops)
        PROVE  Versions'
    <3>1. HistoryOK(db') /\ LatestVersion(db') = LatestVersion(db) /\ db'.row = db.row
      BY <1>1, <2>2, LoggedKeepsHistory
    <3>2. DocShape(doc') /\ doc'.version = doc.version
      BY <1>1, <2>2 DEF DocShape
    <3> QED BY <1>1, <2>2, <3>1, <3>2 DEF Versions, LoadedLatest
  <2> QED BY <1>0, <2>1, <2>2
<1>4. ASSUME NEW c \in Conns, HandleSaveSnapshot(c) \/ CheckAutoSnapshot(c) PROVE Versions'
  <2>1. UNCHANGED <<doc, db>> \/ (Loaded /\ CreateSnapshot(doc))
    BY <1>4 DEF HandleSaveSnapshot, CheckAutoSnapshot
  <2> QED BY <1>0, <1>1, <2>1, SnapshotStep
<1>5. ASSUME NEW c \in Conns, HandleRestoreVersion(c) PROVE Versions'
  <2>1. UNCHANGED <<doc, db>> \/ \E v \in DOMAIN db.snaps : CreateSnapshot(Restored(v))
    BY <1>5 DEF HandleRestoreVersion
  <2>2. DOMAIN db.snaps # {} => db.row
    BY <1>1 DEF HistoryOK
  <2> QED BY <1>0, <2>1, <2>2, MemoryIsLatest, SnapshotStep
<1>6. ASSUME NEW c \in Conns, HandleCreateDoc(c) PROVE Versions'
  <2>1. doc' = doc /\ (db' = db \/ (~db.row /\ db' = Last(CreateCommits(UserOf[c]))))
    BY <1>6 DEF HandleCreateDoc
  <2>2. CASE ~db.row /\ db' = Last(CreateCommits(UserOf[c]))
    <3>1. HistoryOK(db') /\ ~Loaded
      BY <1>1, <2>2, CreateKeepsHistory
    <3> QED BY <2>1, <3>1 DEF Versions, LoadedLatest, Loaded
  <2> QED BY <1>0, <2>1, <2>2
<1>7. ASSUME NEW c \in Conns, CheckUnload(c) PROVE Versions'
  <2>1. \/ UNCHANGED <<doc, db>>
        \/ /\ doc' = NotLoaded
           /\ db' = db \/ (Loaded /\ db' = Last(SnapshotCommits(db, doc)))
    BY <1>7 DEF CheckUnload
  <2>2. Loaded => HistoryOK(Last(SnapshotCommits(db, doc)))
    BY <1>1, SnapshotKeepsHistory
  <2>3. doc' = NotLoaded /\ HistoryOK(db') => Versions'
    BY DEF Versions, LoadedLatest, Loaded
  <2> QED BY <1>0, <1>1, <2>1, <2>2, <2>3
<1>8. CASE Crash
  <2>1. doc' = NotLoaded /\ (db' = db \/ \E c \in Conns \cup {loop} : db' \in CutShort(c))
    BY <1>8 DEF Crash
  <2> QED BY <1>1, <2>1, CrashKeepsHistory DEF Versions, LoadedLatest, Loaded
<1>9. ASSUME NEW c \in Conns,
             \/ HandleCursorUpdate(c) \/ HandleDisconnect(c) \/ SendReply(c) \/ SendNext(c)
             \/ BeginBroadcast(c) \/ Connect(c) \/ ClientReceives(c) \/ ClientCloses(c)
      PROVE  Versions'
  <2>1. UNCHANGED <<doc, db>>
    BY <1>9 DEF HandleCursorUpdate, HandleDisconnect, SendReply, SendNext, BeginBroadcast, Connect,
                ClientReceives, ClientCloses
  <2> QED BY <1>0, <2>1
<1>10. ASSUME NEW c \in Conns,
             \/ ClientJoins(c) \/ ClientEdits(c) \/ ClientMovesCursor(c) \/ ClientSaves(c)
             \/ ClientRestores(c) \/ ClientCreates(c)
      PROVE  Versions'
  <2>1. UNCHANGED <<doc, db>>
    BY <1>10 DEF ClientJoins, ClientEdits, ClientMovesCursor, ClientSaves, ClientRestores,
                 ClientCreates, ClientSends
  <2> QED BY <1>0, <2>1
<1>11. CASE Restart
  BY <1>0, <1>11 DEF Restart
<1>12. CASE UNCHANGED vars
  BY <1>0, <1>12 DEF vars
<1> QED
  BY <1>2, <1>3, <1>4, <1>5, <1>6, <1>7, <1>8, <1>9, <1>10, <1>11, <1>12
  DEF Next, Handle, Step, ClientActs

\* create_snapshot never inserts a (document_id, version) that exists, whatever
\* the interleaving of edits, saves, restores, unloads, reloads and crashes.
THEOREM VersionNumbers == Spec => []VersionsAdvance
<1>1. Versions => VersionsAdvance
  <2> SUFFICES ASSUME Versions PROVE VersionsAdvance
    OBVIOUS
  <2>1. LatestVersion(db) \in Nat /\ \A v \in DOMAIN db.snaps : v \in Nat /\ v <= LatestVersion(db)
    BY LatestIsGreatest DEF Versions, HistoryOK, Numbered
  <2>2. Loaded => doc.version + 1 \notin DOMAIN db.snaps
    BY <2>1 DEF Versions, LoadedLatest
  <2>3. db.current <= LatestVersion(db)
    BY DEF Versions, HistoryOK
  <2> QED BY <2>2, <2>3 DEF VersionsAdvance
<1> QED BY VersionsInit, VersionsStep, <1>1, PTL DEF Spec

-----------------------------------------------------------------------------
(* The folds of the model, as loops.                                       *)

\* The loop of load_document: out[k] is the text after k of the n rows.
ReplaySteps(out, d, t, n) ==
  /\ out[0] = t
  /\ \A k \in 1 .. n : out[k] = Replayed(d, out[k - 1], d.ops[k])

\* The text that the replay starts from.
Base(d) == IF d.snaps = Empty THEN << >> ELSE d.snaps[LatestVersion(d)]

\* The fold is that loop.
LEMMA ReplayIsLoop ==
  ASSUME NEW d, NEW n \in Nat, DOMAIN d.ops = 1 .. n
  PROVE  \E out : ReplaySteps(out, d, Base(d), n) /\ LoadText(d) = out[n]
<1> DEFINE t == Base(d)
           ops == d.ops
           Folding(it, m) ==
             it = [S \in SUBSET (1 .. m) |->
                     IF S = {} THEN t ELSE Replayed(d, it[S \ {Max(S)}], ops[Max(S)])]
<1>1. LoadText(d) = (CHOOSE it : Folding(it, n))[1 .. n]
  BY DEF LoadText, FoldLeft, MapThenFoldSet, Base
<1>2. \E it : Folding(it, 0)
  <2>1. SUBSET (1 .. 0) = {{}}
    OBVIOUS
  <2>2. Folding([S \in {{}} |-> t], 0)
    BY <2>1
  <2> QED BY <2>2
<1> HIDE DEF t
<1>3. ASSUME NEW m \in Nat, NEW it, Folding(it, m) PROVE \E new : Folding(new, m + 1)
  <2> DEFINE M == m + 1
             new == [S \in SUBSET (1 .. M) |-> IF M \in S THEN Replayed(d, it[S \ {M}], ops[M])
                                               ELSE it[S]]
  <2>1. ASSUME NEW S \in SUBSET (1 .. M)
        PROVE  new[S] = IF S = {} THEN t ELSE Replayed(d, new[S \ {Max(S)}], ops[Max(S)])
    <3>1. CASE M \in S
      <4>1. Max(S) = M
        BY <3>1, LargestIs
      <4>2. S \ {M} \in SUBSET (1 .. M) /\ M \notin S \ {M}
        OBVIOUS
      <4>3. new[S \ {M}] = it[S \ {M}]
        BY <4>2
      <4> QED BY <3>1, <4>1, <4>3
    <3>2. CASE M \notin S
      <4>1. S \in SUBSET (1 .. m) /\ S \ {Max(S)} \in SUBSET (1 .. M) /\ M \notin S \ {Max(S)}
        <5>1. \A x \in 1 .. M : x # M => x \in 1 .. m
          OBVIOUS
        <5> HIDE DEF M
        <5> QED BY <3>2, <5>1
      <4>2. new[S \ {Max(S)}] = it[S \ {Max(S)}] /\ new[S] = it[S]
        BY <3>2, <4>1
      <4> HIDE DEF new
      <4> QED BY <1>3, <4>1, <4>2
    <3> QED BY <3>1, <3>2
  <2>2. Folding(new, M)
    <3>1. new = [S \in SUBSET (1 .. M) |-> new[S]]
      OBVIOUS
    <3> HIDE DEF new
    <3> QED BY <2>1, <3>1
  <2> QED BY <2>2
<1>4. \E it : Folding(it, n)
  <2> DEFINE T == {m \in Nat : ~ \E it : Folding(it, m)}
  <2> HIDE DEF Folding
  <2> SUFFICES ASSUME n \in T PROVE FALSE
    OBVIOUS
  <2>0. T \in SUBSET Nat
    OBVIOUS
  <2>1. PICK m \in T : \A k \in T : m <= k
    <3> HIDE DEF T
    <3> QED BY <2>0, NatLeast
  <2>2. m # 0 /\ m \in Nat
    BY <1>2
  <2>3. m - 1 \in Nat /\ m - 1 \notin T /\ (m - 1) + 1 = m
    BY <2>1, <2>2
  <2> QED BY <1>3, <2>3
<1> DEFINE it == CHOOSE it : Folding(it, n)
           out == [k \in 0 .. n |-> it[1 .. k]]
<1>5. Folding(it, n)
  <2> HIDE DEF Folding
  <2> QED BY <1>4
<1> HIDE DEF it
<1>6. out[0] = t
  <2>1. 1 .. 0 = {}
    OBVIOUS
  <2> QED BY <1>5, <2>1
<1>7. ASSUME NEW k \in 1 .. n PROVE out[k] = Replayed(d, out[k - 1], d.ops[k])
  <2>1. 1 .. k \in SUBSET (1 .. n) /\ Max(1 .. k) = k /\ (1 .. k) \ {k} = 1 .. k - 1 /\ k \in 1 .. k
    BY LargestIs
  <2>2. it[1 .. k] = Replayed(d, it[1 .. k - 1], ops[k])
    BY <1>5, <2>1
  <2> QED BY <2>2
<1>8. LoadText(d) = out[n]
  BY <1>1 DEF it
<1> HIDE DEF out, ops
<1> QED BY <1>6, <1>7, <1>8 DEF ReplaySteps, t

\* The operations rows: a list, every row of a version of the history or older.
RowsOK(d) ==
  /\ \E n \in Nat : d.ops = [k \in 1 .. n |-> d.ops[k]]
  /\ \A k \in DOMAIN d.ops : d.ops[k].version \in Nat /\ d.ops[k].version <= LatestVersion(d)

\* A database whose rows all precede its latest snapshot loads that snapshot.
LEMMA NothingReplayed ==
  ASSUME NEW d, NEW n \in Nat, DOMAIN d.ops = 1 .. n,
         \A k \in 1 .. n : ~ d.ops[k].version >= LatestVersion(d)
  PROVE  LoadText(d) = Base(d)
<1>1. PICK out : ReplaySteps(out, d, Base(d), n) /\ LoadText(d) = out[n]
  BY ReplayIsLoop
<1> DEFINE T == {m \in 0 .. n : out[m] # Base(d)}
<1>2. T = {}
  <2> SUFFICES ASSUME T # {} PROVE FALSE
    OBVIOUS
  <2>0. T \in SUBSET Nat
    OBVIOUS
  <2>1. PICK m \in T : \A k \in T : m <= k
    <3> HIDE DEF T
    <3> QED BY <2>0, NatLeast
  <2>2. m # 0 /\ m \in 1 .. n
    BY <1>1, <2>1 DEF ReplaySteps
  <2>3. m - 1 \notin T /\ m - 1 \in 0 .. n
    BY <2>1, <2>2
  <2>4. out[m] = out[m - 1]
    BY <1>1, <2>2 DEF ReplaySteps, Replayed
  <2> QED BY <2>1, <2>3, <2>4
<1> QED BY <1>1, <1>2

\* The rows of an edit are replayed after the others, one after the other.
LEMMA LoggedReplayed ==
  ASSUME NEW d, NEW e, NEW n \in Nat, NEW j \in Nat, NEW ops,
         DOMAIN d.ops = 1 .. n, DOMAIN ops = 1 .. j, DOMAIN e.ops = 1 .. n + j,
         e.snaps = d.snaps,
         \A k \in 1 .. n : e.ops[k] = d.ops[k],
         \A k \in 1 .. j : e.ops[n + k] = [version |-> LatestVersion(d), op |-> ops[k]],
         LatestVersion(d) \in Nat
  PROVE  LoadText(e) = ApplyOperations(LoadText(d), ops)
<1> DEFINE t == Base(d)
           v == LatestVersion(d)
<1>0. LatestVersion(e) = v /\ Base(e) = t
  BY DEF LatestVersion, Base
<1>1. PICK old : ReplaySteps(old, d, t, n) /\ LoadText(d) = old[n]
  BY ReplayIsLoop
<1>2. PICK new : ReplaySteps(new, e, t, n + j) /\ LoadText(e) = new[n + j]
  <2>1. n + j \in Nat
    OBVIOUS
  <2> QED BY <1>0, <2>1, ReplayIsLoop
<1>3. PICK out : ApplySteps(out, LoadText(d), ops, j) /\ ApplyOperations(LoadText(d), ops) = out[j]
  <2> DEFINE u == LoadText(d)
  <2> HIDE DEF u
  <2>1. \E out : ApplySteps(out, u, ops, j) /\ ApplyOperations(u, ops) = out[j]
    BY ONLY j \in Nat, DOMAIN ops = 1 .. j, ApplyIsLoop
  <2> QED BY <2>1 DEF u
<1> HIDE DEF t, v
<1>4. \A m \in 0 .. n : new[m] = old[m]
  <2> DEFINE T == {m \in 0 .. n : new[m] # old[m]}
  <2> SUFFICES ASSUME T # {} PROVE FALSE
    OBVIOUS
  <2>0. T \in SUBSET Nat
    OBVIOUS
  <2>1. PICK m \in T : \A k \in T : m <= k
    <3> HIDE DEF T
    <3> QED BY <2>0, NatLeast
  <2>2. m # 0 /\ m \in 1 .. n
    BY <1>1, <1>2, <2>1 DEF ReplaySteps
  <2>3. m - 1 \notin T /\ m - 1 \in 0 .. n /\ m \in 1 .. n + j
    BY <2>1, <2>2
  <2>4. new[m] = Replayed(e, new[m - 1], e.ops[m]) /\ old[m] = Replayed(d, old[m - 1], d.ops[m])
    BY <1>1, <1>2, <2>2, <2>3 DEF ReplaySteps
  <2>5. new[m - 1] = old[m - 1] /\ e.ops[m] = d.ops[m]
    BY <2>2, <2>3
  <2>6. new[m] = old[m]
    BY <1>0, <2>4, <2>5 DEF Replayed, v
  <2> QED BY <2>1, <2>6
<1>5. \A m \in 0 .. j : new[n + m] = out[m]
  <2> DEFINE T == {m \in 0 .. j : new[n + m] # out[m]}
  <2> SUFFICES ASSUME T # {} PROVE FALSE
    OBVIOUS
  <2>0. T \in SUBSET Nat
    OBVIOUS
  <2>1. PICK m \in T : \A k \in T : m <= k
    <3> HIDE DEF T
    <3> QED BY <2>0, NatLeast
  <2>2. m # 0 /\ m \in 1 .. j
    <3>1. n + 0 = n /\ n \in 0 .. n
      OBVIOUS
    <3>2. new[n + 0] = out[0]
      BY <1>1, <1>3, <1>4, <3>1 DEF ApplySteps
    <3> QED BY <2>1, <3>2
  <2>3. m - 1 \notin T /\ m - 1 \in 0 .. j /\ n + m \in 1 .. n + j /\ n + m - 1 = n + (m - 1)
    BY <2>1, <2>2
  <2>4. new[n + m] = Replayed(e, new[n + (m - 1)], e.ops[n + m])
    BY <1>2, <2>3 DEF ReplaySteps
  <2>5. out[m] = ApplyOperation(out[m - 1], ops[m])
    BY <1>3, <2>2 DEF ApplySteps
  <2>6. new[n + (m - 1)] = out[m - 1]
    BY <2>3
  <2>7. e.ops[n + m] = [version |-> v, op |-> ops[m]]
    BY <2>2 DEF v
  <2>8. v \in Nat
    BY DEF v
  <2>9. new[n + m] = out[m]
    <3>1. e.ops[n + m].version = v /\ e.ops[n + m].op = ops[m]
      BY ONLY <2>7
    <3>2. v >= v
      BY <2>8
    <3>3. Replayed(e, out[m - 1], e.ops[n + m]) = ApplyOperation(out[m - 1], ops[m])
      BY ONLY <1>0, <3>1, <3>2 DEF Replayed
    <3> QED BY ONLY <2>4, <2>5, <2>6, <3>3
  <2> QED BY <2>1, <2>9
<1> QED BY <1>2, <1>3, <1>5

-----------------------------------------------------------------------------
(* What the operations work on.                                            *)

\* The carets that move_cursors computes: out[k] is p after k of the operations.
CaretSteps(out, t, ops, n) ==
  /\ out[0] = t
  /\ \A k \in 1 .. n : out[k] = TransformCursor(out[k - 1], ops[k])

\* The fold is that loop.
LEMMA CaretIsLoop ==
  ASSUME NEW t, NEW ops, NEW n \in Nat, DOMAIN ops = 1 .. n
  PROVE  \E out : CaretSteps(out, t, ops, n) /\ FoldLeft(TransformCursor, t, ops) = out[n]
<1> DEFINE Folding(it, m) ==
      it = [S \in SUBSET (1 .. m) |->
              IF S = {} THEN t ELSE TransformCursor(it[S \ {Max(S)}], ops[Max(S)])]
<1>1. FoldLeft(TransformCursor, t, ops) = (CHOOSE it : Folding(it, n))[1 .. n]
  BY DEF FoldLeft, MapThenFoldSet
<1>2. \E it : Folding(it, 0)
  <2>1. SUBSET (1 .. 0) = {{}}
    OBVIOUS
  <2>2. Folding([S \in {{}} |-> t], 0)
    BY <2>1
  <2> QED BY <2>2
<1>3. ASSUME NEW m \in Nat, NEW it, Folding(it, m) PROVE \E new : Folding(new, m + 1)
  <2> DEFINE M == m + 1
             new == [S \in SUBSET (1 .. M) |-> IF M \in S THEN TransformCursor(it[S \ {M}], ops[M])
                                               ELSE it[S]]
  <2>1. ASSUME NEW S \in SUBSET (1 .. M)
        PROVE  new[S] = IF S = {} THEN t ELSE TransformCursor(new[S \ {Max(S)}], ops[Max(S)])
    <3>1. CASE M \in S
      <4>1. Max(S) = M
        BY <3>1, LargestIs
      <4>2. S \ {M} \in SUBSET (1 .. M) /\ M \notin S \ {M}
        OBVIOUS
      <4>3. new[S \ {M}] = it[S \ {M}]
        BY <4>2
      <4> QED BY <3>1, <4>1, <4>3
    <3>2. CASE M \notin S
      <4>1. S \in SUBSET (1 .. m) /\ S \ {Max(S)} \in SUBSET (1 .. M) /\ M \notin S \ {Max(S)}
        <5>1. \A x \in 1 .. M : x # M => x \in 1 .. m
          OBVIOUS
        <5> HIDE DEF M
        <5> QED BY <3>2, <5>1
      <4>2. new[S \ {Max(S)}] = it[S \ {Max(S)}] /\ new[S] = it[S]
        BY <3>2, <4>1
      <4> HIDE DEF new
      <4> QED BY <1>3, <4>1, <4>2
    <3> QED BY <3>1, <3>2
  <2>2. Folding(new, M)
    <3>1. new = [S \in SUBSET (1 .. M) |-> new[S]]
      OBVIOUS
    <3> HIDE DEF new
    <3> QED BY <2>1, <3>1
  <2> QED BY <2>2
<1>4. \E it : Folding(it, n)
  <2> DEFINE T == {m \in Nat : ~ \E it : Folding(it, m)}
  <2> HIDE DEF Folding
  <2> SUFFICES ASSUME n \in T PROVE FALSE
    OBVIOUS
  <2>1. PICK m \in T : \A k \in T : m <= k
    BY NatLeast
  <2>2. m # 0 /\ m \in Nat
    BY <1>2
  <2>3. m - 1 \in Nat /\ m - 1 \notin T /\ (m - 1) + 1 = m
    BY <2>1, <2>2
  <2> QED BY <1>3, <2>3
<1> DEFINE it == CHOOSE it : Folding(it, n)
           out == [k \in 0 .. n |-> it[1 .. k]]
<1>5. Folding(it, n)
  <2> HIDE DEF Folding
  <2> QED BY <1>4
<1> HIDE DEF it
<1>6. out[0] = t
  <2>1. 1 .. 0 = {}
    OBVIOUS
  <2> QED BY <1>5, <2>1
<1>7. ASSUME NEW k \in 1 .. n PROVE out[k] = TransformCursor(out[k - 1], ops[k])
  <2>1. 1 .. k \in SUBSET (1 .. n) /\ Max(1 .. k) = k /\ (1 .. k) \ {k} = 1 .. k - 1 /\ k \in 1 .. k
    BY LargestIs
  <2>2. it[1 .. k] = TransformCursor(it[1 .. k - 1], ops[k])
    BY <1>5, <2>1
  <2> QED BY <2>2
<1>8. FoldLeft(TransformCursor, t, ops) = out[n]
  BY <1>1 DEF it
<1> HIDE DEF out
<1> QED BY <1>6, <1>7, <1>8 DEF CaretSteps


\* An operation of any position and length makes a text of a text.
LEMMA AppliedText ==
  ASSUME NEW Char, NEW S, NEW t \in Seq(Char), NEW op \in Operations(Char, S)
  PROVE  ApplyOperation(t, op) \in Seq(Char)
<1>1. op.position \in Nat /\ EndOf(op) \in Nat /\ op.content \in Seq(Char)
  BY DEF Operations, EndOf
<1>2. ASSUME NEW p \in Nat PROVE UpTo(t, p) \in Seq(Char) /\ From(t, p) \in Seq(Char)
  BY DEF UpTo, From, Lesser
<1> DEFINE u == UpTo(t, op.position)  v == From(t, op.position)  w == From(t, EndOf(op))  x == op.content
<1>3. u \in Seq(Char) /\ v \in Seq(Char) /\ w \in Seq(Char) /\ x \in Seq(Char)
  BY <1>1, <1>2
<1>4. ApplyOperation(t, op) = IF op.type = "insert" THEN u \o x \o v ELSE u \o w
  BY DEF ApplyOperation
<1> HIDE DEF u, v, w, x
<1>5. u \o x \in Seq(Char) /\ u \o w \in Seq(Char)
  BY <1>3
<1>6. (u \o x) \o v \in Seq(Char)
  BY <1>3, <1>5
<1> QED BY <1>4, <1>5, <1>6

\* So do several.
LEMMA AppliedTexts ==
  ASSUME NEW Char, NEW S, NEW t \in Seq(Char), NEW ops \in Seq(Operations(Char, S))
  PROVE  ApplyOperations(t, ops) \in Seq(Char)
<1> DEFINE Op == Operations(Char, S)
           n == Len(ops)
<1>0. ops \in Seq(Op)
  OBVIOUS
<1>1. n \in Nat /\ DOMAIN ops = 1 .. n /\ \A k \in 1 .. n : ops[k] \in Op
  <2> HIDE DEF Op
  <2> QED BY <1>0
<1>2. PICK out : ApplySteps(out, t, ops, n) /\ ApplyOperations(t, ops) = out[n]
  BY <1>1, ApplyIsLoop
<1> HIDE DEF n
<1>3. ASSUME NEW k \in 1 .. n, out[k - 1] \in Seq(Char) PROVE out[k] \in Seq(Char)
  <2>1. out[k] = ApplyOperation(out[k - 1], ops[k]) /\ ops[k] \in Operations(Char, S)
    BY <1>1, <1>2 DEF ApplySteps
  <2> QED BY <1>3, <2>1, AppliedText
<1>4. out[n] \in Seq(Char)
  <2> DEFINE U == {k \in 0 .. n : out[k] \notin Seq(Char)}
  <2> SUFFICES ASSUME n \in U PROVE FALSE
    BY <1>1
  <2>1. PICK m \in U : \A k \in U : m <= k
    <3>1. U \in SUBSET Nat
      OBVIOUS
    <3> HIDE DEF U
    <3> QED BY <3>1, NatLeast
  <2>2. m # 0
    BY <1>2 DEF ApplySteps
  <2>3. m \in 1 .. n /\ m - 1 \in 0 .. n /\ m - 1 \notin U
    BY <1>1, <2>1, <2>2
  <2> QED BY <1>3, <2>3
<1> QED BY <1>2, <1>4

\* And the replay of the operations rows.
LEMMA ReplayedText ==
  ASSUME NEW Char, NEW S, NEW d, NEW n \in Nat, DOMAIN d.ops = 1 .. n,
         \A k \in 1 .. n : d.ops[k].op \in Operations(Char, S), Base(d) \in Seq(Char)
  PROVE  LoadText(d) \in Seq(Char)
<1>2. PICK out : ReplaySteps(out, d, Base(d), n) /\ LoadText(d) = out[n]
  BY ReplayIsLoop
<1>3. ASSUME NEW k \in 1 .. n, out[k - 1] \in Seq(Char) PROVE out[k] \in Seq(Char)
  <2>1. out[k] = Replayed(d, out[k - 1], d.ops[k])
    BY <1>2 DEF ReplaySteps
  <2>2. ApplyOperation(out[k - 1], d.ops[k].op) \in Seq(Char)
    BY <1>3, AppliedText
  <2> QED BY <1>3, <2>1, <2>2 DEF Replayed
<1>4. out[n] \in Seq(Char)
  <2> DEFINE U == {k \in 0 .. n : out[k] \notin Seq(Char)}
  <2> SUFFICES ASSUME n \in U PROVE FALSE
    OBVIOUS
  <2>1. PICK m \in U : \A k \in U : m <= k
    <3>1. U \in SUBSET Nat
      OBVIOUS
    <3> HIDE DEF U
    <3> QED BY <3>1, NatLeast
  <2>2. m # 0
    BY <1>2 DEF ReplaySteps
  <2>3. m \in 1 .. n /\ m - 1 \in 0 .. n /\ m - 1 \notin U
    BY <2>1, <2>2
  <2> QED BY <1>3, <2>3
<1> QED BY <1>2, <1>4

\* A caret is a position wherever the operations are.
LEMMA MovedCaret ==
  ASSUME NEW Char, NEW S, NEW p \in Nat, NEW ops \in Seq(Operations(Char, S))
  PROVE  FoldLeft(TransformCursor, p, ops) \in Nat
<1> DEFINE Op == Operations(Char, S)
           n == Len(ops)
<1>0. ops \in Seq(Op)
  OBVIOUS
<1>1. n \in Nat /\ DOMAIN ops = 1 .. n /\ \A k \in 1 .. n : ops[k] \in Op
  <2> HIDE DEF Op
  <2> QED BY <1>0
<1>2. PICK out : CaretSteps(out, p, ops, n) /\ FoldLeft(TransformCursor, p, ops) = out[n]
  BY <1>1, CaretIsLoop
<1> HIDE DEF n
<1>3. ASSUME NEW k \in 1 .. n, out[k - 1] \in Nat PROVE out[k] \in Nat
  <2> DEFINE q == out[k - 1]  op == ops[k]
  <2>1. out[k] = TransformCursor(q, op)
    BY <1>2 DEF CaretSteps
  <2>0. op \in Operations(Char, S)
    BY <1>1
  <2> HIDE DEF q, op
  <2>2. op.position \in Nat /\ op.length \in Nat /\ Len(op.content) \in Nat
    BY <2>0 DEF Operations
  <2>3. TransformCursor(q, op) = IF op.type = "insert" THEN IF q >= op.position THEN q + Len(op.content) ELSE q
                                 ELSE IF q >= op.position + op.length THEN q - op.length
                                 ELSE IF q <= op.position THEN q ELSE op.position
    BY DEF TransformCursor, EndOf, Lesser
  <2>4. q \in Nat
    BY <1>3 DEF q
  <2>5. TransformCursor(q, op) \in Nat
    BY ONLY <2>2, <2>3, <2>4
  <2> QED BY <2>1, <2>5
<1>4. out[n] \in Nat
  <2> DEFINE U == {k \in 0 .. n : out[k] \notin Nat}
  <2> SUFFICES ASSUME n \in U PROVE FALSE
    BY <1>1
  <2>1. PICK m \in U : \A k \in U : m <= k
    <3>1. U \in SUBSET Nat
      OBVIOUS
    <3> HIDE DEF U
    <3> QED BY <3>1, NatLeast
  <2>2. m # 0
    BY <1>2 DEF CaretSteps
  <2>3. m \in 1 .. n /\ m - 1 \in 0 .. n /\ m - 1 \notin U
    BY <1>1, <2>1, <2>2
  <2> QED BY <1>3, <2>3
<1> QED BY <1>2, <1>4

-----------------------------------------------------------------------------
(* What a transformed operation is.                                        *)

\* What a client can ask for: it inserts something or deletes something.
Made == {op \in Ops : IF op.type = "insert" THEN op.content # << >> ELSE op.length >= 1}

\* Such an operation, field by field.
LEMMA MadeIs ==
  ASSUME NEW op \in Made
  PROVE  /\ op \in Operations(Nat, Users) /\ op.type \in {"insert", "delete"}
         /\ op.position \in Nat /\ op.length \in Nat /\ op.content \in Seq(Nat) /\ op.site \in Users
         /\ op.type = "insert" => op.content # << >>
         /\ op.type = "delete" => op.length >= 1
BY DEF Made, Ops, Operations

\* Pieces of a text are pieces of a longer one.
LEMMA PiecesOfLonger ==
  ASSUME NEW ops, NEW n, NEW m \in Nat, NEW k \in Nat, m <= k, Pieces(ops, n, m)
  PROVE  Pieces(ops, n, k)
<1>1. \A i \in 1 .. n : IsPiece(ops[i], m) => IsPiece(ops[i], k)
  BY DEF IsPiece
<1> QED BY <1>1 DEF Pieces

\* Every operation fits a text that is long enough.
LEMMA FitsSome ==
  ASSUME NEW a \in Made, NEW m \in Nat
  PROVE  \E k \in Nat : m <= k /\ Fits(a, k)
<1>1. /\ a.type \in {"insert", "delete"} /\ a.position \in Nat /\ a.length \in Nat /\ Len(a.content) \in Nat
      /\ a.type = "delete" => a.length >= 1
  BY MadeIs
<1> DEFINE k == m + (a.position + a.length)
<1>2. k \in Nat /\ m <= k /\ a.position <= k /\ EndOf(a) \in Nat /\ EndOf(a) <= k
  <2>1. \A p, l \in Nat : m + (p + l) \in Nat /\ m <= m + (p + l) /\ p <= m + (p + l) /\ p + l <= m + (p + l)
    OBVIOUS
  <2>2. EndOf(a) = a.position + a.length
    BY DEF EndOf
  <2> QED BY <1>1, <2>1, <2>2
<1>3. Fits(a, k)
  BY <1>1, <1>2 DEF Fits, IsPiece
<1> QED BY <1>2, <1>3

\* An insertion through a round.
LEMMA InsertRound ==
  ASSUME NEW a \in Made, NEW b \in Made, b.type = "insert", NEW p \in Nat
  PROVE  \E q \in Nat : TransformRound(<< [b EXCEPT !.position = p] >>, a) = << [b EXCEPT !.position = q] >>
<1> DEFINE x == [b EXCEPT !.position = p]
           q == InsertPosition(a, x)
<1>1. b \in Operations(Nat, Users) /\ a \in Operations(Nat, Users)
  BY MadeIs
<1>2. x \in Operations(Nat, Users) /\ x.type = "insert" /\ x.position = p /\ x.site = b.site
  BY <1>1 DEF Operations
<1>3. TransformRound(<< x >>, a) = << TransformInsert(a, x) >>
  <2> HIDE DEF x
  <2> QED BY <1>1, <1>2, RoundOfInsert
<1>4. TransformInsert(a, x) = [b EXCEPT !.position = q]
  BY <1>1 DEF TransformInsert, Operations
<1>5. q \in Nat
  <2> HIDE DEF x
  <2>1. a.position \in Nat /\ a.length \in Nat /\ Len(a.content) \in Nat /\ x.position \in Nat
    BY <1>2, MadeIs
  <2>2. InsertPosition(a, x) = IF a.type = "insert"
                               THEN IF x.position > a.position \/ (x.position = a.position /\ a.site <= x.site)
                                    THEN x.position + Len(a.content) ELSE x.position
                               ELSE IF x.position >= a.position + a.length THEN x.position - a.length
                               ELSE IF x.position <= a.position THEN x.position ELSE a.position
    BY DEF InsertPosition, EndOf, Lesser
  <2> QED BY ONLY <2>1, <2>2
<1> HIDE DEF q, x
<1> QED BY <1>3, <1>4, <1>5 DEF x

\* A deletion through a round.
LEMMA DeleteRound ==
  ASSUME NEW a \in Made, NEW ops \in Seq(Ops), NEW m \in Nat, Pieces(ops, Len(ops), m)
  PROVE  /\ TransformRound(ops, a) \in Seq(Ops)
         /\ \E k \in Nat : Pieces(TransformRound(ops, a), Len(TransformRound(ops, a)), k)
<1>1. PICK k \in Nat : m <= k /\ Fits(a, k)
  BY FitsSome
<1> DEFINE v == TransformRound(ops, a)  n == Len(ops)  l == NewLength(a, k)
<1>2. Pieces(ops, Len(ops), k)
  <2>1. Pieces(ops, n, m)
    OBVIOUS
  <2> HIDE DEF n
  <2>2. Pieces(ops, n, k)
    BY <1>1, <2>1, PiecesOfLonger
  <2> QED BY <2>2 DEF n
<1>3. a \in Operations(Nat, Users) /\ ops \in Seq(Operations(Nat, Users)) /\ v = TransformRound(ops, a)
  BY MadeIs DEF Ops
<1>4. v \in Seq(Operations(Nat, Users)) /\ Pieces(v, Len(v), l)
  <2> HIDE DEF v
  <2> QED BY ONLY <1>1, <1>2, <1>3, RoundOfPieces, k \in Nat DEF l
<1>5. l \in Nat
  <2>1. /\ a.type \in {"insert", "delete"} /\ a.position \in Nat /\ a.length \in Nat /\ Len(a.content) \in Nat
        /\ a.type = "delete" => EndOf(a) <= k
    BY <1>1, MadeIs DEF Fits, IsPiece
  <2> QED BY <2>1 DEF NewLength, EndOf
<1> HIDE DEF v, l
<1> QED BY <1>4, <1>5 DEF v, Ops

\* transform_operations makes of an insertion the same insertion at another
\* place, and of a deletion several, none or more.
LEMMA TransformedMade ==
  ASSUME NEW b \in Made, NEW applied \in Seq(Made)
  PROVE  /\ TransformOperations(b, applied) \in Seq(Made)
         /\ b.type = "insert" => \E p \in Nat : TransformOperations(b, applied) = << [b EXCEPT !.position = p] >>
         /\ b.type = "delete" => \A k \in DOMAIN TransformOperations(b, applied) :
                                    TransformOperations(b, applied)[k].type = "delete"
<1> DEFINE n == Len(applied)
           v == TransformOperations(b, applied)
<1>0. b \in Ops /\ b.type \in {"insert", "delete"} /\ b.position \in Nat
  BY MadeIs DEF Ops
<1>1. n \in Nat /\ DOMAIN applied = 1 .. n /\ \A k \in 1 .. n : applied[k] \in Made
  <2> HIDE DEF Made
  <2> QED OBVIOUS
<1>2. PICK out : RoundSteps(out, b, applied, n) /\ v = out[n]
  BY <1>1, RoundIsLoop
<1> HIDE DEF n, v, Made
<1>3. CASE b.type = "insert"
  <2> DEFINE At(s) == \E p \in Nat : s = << [b EXCEPT !.position = p] >>
  <2>1. At(out[0])
    <3>1. b = [b EXCEPT !.position = b.position]
      BY <1>0 DEF Ops, Operations
    <3>2. out[0] = << b >>
      BY <1>2 DEF RoundSteps
    <3> QED BY <1>0, <3>1, <3>2
  <2>2. ASSUME NEW k \in 1 .. n, At(out[k - 1]) PROVE At(out[k])
    <3>1. out[k] = TransformRound(out[k - 1], applied[k]) /\ applied[k] \in Made
      BY <1>1, <1>2 DEF RoundSteps
    <3>2. PICK p \in Nat : out[k - 1] = << [b EXCEPT !.position = p] >>
      BY <2>2
    <3> DEFINE a == applied[k]
    <3>3. a \in Made
      BY <3>1
    <3> HIDE DEF a
    <3>4. \E q \in Nat : TransformRound(<< [b EXCEPT !.position = p] >>, a) = << [b EXCEPT !.position = q] >>
      BY <1>3, <3>3, InsertRound
    <3> QED BY <3>1, <3>2, <3>4 DEF a
  <2> HIDE DEF At
  <2>3. At(out[n])
    <3> DEFINE U == {k \in 0 .. n : ~ At(out[k])}
    <3> SUFFICES ASSUME n \in U PROVE FALSE
      BY <1>1
    <3>1. PICK m \in U : \A k \in U : m <= k
      <4>1. U \in SUBSET Nat
        OBVIOUS
      <4> HIDE DEF U
      <4> QED BY <4>1, NatLeast
    <3>2. m \in 1 .. n /\ m - 1 \in 0 .. n /\ m - 1 \notin U
      BY <1>1, <2>1, <3>1
    <3> QED BY <2>2, <3>2
  <2>4. PICK p \in Nat : v = << [b EXCEPT !.position = p] >>
    BY <1>2, <2>3 DEF At
  <2>5. [b EXCEPT !.position = p] \in Made
    <3>1. [b EXCEPT !.position = p] \in Ops
      BY <1>0 DEF Ops, Operations
    <3>2. [b EXCEPT !.position = p].type = "insert" /\ [b EXCEPT !.position = p].content = b.content
      BY <1>0, <1>3 DEF Ops, Operations
    <3>3. b.content # << >>
      BY <1>3, MadeIs
    <3> QED BY <3>1, <3>2, <3>3 DEF Made
  <2>6. v \in Seq(Made)
    BY <2>4, <2>5
  <2> QED BY <1>3, <2>4, <2>6 DEF v
<1>4. CASE b.type = "delete"
  <2> DEFINE Cuts(s) == s \in Seq(Ops) /\ \E m \in Nat : Pieces(s, Len(s), m)
  <2>1. Cuts(out[0])
    <3>1. out[0] = << b >>
      BY <1>2 DEF RoundSteps
    <3>2. b.length \in Nat /\ b.length >= 1 /\ EndOf(b) \in Nat
      BY <1>4, MadeIs DEF EndOf
    <3>3. IsPiece(b, EndOf(b))
      BY <1>0, <1>4, <3>2 DEF IsPiece
    <3>4. Len(<< b >>) = 1 /\ Pieces(<< b >>, 1, EndOf(b))
      BY <3>2, <3>3, OnePiece
    <3>5. << b >> \in Seq(Ops)
      BY <1>0
    <3> QED BY <3>1, <3>2, <3>4, <3>5
  <2>2. ASSUME NEW k \in 1 .. n, Cuts(out[k - 1]) PROVE Cuts(out[k])
    <3>1. out[k] = TransformRound(out[k - 1], applied[k]) /\ applied[k] \in Made
      BY <1>1, <1>2 DEF RoundSteps
    <3> QED BY <2>2, <3>1, DeleteRound
  <2> HIDE DEF Cuts
  <2>3. Cuts(out[n])
    <3> DEFINE U == {k \in 0 .. n : ~ Cuts(out[k])}
    <3> SUFFICES ASSUME n \in U PROVE FALSE
      BY <1>1
    <3>1. PICK m \in U : \A k \in U : m <= k
      <4>1. U \in SUBSET Nat
        OBVIOUS
      <4> HIDE DEF U
      <4> QED BY <4>1, NatLeast
    <3>2. m \in 1 .. n /\ m - 1 \in 0 .. n /\ m - 1 \notin U
      BY <1>1, <2>1, <3>1
    <3> QED BY <2>2, <3>2
  <2>4. v \in Seq(Ops) /\ \E m \in Nat : Pieces(v, Len(v), m)
    BY <1>2, <2>3 DEF Cuts
  <2> HIDE DEF v
  <2>5. \A k \in 1 .. Len(v) : v[k] \in Ops
    <3> HIDE DEF Ops
    <3> QED BY <2>4
  <2>6. \A k \in 1 .. Len(v) : v[k].type = "delete" /\ v[k].length >= 1
    BY <2>4 DEF Pieces, IsPiece
  <2>7. \A k \in 1 .. Len(v) : v[k] \in Made
    BY <2>5, <2>6 DEF Made
  <2>8. Len(v) \in Nat /\ v = [k \in 1 .. Len(v) |-> v[k]] /\ DOMAIN v = 1 .. Len(v)
    <3> HIDE DEF Ops
    <3> QED BY <2>4
  <2>9. v \in Seq(Made)
    BY <2>7, <2>8
  <2> QED BY <1>4, <2>6, <2>8, <2>9 DEF v
<1> QED BY <1>0, <1>3, <1>4

-----------------------------------------------------------------------------
(* The type invariant: data, and what each part of it needs.               *)

\* The values that travel.
Requests ==
  [type : {"join", "save", "create"}] \cup [type : {"cursor"}, position : Nat]
    \cup [type : {"restore"}, version : Nat] \cup [type : {"edit"}, op : Made, rev : Nat, seen : Texts]

Messages ==
  [type : {"error"}] \cup [type : {"doc_state"}, text : Texts, rev : Nat]
    \cup [type : {"ack"}, ops : Seq(Made), rev : Nat] \cup [type : {"remote_op"}, op : Made, rev : Nat]

Instructions ==
  [do : {"reply"}, msg : Messages \cup {Note}]
    \cup [do : {"broadcast"}, to : SUBSET Conns, msg : Messages \cup {Note}]
    \cup [do : {"tell"}, skip : SUBSET Users]
    \cup [do : {"op"}, op : Made, doc : {"live", "old"}, rev : Nat]
    \cup [do : {"autosnap"}, doc : {"live", "old"}, pending : Nat]
    \cup [do : {"unload"}, session : {"live", "empty", "busy"}]

Documents == [text : Texts, version : Nat, pending : Nat, log : Seq(Made)]
Permissions == {"owner", "editor", "viewer"}
Entries == [ws : Conns, cursor : Nat, role : Permissions]
Rows == [version : Nat, op : Ops]
Clients == [text : Texts \cup {NoText}, rev : Nat, seen : Nat, waiting : BOOLEAN]

MemoryTypes == up \in BOOLEAN /\ loop \in Conns \cup {Free} /\ doc \in Documents \cup {NotLoaded}

SessionTypes ==
  /\ DOMAIN session \subseteq Users /\ \A u \in DOMAIN session : session[u] \in Entries
  /\ DOMAIN presence \subseteq Users /\ \A u \in DOMAIN presence : presence[u] \in Nat

RowTypes(d) ==
  /\ \A v \in DOMAIN d.snaps : d.snaps[v] \in Texts
  /\ d.ops \in Seq(Rows)
  /\ DOMAIN d.collab \subseteq Users /\ \A u \in DOMAIN d.collab : d.collab[u] \in Permissions

QueueTypes ==
  req \in [Conns -> Seq(Requests)] /\ inbox \in [Conns -> Seq(Messages)] /\ todo \in [Conns -> Seq(Instructions)]

ClientTypes == client \in [Conns -> Clients]

CounterTypes ==
  used \in [edits : Nat, saves : Nat, restores : Nat, cursors : Nat, closes : Nat, crashes : Nat, total : Nat]

\* What a handler will read from the document it works on is there, and the
\* check for an empty session is the last thing that a handler does.
Detachable ==
  \A c \in Conns : \A k \in DOMAIN todo[c] :
    LET i == todo[c][k]
    IN  /\ i.do \in {"op", "autosnap"} /\ i.doc = "live" => doc \in Documents
        /\ i.do = "unload" => k = Len(todo[c])

\* The client of c has a text or will have one before anything else reaches it;
\* handle_join is about to send it.
Greeting(m) == m.type = "doc_state"
Welcome(c) == client[c].text \in Texts \/ \E j \in DOMAIN inbox[c] : Greeting(inbox[c][j])
Joining(c) == loop = c /\ todo[c] # << >> /\ Head(todo[c]).do = "reply" /\ Greeting(Head(todo[c]).msg)

\* A message that a client without a text could not handle.
NeedsText(m) == m.type \in {"ack", "remote_op"}

InboxReadable(c) ==
  \A k \in DOMAIN inbox[c] : NeedsText(inbox[c][k]) =>
    client[c].text \in Texts \/ \E j \in DOMAIN inbox[c] : j < k /\ Greeting(inbox[c][j])
Asked(c) ==
  /\ \A k \in DOMAIN req[c] : req[c][k].type = "edit" => client[c].text \in Texts
  /\ \A k \in DOMAIN todo[c] :
       todo[c][k].do = "reply" /\ NeedsText(todo[c][k].msg) => client[c].text \in Texts
Listed(c) == \E d \in Conns : \E k \in DOMAIN todo[d] : todo[d][k].do = "broadcast" /\ c \in todo[d][k].to

Greeted ==
  \A c \in Conns :
    /\ link[c] # "open" => inbox[c] = << >>
    /\ link[c] = "new" => req[c] = << >> /\ todo[c] = << >> /\ ~ Listed(c)
    /\ link[c] = "open" =>
         /\ InboxReadable(c) /\ Asked(c)
         /\ Listed(c) => Welcome(c)
         /\ InSession(c) => Welcome(c) \/ Joining(c)

-----------------------------------------------------------------------------
(* What the parts of a step are.                                           *)

\* The instructions that handlers schedule.
LEMMA InstructionsAre ==
  /\ \A m \in Messages \cup {Note} : Reply(m) \in Instructions
  /\ \A to \in SUBSET Conns, m \in Messages \cup {Note} : Broadcast(to, m) \in Instructions
  /\ \A u \in Users : TellOthers(u) \in Instructions
  /\ TellAll \in Instructions /\ AutoSnapshot \in Instructions /\ Unload \in Instructions
  /\ \A op \in Made : SendOp(op) \in Instructions
<1> HIDE DEF Made, Messages, Note
<1>1. \A m \in Messages \cup {Note} : Reply(m) \in Instructions
  BY DEF Reply, Instructions
<1>2. \A to \in SUBSET Conns, m \in Messages \cup {Note} : Broadcast(to, m) \in Instructions
  BY DEF Broadcast, Instructions
<1>3. TellAll \in Instructions /\ AutoSnapshot \in Instructions /\ Unload \in Instructions
  BY DEF TellAll, AutoSnapshot, Unload, Instructions
<1>4. \A u \in Users : TellOthers(u) \in Instructions
  BY DEF TellOthers, Instructions
<1>5. \A op \in Made : SendOp(op) \in Instructions
  BY DEF SendOp, Instructions
<1> QED BY <1>1, <1>2, <1>3, <1>4, <1>5

\* The messages that handlers send.
LEMMA MessagesAre ==
  /\ Error \in Messages /\ Note \notin Messages
  /\ \A t \in Texts, n \in Nat : DocState(t, n) \in Messages
  /\ \A ops \in Seq(Made), n \in Nat : Ack(ops, n) \in Messages
  /\ \A op \in Made, n \in Nat : RemoteOp(op, n) \in Messages
<1>1. Error \in Messages /\ Note \notin Messages
  BY DEF Error, Note, Messages
<1>2. \A t \in Texts, n \in Nat : DocState(t, n) \in Messages
  BY DEF DocState, Messages
<1>3. \A ops \in Seq(Made), n \in Nat : Ack(ops, n) \in Messages
  BY DEF Ack, Messages
<1>4. \A op \in Made, n \in Nat : RemoteOp(op, n) \in Messages
  BY DEF RemoteOp, Messages
<1> QED BY <1>1, <1>2, <1>3, <1>4

\* Reading a request, an instruction or a message by its kind.
LEMMA RequestIs ==
  ASSUME NEW m \in Requests
  PROVE  /\ m.type = "edit" => m.op \in Made /\ m.rev \in Nat /\ m.seen \in Texts
         /\ m.type = "cursor" => m.position \in Nat
         /\ m.type = "restore" => m.version \in Nat
BY DEF Requests

\* What an instruction carries, by its kind.
LEMMA InstructionIs ==
  ASSUME NEW i \in Instructions
  PROVE  /\ i.do = "reply" => i.msg \in Messages \cup {Note}
         /\ i.do = "broadcast" => i = [do |-> "broadcast", to |-> i.to, msg |-> i.msg] /\ i.to \in SUBSET Conns /\ i.msg \in Messages \cup {Note}
         /\ i.do = "tell" => i.skip \in SUBSET Users
         /\ i.do = "op" => i = [do |-> "op", op |-> i.op, doc |-> i.doc, rev |-> i.rev] /\ i.op \in Made /\ i.doc \in {"live", "old"} /\ i.rev \in Nat
         /\ i.do = "autosnap" => i = [do |-> "autosnap", doc |-> i.doc, pending |-> i.pending] /\ i.doc \in {"live", "old"} /\ i.pending \in Nat
         /\ i.do = "unload" => i = [do |-> "unload", session |-> i.session] /\ i.session \in {"live", "empty", "busy"}
BY DEF Instructions

\* What a message carries, by its type.
LEMMA MessageIs ==
  ASSUME NEW m \in Messages
  PROVE  /\ m.type \in {"error", "doc_state", "ack", "remote_op"}
         /\ m.type = "doc_state" => m.text \in Texts /\ m.rev \in Nat
         /\ m.type = "ack" => m.ops \in Seq(Made) /\ m.rev \in Nat
         /\ m.type = "remote_op" => m.op \in Made /\ m.rev \in Nat
BY DEF Messages

\* The operations of a list, as operations of any kind.
LEMMA MadeAreOps ==
  ASSUME NEW ops \in Seq(Made)
  PROVE  ops \in Seq(Operations(Nat, Users)) /\ ops \in Seq(Ops) /\ \A k \in DOMAIN ops : ops[k] \in Made
<1>1. Made \subseteq Ops
  BY DEF Made
<1> HIDE DEF Made
<1>2. ops \in Seq(Ops)
  BY <1>1
<1> QED BY <1>2 DEF Ops

\* A part of the log.
LEMMA PartOfList ==
  ASSUME NEW S, NEW s \in Seq(S), NEW m \in Nat
  PROVE  SubSeq(s, m + 1, Len(s)) \in Seq(S) /\ (m <= Len(s) => SubSeq(s, 1, m) \in Seq(S))
OBVIOUS

\* What the server makes of an edit are operations of the same kind.
LEMMA AppliedMade ==
  ASSUME doc \in Documents, NEW m, m.op \in Made, m.rev \in Nat
  PROVE  /\ Applied(m) \in Seq(Made)
         /\ m.op.type = "insert" => \E p \in Nat : Applied(m) = << [m.op EXCEPT !.position = p] >>
         /\ m.op.type = "delete" => \A k \in DOMAIN Applied(m) : Applied(m)[k].type = "delete"
<1> DEFINE log == doc.log  since == Lesser(m.rev, Len(log))  part == SubSeq(log, since + 1, Len(log))  b == m.op
<1>1. log \in Seq(Made)
  BY DEF Documents
<1>2. since \in Nat
  <2> HIDE DEF log
  <2>1. Len(log) \in Nat
    BY <1>1
  <2> QED BY <2>1 DEF Lesser
<1>3. part \in Seq(Made)
  <2> HIDE DEF log, since
  <2> QED BY <1>1, <1>2, PartOfList
<1>4. b \in Made /\ Applied(m) = TransformOperations(b, part)
  BY DEF Applied
<1> HIDE DEF b, part
<1>5. /\ TransformOperations(b, part) \in Seq(Made)
      /\ b.type = "insert" => \E p \in Nat : TransformOperations(b, part) = << [b EXCEPT !.position = p] >>
      /\ b.type = "delete" => \A k \in DOMAIN TransformOperations(b, part) :
                                 TransformOperations(b, part)[k].type = "delete"
  BY <1>3, <1>4, TransformedMade
<1> QED BY <1>4, <1>5 DEF b

\* The loaded document.
LEMMA LoadedTyped ==
  ASSUME MemoryTypes, RowTypes(db), HistoryOK(db)
  PROVE  LoadDocument \in Documents /\ \A v \in DOMAIN db.snaps : Restored(v) \in Documents
<1>1. LatestVersion(db) \in Nat
  BY LatestIsGreatest DEF HistoryOK
<1>2. Base(db) \in Seq(Nat)
  <2>1. CASE db.snaps = Empty
    <3>1. << >> \in Seq(Nat)
      OBVIOUS
    <3> QED BY <2>1, <3>1 DEF Base
  <2>2. CASE db.snaps # Empty
    <3>1. DOMAIN db.snaps # {}
      BY <2>2 DEF HistoryOK, Numbered, Empty
    <3>2. LatestVersion(db) \in DOMAIN db.snaps
      BY <3>1, LatestIsGreatest DEF HistoryOK
    <3> QED BY <2>2, <3>2 DEF Base, RowTypes, Texts
  <2> QED BY <2>1, <2>2
<1>3. LoadText(db) \in Seq(Nat)
  <2> DEFINE n == Len(db.ops)
  <2>1. n \in Nat /\ DOMAIN db.ops = 1 .. n /\ \A k \in 1 .. n : db.ops[k] \in Rows
    BY DEF RowTypes
  <2>2. \A k \in 1 .. n : db.ops[k].op \in Operations(Nat, Users)
    BY <2>1 DEF Rows, Ops
  <2> HIDE DEF n
  <2> QED BY <1>2, <2>1, <2>2, ReplayedText
<1>4. LoadDocument \in Documents
  <2>1. << >> \in Seq(Made)
    OBVIOUS
  <2> QED BY <1>1, <1>3, <2>1 DEF LoadDocument, Loaded, MemoryTypes, Documents, Texts
<1>5. ASSUME NEW v \in DOMAIN db.snaps PROVE Restored(v) \in Documents
  <2>1. Restored(v) = [LoadDocument EXCEPT !.text = db.snaps[v], !.pending = 0, !.log = << >>]
    BY DEF Restored
  <2>2. db.snaps[v] \in Texts /\ << >> \in Seq(Made)
    BY <1>5 DEF RowTypes
  <2> DEFINE m == LoadDocument  t == db.snaps[v]  l == << >>
  <2>3. m \in Documents /\ t \in Texts /\ l \in Seq(Made) /\ Restored(v) = [m EXCEPT !.text = t, !.pending = 0, !.log = l]
    BY <1>4, <2>1, <2>2
  <2> HIDE DEF m, t, l
  <2>4. m = [text |-> m.text, version |-> m.version, pending |-> m.pending, log |-> m.log] /\ m.version \in Nat
    BY <2>3 DEF Documents
  <2>5. Restored(v) = [text |-> t, version |-> m.version, pending |-> 0, log |-> l]
    BY <2>3, <2>4
  <2> QED BY <2>3, <2>4, <2>5 DEF Documents
<1> QED BY <1>4, <1>5

\* The invariant: the registry, the versions and the types of everything else.
Types ==
  /\ Registry /\ Versions /\ MemoryTypes /\ SessionTypes /\ RowTypes(db) /\ QueueTypes /\ ClientTypes
  /\ CounterTypes /\ Detachable /\ Greeted

\* The parts of the databases that create_snapshot leaves.
SnapshotOf(e, d, m) ==
  /\ e.row = d.row /\ e.collab = d.collab /\ e.ops = d.ops
  /\ e.snaps = Bind(d.snaps, m.version + 1, m.text)

\* create_snapshot's last commit, field by field.
LEMMA SnapshotFields ==
  ASSUME NEW d, NEW m, DbShape(d)
  PROVE  LET s == SnapshotCommits(d, m)
         IN  Len(s) = 2 /\ Last(s) = s[2] /\ SnapshotOf(s[1], d, m) /\ SnapshotOf(s[2], d, m)
<1> DEFINE next == m.version + 1
           newer == Bind(d.snaps, next, m.text)
           e == [d EXCEPT !.snaps = newer]
           f == [e EXCEPT !.current = next]
<1>1. SnapshotCommits(d, m) = << e, f >>
  BY DEF SnapshotCommits
<1>2. d = [row |-> d.row, collab |-> d.collab, snaps |-> d.snaps, ops |-> d.ops, current |-> d.current]
  BY DEF DbShape
<1> HIDE DEF next, newer
<1>3. e = [row |-> d.row, collab |-> d.collab, snaps |-> newer, ops |-> d.ops, current |-> d.current]
  BY <1>2
<1>4. f = [row |-> d.row, collab |-> d.collab, snaps |-> newer, ops |-> d.ops, current |-> next]
  <2>1. f = [e EXCEPT !.current = next]
    OBVIOUS
  <2> HIDE DEF e, f
  <2> QED BY <1>3, <2>1
<1>5. \A g \in {e, f} : g.row = d.row /\ g.collab = d.collab /\ g.ops = d.ops /\ g.snaps = newer
  BY <1>3, <1>4
<1> HIDE DEF e, f
<1>6. Last(<< e, f >>) = f /\ Len(<< e, f >>) = 2 /\ << e, f >>[1] = e /\ << e, f >>[2] = f
  BY DEF Last
<1> QED BY <1>1, <1>5, <1>6 DEF SnapshotOf, newer, next

\* A snapshot of a text keeps the types.
LEMMA SnapshotTypes ==
  ASSUME NEW d, NEW e, NEW m \in Documents, RowTypes(d), SnapshotOf(e, d, m)
  PROVE  RowTypes(e)
<1>1. m.text \in Texts
  BY DEF Documents
<1>2. \A v \in DOMAIN e.snaps : e.snaps[v] \in Texts
  BY <1>1 DEF SnapshotOf, Bind, RowTypes
<1> QED BY <1>2 DEF SnapshotOf, RowTypes

\* What create_snapshot does to memory and database.
LEMMA CreateSnapshotTypes ==
  ASSUME NEW m \in Documents, RowTypes(db), HistoryOK(db), CreateSnapshot(m)
  PROVE  doc' \in Documents /\ RowTypes(db') /\ SnapshotOf(db', db, m) /\ doc' = Snapshotted(m)
<1>1. doc' = Snapshotted(m) /\ db' = Last(SnapshotCommits(db, m))
  BY DEF CreateSnapshot
<1>2. SnapshotOf(db', db, m)
  BY <1>1, SnapshotFields DEF HistoryOK
<1>3. doc' \in Documents
  <2>1. doc' = [m EXCEPT !.version = @ + 1, !.pending = 0]
    BY <1>1 DEF Snapshotted
  <2>2. m.version + 1 \in Nat
    BY DEF Documents
  <2>3. m = [text |-> m.text, version |-> m.version, pending |-> m.pending, log |-> m.log]
    BY DEF Documents
  <2>4. doc' = [text |-> m.text, version |-> m.version + 1, pending |-> 0, log |-> m.log]
    BY <2>1, <2>3
  <2> QED BY <2>2, <2>4 DEF Documents
<1> QED BY <1>1, <1>2, <1>3, SnapshotTypes

\* The rows of an edit have the types.
LEMMA LoggedTypes ==
  ASSUME NEW d, RowTypes(d), DbShape(d), NEW v \in Nat, NEW ops \in Seq(Ops)
  PROVE  /\ RowTypes(Logged(d, v, ops))
         /\ Logged(d, v, ops).snaps = d.snaps /\ Logged(d, v, ops).collab = d.collab /\ Logged(d, v, ops).row = d.row
         /\ Logged(d, v, ops).ops = d.ops \o [k \in DOMAIN ops |-> [version |-> v, op |-> ops[k]]]
<1> DEFINE new == [k \in DOMAIN ops |-> [version |-> v, op |-> ops[k]]]
           rows == d.ops \o new
           e == Logged(d, v, ops)
<1>1. d = [row |-> d.row, collab |-> d.collab, snaps |-> d.snaps, ops |-> d.ops, current |-> d.current]
  BY DEF DbShape
<1>2. e = [d EXCEPT !.ops = rows]
  BY DEF Logged
<1>3. rows \in Seq(Rows)
  <2>1. new \in Seq(Rows)
    <3>1. \A k \in DOMAIN ops : ops[k] \in Ops
      <4> HIDE DEF Ops
      <4> QED OBVIOUS
    <3>2. \A k \in DOMAIN ops : [version |-> v, op |-> ops[k]] \in Rows
      BY <3>1 DEF Rows
    <3>3. DOMAIN ops = 1 .. Len(ops) /\ Len(ops) \in Nat
      OBVIOUS
    <3> HIDE DEF Rows
    <3> QED BY <3>2, <3>3
  <2>2. d.ops \in Seq(Rows)
    BY DEF RowTypes
  <2> HIDE DEF new
  <2> QED BY <2>1, <2>2
<1> HIDE DEF rows, e
<1>4. e.row = d.row /\ e.collab = d.collab /\ e.snaps = d.snaps /\ e.ops = rows
  BY <1>1, <1>2
<1>5. RowTypes(e)
  BY <1>3, <1>4 DEF RowTypes
<1> QED BY <1>4, <1>5 DEF e, rows

\* A document whose text, log and counter change.
LEMMA ChangedDocument ==
  ASSUME NEW m \in Documents, NEW text \in Texts, NEW log \in Seq(Made), NEW pending \in Nat
  PROVE  [m EXCEPT !.text = text, !.log = log, !.pending = pending] \in Documents
<1>1. m = [text |-> m.text, version |-> m.version, pending |-> m.pending, log |-> m.log] /\ m.version \in Nat
  BY DEF Documents
<1> DEFINE n == [m EXCEPT !.text = text, !.log = log, !.pending = pending]
<1>2. n = [m EXCEPT !.text = text, !.log = log, !.pending = pending]
  OBVIOUS
<1> HIDE DEF n
<1>3. n = [text |-> text, version |-> m.version, pending |-> pending, log |-> log]
  BY <1>1, <1>2
<1>4. n \in Documents
  BY <1>1, <1>3 DEF Documents
<1> QED BY <1>4 DEF n

\* handle_edit's document.
LEMMA EditedTyped ==
  ASSUME doc \in Documents, NEW ops \in Seq(Made)
  PROVE  /\ [doc EXCEPT !.text = ApplyOperations(@, ops), !.log = doc.log \o ops, !.pending = @ + Len(ops)] \in Documents
         /\ ApplyOperations(doc.text, ops) \in Texts /\ Len(doc.log \o ops) \in Nat
<1> DEFINE text == ApplyOperations(doc.text, ops)  log == doc.log \o ops  pending == doc.pending + Len(ops)
<1>1. doc.text \in Seq(Nat) /\ doc.log \in Seq(Made) /\ doc.pending \in Nat /\ doc.version \in Nat
  BY DEF Documents, Texts
<1>2. log \in Seq(Made) /\ Len(log) \in Nat
  <2> HIDE DEF Made
  <2> QED BY <1>1
<1>3. text \in Texts
  <2>1. ops \in Seq(Operations(Nat, Users))
    BY MadeAreOps
  <2> QED BY <1>1, <2>1, AppliedTexts DEF Texts
<1>4. pending \in Nat
  <2> HIDE DEF Made
  <2>1. Len(ops) \in Nat
    OBVIOUS
  <2> QED BY <1>1, <2>1
<1>5. doc = [text |-> doc.text, version |-> doc.version, pending |-> doc.pending, log |-> doc.log]
  BY DEF Documents
<1> HIDE DEF text, log, pending
<1>7. [doc EXCEPT !.text = text, !.log = log, !.pending = pending] \in Documents
  <2> DEFINE m == doc
  <2>1. m \in Documents
    OBVIOUS
  <2> HIDE DEF m
  <2>2. [m EXCEPT !.text = text, !.log = log, !.pending = pending] \in Documents
    BY ONLY <1>2, <1>3, <1>4, <2>1, ChangedDocument
  <2> QED BY <2>2 DEF m
<1> QED BY <1>2, <1>3, <1>7 DEF text, log, pending

\* The handler that runs, and what is in memory.
LEMMA MemoryStep == Types /\ [Next]_vars => MemoryTypes'
<1> SUFFICES ASSUME Types, [Next]_vars PROVE MemoryTypes'
  OBVIOUS
<1>0. /\ up \in BOOLEAN /\ loop \in Conns \cup {Free} /\ doc \in Documents \cup {NotLoaded}
      /\ RowTypes(db) /\ HistoryOK(db) /\ MemoryTypes
  BY DEF Types, MemoryTypes, Versions
<1>1. ASSUME UNCHANGED <<up, doc>>, loop' \in Conns \cup {Free} PROVE MemoryTypes'
  BY <1>0, <1>1 DEF MemoryTypes
<1>2. ASSUME NEW c \in Conns, HandleJoin(c) PROVE MemoryTypes'
  <2>1. up' = up /\ loop' \in {Free, c} /\ (doc' = doc \/ doc' = LoadDocument)
    BY <1>2 DEF HandleJoin, Runs
  <2> QED BY <1>0, <2>1, LoadedTyped DEF MemoryTypes
<1>3. ASSUME NEW c \in Conns, HandleEdit(c) PROVE MemoryTypes'
  <2>1. up' = up /\ loop' \in {Free, c}
    BY <1>3 DEF HandleEdit, Runs
  <2>2. doc' = doc \/ doc' \in Documents
    <3> DEFINE m == Head(req[c])  ops == Applied(m)
    <3>1. doc' = doc \/ (Loaded /\ doc' = [doc EXCEPT !.text = ApplyOperations(@, ops), !.log = doc.log \o ops, !.pending = @ + Len(ops)])
      BY <1>3 DEF HandleEdit
    <3>2. m \in Requests /\ m.type = "edit"
      <4>1. req[c] \in Seq(Requests) /\ req[c] # << >>
        BY <1>3 DEF Types, QueueTypes, HandleEdit, Takes
      <4> HIDE DEF Requests
      <4> QED BY <1>3, <4>1 DEF HandleEdit, Takes
    <3> HIDE DEF m
    <3>3. Loaded => doc \in Documents /\ ops \in Seq(Made)
      BY <1>0, <3>2, RequestIs, AppliedMade DEF Loaded
    <3> HIDE DEF ops
    <3> QED BY <3>1, <3>3, EditedTyped
  <2> QED BY <1>0, <2>1, <2>2 DEF MemoryTypes
<1>4. ASSUME NEW c \in Conns, HandleSaveSnapshot(c) \/ CheckAutoSnapshot(c) PROVE MemoryTypes'
  <2>1. up' = up /\ loop' \in {Free, c} /\ (doc' = doc \/ (Loaded /\ CreateSnapshot(doc)))
    BY <1>4 DEF HandleSaveSnapshot, CheckAutoSnapshot, Runs
  <2>2. Loaded => doc \in Documents
    BY <1>0 DEF Loaded
  <2> QED BY <1>0, <2>1, <2>2, CreateSnapshotTypes DEF MemoryTypes
<1>5. ASSUME NEW c \in Conns, HandleRestoreVersion(c) PROVE MemoryTypes'
  <2>1. up' = up /\ loop' \in {Free, c} /\ (doc' = doc \/ \E v \in DOMAIN db.snaps : CreateSnapshot(Restored(v)))
    BY <1>5 DEF HandleRestoreVersion, Runs
  <2>2. \A v \in DOMAIN db.snaps : Restored(v) \in Documents
    BY <1>0, LoadedTyped
  <2>3. ASSUME NEW v \in DOMAIN db.snaps, CreateSnapshot(Restored(v)) PROVE doc' \in Documents
    <3> DEFINE m == Restored(v)
    <3>1. m \in Documents /\ CreateSnapshot(m)
      BY <2>2, <2>3
    <3> HIDE DEF m
    <3> QED BY <1>0, <3>1, CreateSnapshotTypes
  <2> QED BY <1>0, <2>1, <2>3 DEF MemoryTypes
<1>6. ASSUME NEW c \in Conns, CheckUnload(c) PROVE MemoryTypes'
  BY <1>0, <1>6 DEF CheckUnload, MemoryTypes
<1>7. CASE Crash
  BY <1>7 DEF Crash, MemoryTypes
<1>8. CASE Restart
  BY <1>0, <1>8 DEF Restart, MemoryTypes
<1>9. ASSUME NEW c \in Conns,
             HandleCursorUpdate(c) \/ HandleCreateDoc(c) \/ HandleDisconnect(c) \/ BeginBroadcast(c)
      PROVE  MemoryTypes'
  <2>1. UNCHANGED <<up, doc>> /\ loop' \in {Free, c}
    BY <1>9 DEF HandleCursorUpdate, HandleCreateDoc, HandleDisconnect, BeginBroadcast, Runs
  <2> QED BY <1>1, <2>1
<1>10. ASSUME NEW c \in Conns, SendReply(c) \/ SendNext(c) PROVE MemoryTypes'
  <2>1. UNCHANGED <<up, doc>> /\ loop' \in {Free, c}
    BY <1>10 DEF SendReply, SendNext, Sent
  <2> QED BY <1>1, <2>1
<1>11. ASSUME NEW c \in Conns, Connect(c) \/ ClientReceives(c) \/ ClientActs(c) PROVE MemoryTypes'
  <2>1. UNCHANGED <<up, doc, loop>>
    BY <1>11 DEF Connect, ClientReceives, ClientActs, ClientJoins, ClientEdits, ClientMovesCursor,
                 ClientSaves, ClientRestores, ClientCreates, ClientCloses, ClientSends
  <2> QED BY <1>0, <1>1, <2>1
<1>12. CASE UNCHANGED vars
  BY <1>0, <1>1, <1>12 DEF vars
<1> QED
  BY <1>2, <1>3, <1>4, <1>5, <1>6, <1>7, <1>8, <1>9, <1>10, <1>11, <1>12 DEF Next, Handle, Step

\* The edit that a handler takes.
LEMMA EditIs ==
  ASSUME Types, NEW c \in Conns, HandleEdit(c)
  PROVE  LET m == Head(req[c])
         IN  /\ m \in Requests /\ m.type = "edit" /\ m.op \in Made /\ m.rev \in Nat
             /\ Loaded => doc \in Documents /\ Applied(m) \in Seq(Made)
<1> DEFINE m == Head(req[c])
<1>1. m \in Requests /\ m.type = "edit"
  <2>1. req[c] \in Seq(Requests) /\ req[c] # << >> /\ m.type = "edit"
    BY DEF Types, QueueTypes, HandleEdit, Takes
  <2> HIDE DEF Requests
  <2> QED BY <2>1
<1> HIDE DEF m
<1>2. m.op \in Made /\ m.rev \in Nat
  BY <1>1, RequestIs
<1>3. Loaded => doc \in Documents
  BY DEF Types, MemoryTypes, Loaded
<1> QED BY <1>1, <1>2, <1>3, AppliedMade DEF m

\* The database rows.
LEMMA RowStep == Types /\ [Next]_vars => RowTypes(db)'
<1> SUFFICES ASSUME Types, [Next]_vars PROVE RowTypes(db)'
  OBVIOUS
<1>0. RowTypes(db) /\ HistoryOK(db) /\ DbShape(db) /\ MemoryTypes /\ (Loaded => doc \in Documents)
  BY DEF Types, Versions, HistoryOK, MemoryTypes, Loaded
<1>1. ASSUME NEW e, RowTypes(e), db' = e PROVE RowTypes(db)'
  BY <1>1 DEF RowTypes
<1>2. ASSUME NEW c \in Conns, HandleEdit(c) PROVE RowTypes(db)'
  <2> DEFINE ops == Applied(Head(req[c]))
  <2>1. db' = db \/ (Loaded /\ db' = Logged(db, doc.version, ops))
    BY <1>2 DEF HandleEdit
  <2>2. Loaded => ops \in Seq(Ops) /\ doc.version \in Nat
    BY <1>0, <1>2, EditIs, MadeAreOps DEF Documents
  <2> HIDE DEF ops
  <2>3. Loaded => RowTypes(Logged(db, doc.version, ops))
    BY <1>0, <2>2, LoggedTypes
  <2> QED BY <1>0, <1>1, <2>1, <2>3
<1>3. ASSUME NEW c \in Conns, HandleSaveSnapshot(c) \/ CheckAutoSnapshot(c) PROVE RowTypes(db)'
  <2>1. db' = db \/ (Loaded /\ CreateSnapshot(doc))
    BY <1>3 DEF HandleSaveSnapshot, CheckAutoSnapshot
  <2> QED BY <1>0, <1>1, <2>1, CreateSnapshotTypes
<1>4. ASSUME NEW c \in Conns, HandleRestoreVersion(c) PROVE RowTypes(db)'
  <2>1. db' = db \/ \E v \in DOMAIN db.snaps : CreateSnapshot(Restored(v))
    BY <1>4 DEF HandleRestoreVersion
  <2>2. ASSUME NEW v \in DOMAIN db.snaps, CreateSnapshot(Restored(v)) PROVE RowTypes(db')
    <3> DEFINE m == Restored(v)
    <3>1. m \in Documents /\ CreateSnapshot(m)
      BY <1>0, <2>2, LoadedTyped
    <3> HIDE DEF m
    <3> QED BY <1>0, <3>1, CreateSnapshotTypes
  <2> QED BY <1>0, <1>1, <2>1, <2>2
<1>5. ASSUME ~db.row, NEW u \in Users, NEW k \in 1 .. 3
      PROVE  /\ Len(CreateCommits(u)) = 3 /\ Last(CreateCommits(u)) = CreateCommits(u)[3]
             /\ RowTypes(CreateCommits(u)[k])
  <2> DEFINE s == CreateCommits(u)
  <2>1. db = [row |-> db.row, collab |-> db.collab, snaps |-> db.snaps, ops |-> db.ops, current |-> db.current]
    BY <1>0 DEF DbShape
  <2>2. /\ s[1] = [row |-> TRUE, collab |-> db.collab, snaps |-> db.snaps, ops |-> db.ops,
                   current |-> db.current]
        /\ s[2] = [row |-> TRUE, collab |-> Bind(Empty, u, "owner"), snaps |-> db.snaps,
                   ops |-> db.ops, current |-> db.current]
        /\ s[3] = [row |-> TRUE, collab |-> Bind(Empty, u, "owner"), snaps |-> Bind(Empty, 0, << >>),
                   ops |-> db.ops, current |-> db.current]
        /\ Len(s) = 3 /\ Last(s) = s[3]
    BY <2>1 DEF CreateCommits, Last
  <2> HIDE DEF s
  <2>3. /\ DOMAIN Bind(Empty, u, "owner") = {u} /\ Bind(Empty, u, "owner")[u] = "owner"
        /\ DOMAIN Bind(Empty, 0, << >>) = {0} /\ Bind(Empty, 0, << >>)[0] = << >>
    BY DEF Bind, Empty
  <2>4. << >> \in Texts
    BY DEF Texts
  <2>5. s[k].ops = db.ops
    BY <2>2, k \in 1 .. 3
  <2>6. s[k].collab = db.collab \/ s[k].collab = Bind(Empty, u, "owner")
    BY <2>2, k \in 1 .. 3
  <2>7. s[k].snaps = db.snaps \/ s[k].snaps = Bind(Empty, 0, << >>)
    BY <2>2, k \in 1 .. 3
  <2>8. DOMAIN s[k].collab \subseteq Users /\ \A x \in DOMAIN s[k].collab : s[k].collab[x] \in Permissions
    BY <1>0, <2>3, <2>6 DEF RowTypes, Permissions
  <2>9. \A v \in DOMAIN s[k].snaps : s[k].snaps[v] \in Texts
    BY <1>0, <2>3, <2>4, <2>7 DEF RowTypes
  <2>10. RowTypes(s[k])
    BY <1>0, <2>5, <2>8, <2>9 DEF RowTypes
  <2> QED BY <2>2, <2>10 DEF s
<1>6. ASSUME NEW c \in Conns, HandleCreateDoc(c) PROVE RowTypes(db)'
  <2> DEFINE u == UserOf[c]
  <2>1. db' = db \/ (~db.row /\ db' = Last(CreateCommits(u)))
    BY <1>6 DEF HandleCreateDoc
  <2>2. u \in Users
    BY DEF Users
  <2> HIDE DEF u
  <2>3. 3 \in 1 .. 3
    OBVIOUS
  <2>4. ~db.row => RowTypes(CreateCommits(u)[3]) /\ Last(CreateCommits(u)) = CreateCommits(u)[3]
    BY <1>5, <2>2, <2>3
  <2> QED BY <1>0, <1>1, <2>1, <2>4
<1>7. ASSUME NEW m \in Documents, NEW k \in 1 .. 2 PROVE RowTypes(SnapshotCommits(db, m)[k])
  <2>1. SnapshotOf(SnapshotCommits(db, m)[k], db, m)
    <3>1. k = 1 \/ k = 2
      OBVIOUS
    <3> QED BY <1>0, <3>1, SnapshotFields
  <2> QED BY <1>0, <2>1, SnapshotTypes
<1>8. ASSUME NEW c \in Conns, CheckUnload(c) PROVE RowTypes(db)'
  <2>1. db' = db \/ (Loaded /\ db' = SnapshotCommits(db, doc)[2])
    BY <1>0, <1>8, SnapshotFields DEF CheckUnload
  <2>2. 2 \in 1 .. 2
    OBVIOUS
  <2> QED BY <1>0, <1>1, <1>7, <2>1, <2>2
<1>9. CASE Crash
  <2>3. db' = db \/ \E c \in Conns : db' \in CutShort(c)
    BY <1>0, <1>9 DEF Crash, MemoryTypes
  <2>4. ASSUME NEW c \in Conns, NEW d \in CutShort(c) PROVE RowTypes(d)
    <3> DEFINE m == Head(req[c])
    <3>1. \/ Loaded /\ \E k \in 1 .. Len(SnapshotCommits(db, doc)) - 1 : d = SnapshotCommits(db, doc)[k]
          \/ /\ req[c] # << >> /\ m.type = "edit" /\ Loaded
             /\ \E k \in 0 .. Len(Applied(m)) - 1 : d = Logged(db, doc.version, SubSeq(Applied(m), 1, k))
          \/ \E v \in DOMAIN db.snaps : \E k \in 1 .. Len(SnapshotCommits(db, Restored(v))) - 1 :
               d = SnapshotCommits(db, Restored(v))[k]
          \/ ~db.row /\ \E k \in 1 .. Len(CreateCommits(UserOf[c])) - 1 : d = CreateCommits(UserOf[c])[k]
      BY <2>4 DEF CutShort
    <3>2. CASE Loaded /\ \E k \in 1 .. Len(SnapshotCommits(db, doc)) - 1 : d = SnapshotCommits(db, doc)[k]
      <4>1. Len(SnapshotCommits(db, doc)) = 2
        BY <1>0, SnapshotFields
      <4> QED BY <1>0, <1>7, <3>2, <4>1
    <3>3. CASE \E v \in DOMAIN db.snaps : \E k \in 1 .. Len(SnapshotCommits(db, Restored(v))) - 1 :
                 d = SnapshotCommits(db, Restored(v))[k]
      <4>1. PICK v \in DOMAIN db.snaps : \E k \in 1 .. Len(SnapshotCommits(db, Restored(v))) - 1 :
                 d = SnapshotCommits(db, Restored(v))[k]
        BY <3>3
      <4> DEFINE r == Restored(v)
      <4>2. r \in Documents
        BY <1>0, LoadedTyped
      <4>3. \E k \in 1 .. Len(SnapshotCommits(db, r)) - 1 : d = SnapshotCommits(db, r)[k]
        BY <4>1
      <4> HIDE DEF r
      <4>4. Len(SnapshotCommits(db, r)) = 2
        BY <1>0, SnapshotFields
      <4> QED BY <1>7, <4>2, <4>3, <4>4
    <3>4. CASE ~db.row /\ \E k \in 1 .. Len(CreateCommits(UserOf[c])) - 1 : d = CreateCommits(UserOf[c])[k]
      <4> DEFINE u == UserOf[c]
      <4>1. u \in Users
        BY DEF Users
      <4>2. ~db.row /\ \E k \in 1 .. Len(CreateCommits(u)) - 1 : d = CreateCommits(u)[k]
        BY <3>4
      <4> HIDE DEF u
      <4>3. Len(CreateCommits(u)) = 3
        <5>1. 1 \in 1 .. 3
          OBVIOUS
        <5> QED BY <1>5, <4>1, <4>2, <5>1
      <4>4. PICK k \in 1 .. Len(CreateCommits(u)) - 1 : d = CreateCommits(u)[k]
        BY <4>2
      <4>5. k \in 1 .. 3
        BY <4>3
      <4> QED BY <1>5, <4>1, <4>2, <4>4, <4>5
    <3>5. CASE /\ req[c] # << >> /\ m.type = "edit" /\ Loaded
               /\ \E k \in 0 .. Len(Applied(m)) - 1 : d = Logged(db, doc.version, SubSeq(Applied(m), 1, k))
      <4>1. m \in Requests
        <5>1. req[c] \in Seq(Requests) /\ req[c] # << >>
          BY <3>5 DEF Types, QueueTypes
        <5> HIDE DEF Requests
        <5> QED BY <5>1
      <4> HIDE DEF m
      <4> DEFINE ops == Applied(m)
      <4>2. ops \in Seq(Ops) /\ doc.version \in Nat
        BY <1>0, <3>5, <4>1, RequestIs, AppliedMade, MadeAreOps DEF Documents
      <4>3. PICK k \in 0 .. Len(ops) - 1 : d = Logged(db, doc.version, SubSeq(ops, 1, k))
        BY <3>5
      <4> HIDE DEF ops, Ops
      <4>4. SubSeq(ops, 1, k) \in Seq(Ops)
        <5>1. k \in Nat /\ k <= Len(ops)
          BY <4>2
        <5> QED BY <4>2, <5>1, PartOfList
      <4> QED BY <1>0, <4>2, <4>3, <4>4, LoggedTypes
    <3> QED BY <3>1, <3>2, <3>3, <3>4, <3>5
  <2>5. ASSUME NEW c \in Conns, db' \in CutShort(c) PROVE RowTypes(db)'
    <3> DEFINE e == db'
    <3>1. e \in CutShort(c) /\ db' = e
      BY <2>5
    <3> HIDE DEF e
    <3>2. RowTypes(e)
      BY <2>4, <3>1
    <3> QED BY <1>1, <3>1, <3>2
  <2> QED BY <1>0, <1>1, <2>3, <2>5
<1>10. ASSUME NEW c \in Conns,
             \/ HandleJoin(c) \/ HandleCursorUpdate(c) \/ HandleDisconnect(c) \/ SendReply(c) \/ SendNext(c)
             \/ BeginBroadcast(c) \/ Connect(c) \/ ClientReceives(c) \/ ClientActs(c)
      PROVE  RowTypes(db)'
  <2>1. db' = db
    BY <1>10 DEF HandleJoin, HandleCursorUpdate, HandleDisconnect, SendReply, SendNext, BeginBroadcast, Connect,
                ClientReceives, ClientActs, ClientCloses, ClientJoins, ClientEdits, ClientMovesCursor, ClientSaves,
                ClientRestores, ClientCreates, ClientSends
  <2> QED BY <1>0, <1>1, <2>1
<1>11. CASE Restart
  BY <1>0, <1>1, <1>11 DEF Restart
<1>12. CASE UNCHANGED vars
  BY <1>0, <1>1, <1>12 DEF vars
<1> QED
  BY <1>2, <1>3, <1>4, <1>6, <1>8, <1>9, <1>10, <1>11, <1>12 DEF Next, Handle, Step

\* A caret moved by the operations of an edit.
LEMMA CaretTyped ==
  ASSUME SessionTypes, NEW u \in DOMAIN session, NEW ops \in Seq(Made)
  PROVE  MovedCursor(u, ops) \in Nat /\ [session[u] EXCEPT !.cursor = MovedCursor(u, ops)] \in Entries
<1> DEFINE p == session[u].cursor  q == FoldLeft(TransformCursor, p, ops)  e == session[u]
<1>1. e \in Entries
  BY DEF SessionTypes
<1>2. p \in Nat
  BY <1>1 DEF Entries
<1>3. ops \in Seq(Operations(Nat, Users))
  BY MadeAreOps
<1> HIDE DEF p
<1>4. q \in Nat
  BY <1>2, <1>3, MovedCaret
<1>5. MovedCursor(u, ops) = q
  BY DEF MovedCursor, p
<1> HIDE DEF q, e
<1>6. [e EXCEPT !.cursor = q] \in Entries
  BY <1>1, <1>4 DEF Entries
<1> QED BY <1>4, <1>5, <1>6 DEF e

\* The editors and the carets that Redis shows.
LEMMA SessionStep == Types /\ [Next]_vars => SessionTypes'
<1> SUFFICES ASSUME Types, [Next]_vars PROVE SessionTypes'
  OBVIOUS
<1>0. SessionTypes
  BY DEF Types
<1>1. ASSUME UNCHANGED <<session, presence>> PROVE SessionTypes'
  BY <1>0, <1>1 DEF SessionTypes
<1>2. ASSUME NEW c \in Conns, HandleJoin(c) PROVE SessionTypes'
  <2> DEFINE u == UserOf[c]  e == [ws |-> c, cursor |-> 0, role |-> db.collab[u]]
  <2>1. u \in Users
    BY DEF Users
  <2>2. UNCHANGED <<session, presence>> \/ (u \in DOMAIN db.collab /\ session' = Bind(session, u, e) /\ presence' = Bind(presence, u, 0))
    BY <1>2 DEF HandleJoin
  <2>3. u \in DOMAIN db.collab => e \in Entries
    BY DEF Types, RowTypes, Entries
  <2> HIDE DEF u, e
  <2>4. CASE u \in DOMAIN db.collab /\ session' = Bind(session, u, e) /\ presence' = Bind(presence, u, 0)
    <3>1. DOMAIN session' = DOMAIN session \cup {u} /\ \A x \in DOMAIN session' : session'[x] = IF x = u THEN e ELSE session[x]
      BY <2>4 DEF Bind
    <3>2. DOMAIN presence' = DOMAIN presence \cup {u} /\ \A x \in DOMAIN presence' : presence'[x] = IF x = u THEN 0 ELSE presence[x]
      BY <2>4 DEF Bind
    <3> QED BY <1>0, <2>1, <2>3, <2>4, <3>1, <3>2 DEF SessionTypes
  <2> QED BY <1>1, <2>2, <2>4
<1>3. ASSUME NEW c \in Conns, HandleEdit(c) PROVE SessionTypes'
  <2> DEFINE ops == Applied(Head(req[c]))  a == UserOf[c]
  <2>1. UNCHANGED <<session, presence>> \/ (Loaded /\ MoveCursors(ops, a))
    BY <1>3 DEF HandleEdit
  <2>2. Loaded => ops \in Seq(Made)
    BY <1>3, EditIs
  <2> HIDE DEF ops, a
  <2>3. CASE Loaded /\ MoveCursors(ops, a)
    <3> DEFINE moved == {u \in DOMAIN session \ {a} :
                           \E k \in DOMAIN ops : MovedCursor(u, SubSeq(ops, 1, k)) # MovedCursor(u, SubSeq(ops, 1, k - 1))}
    <3>1. /\ session' = [u \in DOMAIN session |-> IF u = a THEN session[u]
                                                  ELSE [session[u] EXCEPT !.cursor = MovedCursor(u, ops)]]
          /\ presence' = [u \in DOMAIN presence \cup moved |-> IF u \in moved THEN MovedCursor(u, ops) ELSE presence[u]]
      BY <2>3 DEF MoveCursors
    <3>2. moved \subseteq DOMAIN session
      OBVIOUS
    <3> HIDE DEF moved
    <3>3. \A u \in DOMAIN session : MovedCursor(u, ops) \in Nat /\ [session[u] EXCEPT !.cursor = MovedCursor(u, ops)] \in Entries
      BY <1>0, <2>2, <2>3, CaretTyped
    <3>4. DOMAIN session' = DOMAIN session /\ \A u \in DOMAIN session' : session'[u] \in Entries
      BY <1>0, <3>1, <3>3 DEF SessionTypes
    <3>5. DOMAIN presence' = DOMAIN presence \cup moved /\ \A u \in DOMAIN presence' : presence'[u] \in Nat
      BY <1>0, <3>1, <3>2, <3>3 DEF SessionTypes
    <3> QED BY <1>0, <3>2, <3>4, <3>5 DEF SessionTypes
  <2> QED BY <1>1, <2>1, <2>3
<1>4. ASSUME NEW c \in Conns, HandleCursorUpdate(c) PROVE SessionTypes'
  <2> DEFINE u == UserOf[c]  m == Head(req[c])  p == m.position
  <2>1. u \in Users
    BY DEF Users
  <2>2. m \in Requests /\ m.type = "cursor"
    <3>1. req[c] \in Seq(Requests) /\ req[c] # << >> /\ m.type = "cursor"
      BY <1>4 DEF Types, QueueTypes, HandleCursorUpdate, Takes
    <3> HIDE DEF Requests
    <3> QED BY <3>1
  <2>3. session' = (IF u \in DOMAIN session THEN [session EXCEPT ![u].cursor = p] ELSE session) /\ presence' = Bind(presence, u, p)
    BY <1>4 DEF HandleCursorUpdate
  <2> HIDE DEF m
  <2>4. p \in Nat
    BY <2>2, RequestIs
  <2> HIDE DEF p, u
  <2>5. DOMAIN session' = DOMAIN session /\ \A x \in DOMAIN session' : session'[x] \in Entries
    <3>1. \A x \in DOMAIN session : session[x] \in Entries /\ [session[x] EXCEPT !.cursor = p] \in Entries
      BY <1>0, <2>4 DEF SessionTypes, Entries
    <3>2. /\ DOMAIN session' = DOMAIN session
          /\ \A x \in DOMAIN session : session'[x] = session[x] \/ session'[x] = [session[x] EXCEPT !.cursor = p]
      BY <2>3
    <3> QED BY <3>1, <3>2
  <2>6. DOMAIN presence' = DOMAIN presence \cup {u} /\ \A x \in DOMAIN presence' : presence'[x] = IF x = u THEN p ELSE presence[x]
    BY <2>3 DEF Bind
  <2>7. \A x \in DOMAIN presence' : presence'[x] \in Nat
    BY <1>0, <2>4, <2>6 DEF SessionTypes
  <2> QED BY <1>0, <2>1, <2>5, <2>6, <2>7 DEF SessionTypes
<1>5. ASSUME NEW c \in Conns, HandleDisconnect(c) PROVE SessionTypes'
  <2> DEFINE u == UserOf[c]
  <2>1. UNCHANGED <<session, presence>> \/ (/\ session' = Restrict(session, DOMAIN session \ {u})
                                            /\ presence' = Restrict(presence, DOMAIN presence \ {u}))
    BY <1>5 DEF HandleDisconnect, Leave
  <2> HIDE DEF u
  <2>2. CASE /\ session' = Restrict(session, DOMAIN session \ {u})
             /\ presence' = Restrict(presence, DOMAIN presence \ {u})
    <3>1. DOMAIN session' \subseteq DOMAIN session /\ \A x \in DOMAIN session' : session'[x] = session[x]
      BY <2>2 DEF Restrict
    <3>2. DOMAIN presence' \subseteq DOMAIN presence /\ \A x \in DOMAIN presence' : presence'[x] = presence[x]
      BY <2>2 DEF Restrict
    <3> QED BY <1>0, <3>1, <3>2 DEF SessionTypes
  <2> QED BY <1>1, <2>1, <2>2
<1>6. DOMAIN Empty = {}
  BY DEF Empty
<1>7. ASSUME NEW c \in Conns, CheckUnload(c) PROVE SessionTypes'
  <2>1. UNCHANGED <<session, presence>> \/ (session' = Empty /\ presence' = Empty)
    BY <1>7 DEF CheckUnload
  <2>2. CASE session' = Empty /\ presence' = Empty
    <3>1. DOMAIN session' = {} /\ DOMAIN presence' = {}
      BY <1>6, <2>2
    <3> QED BY <3>1 DEF SessionTypes
  <2> QED BY <1>1, <2>1, <2>2
<1>8. CASE Crash
  <2>1. session' = Empty /\ presence' = presence
    BY <1>8 DEF Crash
  <2>2. DOMAIN session' = {}
    BY <1>6, <2>1
  <2> QED BY <1>0, <2>1, <2>2 DEF SessionTypes
<1>9. ASSUME NEW c \in Conns,
             \/ HandleSaveSnapshot(c) \/ HandleRestoreVersion(c) \/ HandleCreateDoc(c) \/ SendReply(c) \/ SendNext(c)
             \/ BeginBroadcast(c) \/ CheckAutoSnapshot(c) \/ Connect(c) \/ ClientReceives(c) \/ ClientActs(c)
      PROVE  SessionTypes'
  <2>1. UNCHANGED <<session, presence>>
    BY <1>9 DEF HandleSaveSnapshot, HandleRestoreVersion, HandleCreateDoc, SendReply, SendNext, BeginBroadcast,
                CheckAutoSnapshot, Connect, ClientReceives, ClientActs, ClientCloses, ClientJoins, ClientEdits,
                ClientMovesCursor, ClientSaves, ClientRestores, ClientCreates, ClientSends
  <2> QED BY <1>1, <2>1
<1>10. CASE Restart
  BY <1>1, <1>10 DEF Restart
<1>11. CASE UNCHANGED vars
  BY <1>1, <1>11 DEF vars
<1> QED
  BY <1>2, <1>3, <1>4, <1>5, <1>7, <1>8, <1>9, <1>10, <1>11 DEF Next, Handle, Step

\* The head of a queue and what is left of it.
LEMMA HeadTyped ==
  ASSUME NEW S, NEW s \in Seq(S), s # << >>
  PROVE  Head(s) \in S /\ Tail(s) \in Seq(S) /\ Len(s) \in Nat /\ Len(s) >= 1 /\ Len(Tail(s)) = Len(s) - 1
         /\ Head(s) = s[1] /\ \A k \in 1 .. Len(s) - 1 : Tail(s)[k] = s[k + 1]
OBVIOUS

\* The request that a handler takes.
LEMMA TakesIs ==
  ASSUME QueueTypes, NEW c \in Conns, NEW type, Takes(c, type)
  PROVE  /\ Head(req[c]) \in Requests /\ Head(req[c]).type = type /\ req[c] # << >>
         /\ req' \in [Conns -> Seq(Requests)] /\ loop = Free /\ todo[c] = << >>
         /\ req' = [req EXCEPT ![c] = Tail(@)]
<1>1. req[c] \in Seq(Requests) /\ req[c] # << >> /\ req' = [req EXCEPT ![c] = Tail(@)] /\ Head(req[c]).type = type
      /\ loop = Free /\ todo[c] = << >>
  BY DEF QueueTypes, Takes
<1>2. Head(req[c]) \in Requests /\ Tail(req[c]) \in Seq(Requests)
  BY <1>1, HeadTyped
<1>3. req' \in [Conns -> Seq(Requests)]
  <2> DEFINE S == Seq(Requests)
  <2>1. req \in [Conns -> S] /\ Tail(req[c]) \in S
    BY <1>2 DEF QueueTypes
  <2> HIDE DEF S
  <2>2. req' \in [Conns -> S]
    BY <1>1, <2>1
  <2> QED BY <2>2 DEF S
<1> QED BY <1>1, <1>2, <1>3

\* The instruction that a handler executes.
LEMMA RunningIs ==
  ASSUME QueueTypes, NEW c \in Conns, NEW kind, Running(c, kind)
  PROVE  /\ Head(todo[c]) \in Instructions /\ Head(todo[c]).do = kind /\ Rest(c) \in Seq(Instructions)
         /\ loop \in {Free, c} /\ todo[c] # << >> /\ todo[c] \in Seq(Instructions)
<1>1. todo[c] \in Seq(Instructions) /\ todo[c] # << >> /\ Head(todo[c]).do = kind /\ loop \in {Free, c}
  BY DEF QueueTypes, Running
<1>2. Head(todo[c]) \in Instructions /\ Tail(todo[c]) \in Seq(Instructions)
  BY <1>1, HeadTyped
<1> QED BY <1>1, <1>2 DEF Rest

\* A handler's queue replaced.
LEMMA TodoTyped ==
  ASSUME QueueTypes, NEW c \in Conns, NEW script \in Seq(Instructions), todo' = [todo EXCEPT ![c] = script]
  PROVE  todo' \in [Conns -> Seq(Instructions)]
<1> DEFINE S == Seq(Instructions)
<1>1. todo \in [Conns -> S] /\ script \in S
  BY DEF QueueTypes
<1> HIDE DEF S
<1>2. todo' \in [Conns -> S]
  BY <1>1
<1> QED BY <1>2 DEF S

\* A message in an inbox.
LEMMA DeliverTyped ==
  ASSUME QueueTypes, NEW d \in Conns, NEW m \in Messages \cup {Note}, Deliver(d, m)
  PROVE  inbox' \in [Conns -> Seq(Messages)]
<1> DEFINE S == Seq(Messages)  s == Append(inbox[d], m)
<1>1. inbox \in [Conns -> S]
  BY DEF QueueTypes
<1>2. inbox' = inbox \/ (m \in Messages /\ inbox' = [inbox EXCEPT ![d] = s])
  BY DEF Deliver
<1>3. m \in Messages => s \in S
  <2> HIDE DEF Messages
  <2>1. inbox[d] \in Seq(Messages)
    BY DEF QueueTypes
  <2> QED BY <2>1
<1> HIDE DEF S, s
<1>4. inbox' \in [Conns -> S]
  BY <1>1, <1>2, <1>3
<1> QED BY <1>4 DEF S

\* The scripts of the handlers.
LEMMA Scripts ==
  ASSUME NEW s \in Seq(Instructions)
  PROVE  /\ << >> \in Seq(Instructions)
         /\ \A x \in Instructions : << x >> \in Seq(Instructions) /\ << x >> \o s \in Seq(Instructions)
         /\ \A x, y \in Instructions : << x, y >> \in Seq(Instructions)
         /\ \A x, y, z \in Instructions : << x, y, z >> \in Seq(Instructions)
         /\ \A t \in Seq(Instructions) : t \o s \in Seq(Instructions)
<1> DEFINE I == Instructions
<1> HIDE DEF I
<1>1. \A x \in I : << x >> \in Seq(I)
  OBVIOUS
<1>2. \A x, y \in I : << x, y >> \in Seq(I)
  OBVIOUS
<1>3. \A x, y, z \in I : << x, y, z >> \in Seq(I)
  OBVIOUS
<1>4. \A t \in Seq(I) : t \o s \in Seq(I)
  <2>1. s \in Seq(I)
    BY DEF I
  <2> QED BY <2>1
<1>5. << >> \in Seq(I)
  OBVIOUS
<1> QED BY <1>1, <1>2, <1>3, <1>4, <1>5 DEF I

\* handle_edit's script.
LEMMA EditScript ==
  ASSUME NEW ops \in Seq(Made), NEW n \in Nat
  PROVE  << Reply(Ack(ops, n)) >> \o [k \in DOMAIN ops |-> SendOp(ops[k])] \o << AutoSnapshot >> \in Seq(Instructions)
<1> DEFINE r == Reply(Ack(ops, n))  sends == [k \in DOMAIN ops |-> SendOp(ops[k])]  a == AutoSnapshot
<1>1. r \in Instructions /\ a \in Instructions
  BY MessagesAre, InstructionsAre
<1>2. sends \in Seq(Instructions)
  <2>1. \A k \in DOMAIN ops : SendOp(ops[k]) \in Instructions
    BY MadeAreOps, InstructionsAre
  <2>2. DOMAIN ops = 1 .. Len(ops) /\ Len(ops) \in Nat
    <3> HIDE DEF Made
    <3> QED OBVIOUS
  <2>3. sends = [k \in 1 .. Len(ops) |-> sends[k]] /\ \A k \in 1 .. Len(ops) : sends[k] \in Instructions
    BY <2>1, <2>2
  <2> HIDE DEF sends
  <2> QED BY <2>2, <2>3
<1> HIDE DEF r, sends, a
<1>3. << r >> \in Seq(Instructions) /\ << a >> \in Seq(Instructions)
  BY <1>1
<1> DEFINE u == << r >>  v == << a >>  I == Instructions
<1>4. u \in Seq(I) /\ v \in Seq(I) /\ sends \in Seq(I)
  BY <1>2, <1>3
<1> HIDE DEF u, v, I
<1>5. u \o sends \in Seq(I)
  BY <1>4
<1>6. (u \o sends) \o v \in Seq(I)
  BY <1>4, <1>5
<1> QED BY <1>6 DEF u, v, I, r, sends, a

\* Whom a broadcast reaches.
LEMMA EditorsAre ==
  ASSUME SessionTypes, NEW skip
  PROVE  Editors(skip) \in SUBSET Conns /\ \A d \in Editors(skip) : InSession(d)
BY DEF SessionTypes, Editors, Entries, InSession

\* A broadcast about to begin.
LEMMA BroadcastTyped ==
  ASSUME NEW to \in SUBSET Conns, NEW m \in Messages \cup {Note}, NEW s \in Seq(Instructions)
  PROVE  BroadcastTo(to, m) \in Seq(Instructions) /\ BroadcastTo(to, m) \o s \in Seq(Instructions)
<1> DEFINE i == Broadcast(to, m)  b == BroadcastTo(to, m)
<1>1. i \in Instructions
  BY InstructionsAre
<1>2. b = << >> \/ b = << i >>
  BY DEF BroadcastTo
<1> HIDE DEF i, b
<1>3. b \in Seq(Instructions)
  BY <1>1, <1>2, Scripts
<1> QED BY <1>3, Scripts DEF b

\* What a client can ask for.
LEMMA ClientOpsMade ==
  ASSUME NEW c \in Conns, client[c].text \in Texts, used.edits \in Nat, NEW op \in ClientOps(c)
  PROVE  op \in Made
<1> DEFINE t == client[c].text  u == UserOf[c]  x == << 100 + used.edits >>
<1>1. t \in Seq(Nat) /\ Len(t) \in Nat /\ u \in Users /\ x \in Seq(Nat) /\ x # << >>
  BY DEF Texts, Users
<1>2. \/ \E p \in 0 .. Len(t) : op = MakeInsert(p, x, u)
      \/ \E p \in 0 .. Len(t), n \in 1 .. Len(t) : op = MakeDelete(p, n, u)
  BY DEF ClientOps
<1> HIDE DEF t, u, x
<1>3. ASSUME NEW p \in 0 .. Len(t), op = MakeInsert(p, x, u) PROVE op \in Made
  <2>1. p \in Nat
    BY <1>1
  <2> QED BY <1>1, <1>3, <2>1 DEF MakeInsert, Made, Ops, Operations
<1>4. ASSUME NEW p \in 0 .. Len(t), NEW n \in 1 .. Len(t), op = MakeDelete(p, n, u) PROVE op \in Made
  <2>1. p \in Nat /\ n \in Nat /\ n >= 1 /\ << >> \in Seq(Nat)
    BY <1>1
  <2> QED BY <1>1, <1>4, <2>1 DEF MakeDelete, Made, Ops, Operations
<1> QED BY <1>2, <1>3, <1>4

\* A suspended handler's instruction still is one when its document is unloaded.
LEMMA DetachedTyped ==
  ASSUME NEW i \in Instructions, i.do \in {"op", "autosnap"} /\ i.doc = "live" => doc \in Documents
  PROVE  Detached(i) \in Instructions
<1>1. CASE i.do = "op" /\ i.doc = "live"
  <2> DEFINE n == Len(doc.log)
             x == [i EXCEPT !.doc = "old", !.rev = n]
  <2>1. Detached(i) = x
    BY <1>1 DEF Detached
  <2>2. n \in Nat
    <3>1. doc.log \in Seq(Made)
      BY <1>1 DEF Documents
    <3> HIDE DEF Made
    <3> QED BY <3>1
  <2> HIDE DEF n
  <2>3. i = [do |-> "op", op |-> i.op, doc |-> i.doc, rev |-> i.rev] /\ i.op \in Made
    BY <1>1, InstructionIs
  <2> DEFINE o == i.op
             e == i.doc
             r == i.rev
  <2>4. i = [do |-> "op", op |-> o, doc |-> e, rev |-> r] /\ o \in Made
    BY <2>3
  <2>5. x = [i EXCEPT !.doc = "old", !.rev = n]
    OBVIOUS
  <2> HIDE DEF o, e, r, x
  <2>6. x = [do |-> "op", op |-> o, doc |-> "old", rev |-> n]
    BY <2>4, <2>5
  <2>7. x \in Instructions
    BY <2>2, <2>4, <2>6 DEF Instructions
  <2> QED BY <2>1, <2>7
<1>2. CASE i.do = "autosnap" /\ i.doc = "live"
  <2> DEFINE n == doc.pending
             x == [i EXCEPT !.doc = "old", !.pending = n]
  <2>1. Detached(i) = x
    BY <1>2 DEF Detached
  <2>2. n \in Nat
    BY <1>2 DEF Documents
  <2> HIDE DEF n
  <2>3. i = [do |-> "autosnap", doc |-> i.doc, pending |-> i.pending]
    BY <1>2, InstructionIs
  <2> DEFINE e == i.doc
             r == i.pending
  <2>4. i = [do |-> "autosnap", doc |-> e, pending |-> r]
    BY <2>3
  <2>5. x = [i EXCEPT !.doc = "old", !.pending = n]
    OBVIOUS
  <2> HIDE DEF e, r, x
  <2>6. x = [do |-> "autosnap", doc |-> "old", pending |-> n]
    BY <2>4, <2>5
  <2>7. x \in Instructions
    BY <2>2, <2>6 DEF Instructions
  <2> QED BY <2>1, <2>7
<1>3. CASE i.do = "unload" /\ i.session = "live"
  <2> DEFINE n == IF session = Empty THEN "empty" ELSE "busy"
             x == [i EXCEPT !.session = n]
  <2>1. Detached(i) = x
    BY <1>3 DEF Detached
  <2>2. n \in {"empty", "busy"}
    OBVIOUS
  <2> HIDE DEF n
  <2>3. i = [do |-> "unload", session |-> i.session]
    BY <1>3, InstructionIs
  <2> DEFINE e == i.session
  <2>4. i = [do |-> "unload", session |-> e]
    BY <2>3
  <2>5. x = [i EXCEPT !.session = n]
    OBVIOUS
  <2> HIDE DEF e, x
  <2>6. x = [do |-> "unload", session |-> n]
    BY <2>4, <2>5
  <2>7. x \in Instructions
    BY <2>2, <2>6 DEF Instructions
  <2> QED BY <2>1, <2>7
<1>4. CASE /\ ~(i.do = "op" /\ i.doc = "live") /\ ~(i.do = "autosnap" /\ i.doc = "live")
           /\ ~(i.do = "unload" /\ i.session = "live")
  BY <1>4 DEF Detached
<1> QED BY <1>1, <1>2, <1>3, <1>4

\* What the clients and handlers have in their queues.
LEMMA QueueStep == Types /\ [Next]_vars => QueueTypes'
<1> SUFFICES ASSUME Types, [Next]_vars PROVE QueueTypes'
  OBVIOUS
<1>0. QueueTypes /\ SessionTypes /\ MemoryTypes /\ RowTypes(db) /\ HistoryOK(db)
  BY DEF Types, Versions
<1> DEFINE T == [Conns -> Seq(Instructions)]  R == [Conns -> Seq(Requests)]  B == [Conns -> Seq(Messages)]
<1>01. todo \in T /\ req \in R /\ inbox \in B
  BY <1>0 DEF QueueTypes
<1>02. ASSUME todo' \in T, req' \in R, inbox' \in B PROVE QueueTypes'
  BY <1>02 DEF QueueTypes
<1> HIDE DEF T, R, B
<1>1. ASSUME NEW c \in Conns, NEW type, Takes(c, type), NEW script \in Seq(Instructions), Runs(c, script), inbox' = inbox
      PROVE  QueueTypes'
  <2>1. todo' = [todo EXCEPT ![c] = script]
    BY <1>1 DEF Runs
  <2>2. todo' \in T
    BY <1>0, <1>1, <2>1, TodoTyped DEF T
  <2>3. req' \in R
    BY <1>0, <1>1, TakesIs DEF R
  <2> QED BY <1>01, <1>02, <1>1, <2>2, <2>3
<1>2. ASSUME NEW c \in Conns, HandleJoin(c) PROVE QueueTypes'
  <2> DEFINE u == UserOf[c]  m == LoadDocument  good == << Reply(DocState(m.text, Len(m.log))), Reply(Note), TellOthers(u) >>
             bad == << Reply(Error) >>
  <2>1. Takes(c, "join") /\ inbox' = inbox /\ (Runs(c, good) \/ Runs(c, bad))
    BY <1>2 DEF HandleJoin
  <2>2. bad \in Seq(Instructions)
    BY MessagesAre, InstructionsAre, Scripts
  <2>3. good \in Seq(Instructions)
    <3>1. m \in Documents
      BY <1>0, LoadedTyped
    <3>2. m.text \in Texts /\ m.log \in Seq(Made)
      BY <3>1 DEF Documents
    <3>3. Len(m.log) \in Nat
      <4> HIDE DEF Made, m
      <4> QED BY <3>2
    <3>4. DocState(m.text, Len(m.log)) \in Messages
      BY <3>2, <3>3, MessagesAre
    <3>5. u \in Users
      BY DEF Users
    <3>6. Reply(DocState(m.text, Len(m.log))) \in Instructions /\ Reply(Note) \in Instructions /\ TellOthers(u) \in Instructions
      BY <3>4, <3>5, InstructionsAre
    <3> QED BY <3>6, Scripts
  <2> HIDE DEF good, bad
  <2> QED BY <1>1, <2>1, <2>2, <2>3
<1>3. ASSUME NEW c \in Conns, HandleEdit(c) PROVE QueueTypes'
  <2> DEFINE ops == Applied(Head(req[c]))
             good == << Reply(Ack(ops, Len(doc.log \o ops))) >> \o [k \in DOMAIN ops |-> SendOp(ops[k])] \o << AutoSnapshot >>
             bad == << Reply(Error) >>
  <2>1. Takes(c, "edit") /\ inbox' = inbox /\ ((Loaded /\ Runs(c, good)) \/ Runs(c, bad))
    BY <1>3 DEF HandleEdit
  <2>2. bad \in Seq(Instructions)
    BY MessagesAre, InstructionsAre, Scripts
  <2>3. Loaded => good \in Seq(Instructions)
    <3>1. Loaded => doc \in Documents /\ ops \in Seq(Made)
      BY <1>3, EditIs
    <3> HIDE DEF ops
    <3>2. Loaded => Len(doc.log \o ops) \in Nat
      BY <3>1, EditedTyped
    <3> QED BY <3>1, <3>2, EditScript
  <2> HIDE DEF good, bad
  <2> QED BY <1>1, <2>1, <2>2, <2>3
<1>4. ASSUME NEW c \in Conns, HandleCursorUpdate(c) \/ HandleSaveSnapshot(c) \/ HandleCreateDoc(c) PROVE QueueTypes'
  <2>1. \E type : Takes(c, type)
    BY <1>4 DEF HandleCursorUpdate, HandleSaveSnapshot, HandleCreateDoc
  <2>2. inbox' = inbox /\ (Runs(c, << Reply(Note) >>) \/ Runs(c, << TellOthers(UserOf[c]) >>))
    BY <1>4 DEF HandleCursorUpdate, HandleSaveSnapshot, HandleCreateDoc
  <2>3. << Reply(Note) >> \in Seq(Instructions) /\ << TellOthers(UserOf[c]) >> \in Seq(Instructions)
    <3>1. UserOf[c] \in Users
      BY DEF Users
    <3> QED BY <3>1, InstructionsAre, Scripts
  <2> QED BY <1>1, <2>1, <2>2, <2>3
<1>5. ASSUME NEW c \in Conns, HandleRestoreVersion(c) PROVE QueueTypes'
  <2> DEFINE v == Head(req[c]).version  m == DocState(db.snaps[v], 0)  n == << Reply(Note) >>
             good == BroadcastTo(Editors({}), m) \o n
  <2>1. Takes(c, "restore") /\ inbox' = inbox /\ (Runs(c, n) \/ (v \in DOMAIN db.snaps /\ Runs(c, good)))
    BY <1>5 DEF HandleRestoreVersion
  <2>2. n \in Seq(Instructions)
    BY InstructionsAre, Scripts
  <2>3. v \in DOMAIN db.snaps => good \in Seq(Instructions)
    <3>1. v \in DOMAIN db.snaps => m \in Messages
      BY <1>0, MessagesAre DEF RowTypes
    <3>2. Editors({}) \in SUBSET Conns
      BY <1>0, EditorsAre
    <3> HIDE DEF m, n
    <3> QED BY <2>2, <3>1, <3>2, BroadcastTyped
  <2> HIDE DEF n, good, v
  <2> QED BY <1>1, <2>1, <2>2, <2>3
<1>6. ASSUME NEW c \in Conns, HandleDisconnect(c) PROVE QueueTypes'
  <2>1. UNCHANGED <<req, inbox>> /\ (Runs(c, << TellAll, Unload >>) \/ Runs(c, << >>))
    BY <1>6 DEF HandleDisconnect
  <2>2. << TellAll, Unload >> \in Seq(Instructions) /\ << >> \in Seq(Instructions)
    BY InstructionsAre, Scripts
  <2>3. todo' \in T
    BY <1>0, <2>1, <2>2, TodoTyped DEF Runs, T
  <2> QED BY <1>01, <1>02, <2>1, <2>3
<1>7. ASSUME NEW c \in Conns, SendReply(c) PROVE QueueTypes'
  <2> DEFINE i == Head(todo[c])
  <2>1. i \in Instructions /\ i.do = "reply" /\ Rest(c) \in Seq(Instructions)
    BY <1>0, <1>7, RunningIs DEF SendReply
  <2>2. i.msg \in Messages \cup {Note}
    <3> HIDE DEF i
    <3> QED BY <2>1, InstructionIs
  <2>3. CASE link[c] = "open"
    <3>1. todo' = [todo EXCEPT ![c] = Rest(c)] /\ Deliver(c, i.msg) /\ req' = req
      BY <1>7, <2>3 DEF SendReply, Sent
    <3> HIDE DEF i
    <3>2. todo' \in T
      BY <1>0, <2>1, <3>1, TodoTyped DEF T
    <3>3. inbox' \in B
      BY <1>0, <2>2, <3>1, DeliverTyped DEF B
    <3> QED BY <1>01, <1>02, <3>1, <3>2, <3>3
  <2>4. CASE link[c] # "open"
    <3>1. todo' = [todo EXCEPT ![c] = << >>] /\ req' = [req EXCEPT ![c] = << >>] /\ inbox' = inbox
      BY <1>7, <2>4 DEF SendReply
    <3>2. todo' \in T
      BY <1>0, <2>1, <3>1, Scripts, TodoTyped DEF T
    <3>3. req' \in R
      <4>1. << >> \in Seq(Requests)
        OBVIOUS
      <4> DEFINE S == Seq(Requests)
      <4>2. << >> \in S /\ req \in [Conns -> S]
        BY <1>01, <4>1 DEF R
      <4> HIDE DEF S
      <4>3. req' \in [Conns -> S]
        BY <3>1, <4>2
      <4> QED BY <4>3 DEF S, R
    <3> QED BY <1>01, <1>02, <3>1, <3>2, <3>3
  <2> QED BY <2>3, <2>4
<1>8. ASSUME NEW c \in Conns, SendNext(c) PROVE QueueTypes'
  <2> DEFINE i == Head(todo[c])
  <2>1. i \in Instructions /\ i.do = "broadcast" /\ Rest(c) \in Seq(Instructions)
    BY <1>0, <1>8, RunningIs DEF SendNext
  <2>2. PICK d \in i.to : /\ Deliver(d, i.msg)
                          /\ Sent(c, d, IF i.to = {d} THEN Rest(c) ELSE << [i EXCEPT !.to = @ \ {d}] >> \o Rest(c))
    BY <1>8 DEF SendNext
  <2>3. req' = req
    BY <1>8 DEF SendNext
  <2> DEFINE j == [i EXCEPT !.to = @ \ {d}]  s == IF i.to = {d} THEN Rest(c) ELSE << j >> \o Rest(c)
  <2>4. i = [do |-> "broadcast", to |-> i.to, msg |-> i.msg] /\ i.to \in SUBSET Conns /\ i.msg \in Messages \cup {Note}
    <3> HIDE DEF i
    <3> QED BY <2>1, InstructionIs
  <2>5. j \in Instructions
    <3> DEFINE to == i.to \ {d}  m == i.msg
    <3>1. to \in SUBSET Conns /\ m \in Messages \cup {Note}
      BY <2>4
    <3>2. j = Broadcast(to, m)
      <4>1. j = [i EXCEPT !.to = to]
        OBVIOUS
      <4> HIDE DEF j, i, to
      <4> QED BY <2>4, <4>1 DEF Broadcast
    <3> HIDE DEF to, m, j
    <3> QED BY <3>1, <3>2, InstructionsAre
  <2> HIDE DEF i, j
  <2>6. s \in Seq(Instructions)
    BY <2>1, <2>5, Scripts
  <2>7. todo' = [todo EXCEPT ![c] = s] /\ Deliver(d, i.msg)
    BY <2>2 DEF Sent, j
  <2> HIDE DEF s
  <2>8. todo' \in T
    BY <1>0, <2>6, <2>7, TodoTyped DEF T
  <2>9. inbox' \in B
    BY <1>0, <2>4, <2>7, DeliverTyped DEF B
  <2> QED BY <1>01, <1>02, <2>3, <2>8, <2>9
<1>9. ASSUME NEW c \in Conns, BeginBroadcast(c) PROVE QueueTypes'
  <2> DEFINE i == Head(todo[c])  rev == IF i.doc = "live" THEN Len(doc.log) ELSE i.rev
             notes == BroadcastTo(Editors(i.skip) \cap Slow, Note)
             ops == BroadcastTo(Editors({UserOf[c]}), RemoteOp(i.op, rev))
  <2>1. Runs(c, (IF i.do = "tell" THEN notes ELSE ops) \o Rest(c)) /\ UNCHANGED <<req, inbox>>
    BY <1>9 DEF BeginBroadcast
  <2>2. /\ i \in Instructions /\ (i.do = "tell" \/ i.do = "op") /\ Rest(c) \in Seq(Instructions) /\ todo[c] # << >>
        /\ todo[c] \in Seq(Instructions)
    BY <1>0, <1>9, RunningIs DEF BeginBroadcast
  <2>3. notes \o Rest(c) \in Seq(Instructions)
    <3> DEFINE to == Editors(i.skip) \cap Slow
    <3>1. to \in SUBSET Conns
      BY <1>0, EditorsAre
    <3> HIDE DEF to
    <3> QED BY <2>2, <3>1, BroadcastTyped DEF to
  <2>4. i.do = "op" => ops \o Rest(c) \in Seq(Instructions)
    <3> SUFFICES ASSUME i.do = "op" PROVE ops \o Rest(c) \in Seq(Instructions)
      OBVIOUS
    <3> DEFINE to == Editors({UserOf[c]})  m == RemoteOp(i.op, rev)
    <3>1. to \in SUBSET Conns
      BY <1>0, EditorsAre
    <3>2. i.op \in Made /\ i.rev \in Nat
      <4> HIDE DEF i
      <4> QED BY <2>2, InstructionIs
    <3>3. i.doc = "live" => doc \in Documents
      <4>1. 1 \in DOMAIN todo[c] /\ i = todo[c][1]
        <5> HIDE DEF Instructions
        <5> QED BY <2>2
      <4> QED BY <4>1 DEF Types, Detachable
    <3>4. rev \in Nat
      <4>1. doc \in Documents => Len(doc.log) \in Nat
        <5>1. doc \in Documents => doc.log \in Seq(Made)
          BY DEF Documents
        <5> HIDE DEF Made
        <5> QED BY <5>1
      <4> QED BY <3>2, <3>3, <4>1
    <3>5. m \in Messages
      BY <3>2, <3>4, MessagesAre
    <3> HIDE DEF to, m
    <3> QED BY <2>2, <3>1, <3>5, BroadcastTyped DEF to, m
  <2> DEFINE s == (IF i.do = "tell" THEN notes ELSE ops) \o Rest(c)
  <2>5. s \in Seq(Instructions)
    BY <2>2, <2>3, <2>4
  <2>6. todo' = [todo EXCEPT ![c] = s]
    BY <2>1 DEF Runs
  <2> HIDE DEF s
  <2>7. todo' \in T
    BY <1>0, <2>5, <2>6, TodoTyped DEF T
  <2> QED BY <1>01, <1>02, <2>1, <2>7
<1>10. ASSUME NEW c \in Conns, CheckAutoSnapshot(c) PROVE QueueTypes'
  <2>1. Rest(c) \in Seq(Instructions)
    BY <1>0, <1>10, RunningIs DEF CheckAutoSnapshot
  <2>2. UNCHANGED <<req, inbox>> /\ (Runs(c, << TellAll >> \o Rest(c)) \/ Runs(c, Rest(c)))
    BY <1>10 DEF CheckAutoSnapshot
  <2>3. << TellAll >> \o Rest(c) \in Seq(Instructions)
    BY <2>1, InstructionsAre, Scripts
  <2>4. todo' \in T
    BY <1>0, <2>1, <2>2, <2>3, TodoTyped DEF Runs, T
  <2> QED BY <1>01, <1>02, <2>2, <2>4
<1>11. ASSUME NEW c \in Conns, CheckUnload(c) PROVE QueueTypes'
  <2>1. Rest(c) \in Seq(Instructions)
    BY <1>0, <1>11, RunningIs DEF CheckUnload
  <2>2. UNCHANGED <<req, inbox>>
    BY <1>11 DEF CheckUnload
  <2>3. ASSUME NEW d \in Conns, NEW k \in DOMAIN todo[d] PROVE Detached(todo[d][k]) \in Instructions
    <3>1. todo[d][k] \in Instructions
      <4>1. todo[d] \in Seq(Instructions)
        BY <1>0 DEF QueueTypes
      <4> HIDE DEF Instructions
      <4> QED BY <4>1
    <3>2. todo[d][k].do \in {"op", "autosnap"} /\ todo[d][k].doc = "live" => doc \in Documents
      BY DEF Types, Detachable
    <3> QED BY <3>1, <3>2, DetachedTyped
  <2> DEFINE f(d) == [k \in DOMAIN todo[d] |-> Detached(todo[d][k])]
  <2>4. ASSUME NEW d \in Conns PROVE f(d) \in Seq(Instructions)
    <3> DEFINE g == f(d)
    <3>1. DOMAIN todo[d] = 1 .. Len(todo[d]) /\ Len(todo[d]) \in Nat
      <4>1. todo[d] \in Seq(Instructions)
        BY <1>0 DEF QueueTypes
      <4> HIDE DEF Instructions
      <4> QED BY <4>1
    <3>2. g = [k \in 1 .. Len(todo[d]) |-> g[k]]
      BY <3>1
    <3>3. ASSUME NEW k \in 1 .. Len(todo[d]) PROVE g[k] \in Instructions
      <4>1. Detached(todo[d][k]) \in Instructions
        BY <2>3, <3>1
      <4> QED BY <3>1, <4>1
    <3> DEFINE n == Len(todo[d])  I == Instructions
    <3>4. n \in Nat /\ g = [k \in 1 .. n |-> g[k]] /\ \A k \in 1 .. n : g[k] \in I
      BY <3>1, <3>2, <3>3
    <3> HIDE DEF g, n, I
    <3>5. g \in Seq(I)
      BY <3>4
    <3> QED BY <3>5 DEF g, I
  <2>5. todo' \in T
    <3>1. \/ todo' = [d \in Conns |-> IF d = c THEN Rest(c) ELSE f(d)]
          \/ todo' = [todo EXCEPT ![c] = Rest(c)]
      BY <1>11 DEF CheckUnload
    <3>2. CASE todo' = [todo EXCEPT ![c] = Rest(c)]
      BY <1>0, <2>1, <3>2, TodoTyped DEF T
    <3>3. CASE todo' = [d \in Conns |-> IF d = c THEN Rest(c) ELSE f(d)]
      <4> HIDE DEF f
      <4> QED BY <2>1, <2>4, <3>3 DEF T
    <3> QED BY <3>1, <3>2, <3>3
  <2> QED BY <1>01, <1>02, <2>2, <2>5
<1>12. CASE Crash
  <2>1. todo' = [c \in Conns |-> << >>] /\ req' = [c \in Conns |-> << >>] /\ inbox' = [c \in Conns |-> << >>]
    BY <1>12 DEF Crash
  <2>2. << >> \in Seq(Instructions) /\ << >> \in Seq(Requests) /\ << >> \in Seq(Messages)
    OBVIOUS
  <2> QED BY <1>02, <2>1, <2>2 DEF T, R, B
<1>13. ASSUME NEW c \in Conns, NEW m \in Requests, ClientSends(c, m) PROVE QueueTypes'
  <2>1. UNCHANGED <<todo, inbox>> /\ req' = [req EXCEPT ![c] = Append(@, m)]
    BY <1>13 DEF ClientSends
  <2> DEFINE s == Append(req[c], m)  S == Seq(Requests)
  <2>2. s \in S /\ req \in [Conns -> S]
    <3>1. req[c] \in Seq(Requests)
      BY <1>0 DEF QueueTypes
    <3> HIDE DEF Requests
    <3> QED BY <1>0, <3>1 DEF QueueTypes
  <2>3. req' = [req EXCEPT ![c] = s]
    BY <2>1
  <2> HIDE DEF s, S
  <2>4. req' \in [Conns -> S]
    BY <2>2, <2>3
  <2> QED BY <1>01, <1>02, <2>1, <2>4 DEF S, R
<1>14. ASSUME NEW c \in Conns, ClientJoins(c) \/ ClientSaves(c) \/ ClientCreates(c) PROVE QueueTypes'
  <2>1. PICK t \in {"join", "save", "create"} : ClientSends(c, [type |-> t])
    BY <1>14 DEF ClientJoins, ClientSaves, ClientCreates
  <2>2. [type |-> t] \in Requests
    BY DEF Requests
  <2> QED BY <1>13, <2>1, <2>2
<1>15. ASSUME NEW c \in Conns, ClientEdits(c) PROVE QueueTypes'
  <2>1. PICK op \in ClientOps(c) : ClientSends(c, [type |-> "edit", op |-> op, rev |-> client[c].rev, seen |-> client[c].text])
    BY <1>15 DEF ClientEdits
  <2>2. client[c].text \in Texts /\ client[c].rev \in Nat
    BY <1>15 DEF ClientEdits, Types, ClientTypes, Clients
  <2>3. used.edits \in Nat
    BY DEF Types, CounterTypes
  <2>4. op \in Made
    BY <2>2, <2>3, ClientOpsMade
  <2> DEFINE m == [type |-> "edit", op |-> op, rev |-> client[c].rev, seen |-> client[c].text]
  <2>5. m \in Requests
    BY <2>2, <2>4 DEF Requests
  <2> HIDE DEF m
  <2> QED BY <1>13, <2>1, <2>5 DEF m
<1>16. ASSUME NEW c \in Conns, ClientMovesCursor(c) PROVE QueueTypes'
  <2>1. PICK p \in 0 .. Len(client[c].text) : ClientSends(c, [type |-> "cursor", position |-> p])
    BY <1>16 DEF ClientMovesCursor
  <2>2. client[c].text \in Seq(Nat)
    BY <1>16 DEF ClientMovesCursor, Types, ClientTypes, Clients, Texts
  <2>3. p \in Nat
    BY <2>1, <2>2
  <2>4. [type |-> "cursor", position |-> p] \in Requests
    BY <2>3 DEF Requests
  <2> QED BY <1>13, <2>1, <2>4
<1>17. ASSUME NEW c \in Conns, ClientRestores(c) PROVE QueueTypes'
  <2>1. PICK v \in DOMAIN db.snaps : ClientSends(c, [type |-> "restore", version |-> v])
    BY <1>17 DEF ClientRestores
  <2>2. v \in Nat
    BY <1>0 DEF HistoryOK, Numbered
  <2>3. [type |-> "restore", version |-> v] \in Requests
    BY <2>2 DEF Requests
  <2> QED BY <1>13, <2>1, <2>3
<1>18. ASSUME NEW c \in Conns, NEW s \in Seq(Messages), inbox' = [inbox EXCEPT ![c] = s], UNCHANGED <<req, todo>>
       PROVE  QueueTypes'
  <2> DEFINE S == Seq(Messages)
  <2>1. inbox \in [Conns -> S] /\ s \in S
    BY <1>0, <1>18 DEF QueueTypes
  <2> HIDE DEF S
  <2>2. inbox' \in [Conns -> S]
    BY <1>18, <2>1
  <2> QED BY <1>01, <1>02, <1>18, <2>2 DEF S, B
<1>19. ASSUME NEW c \in Conns, ClientReceives(c) PROVE QueueTypes'
  <2>1. inbox[c] # << >> /\ inbox' = [inbox EXCEPT ![c] = Tail(@)] /\ UNCHANGED <<req, todo>>
    BY <1>19 DEF ClientReceives
  <2>2. Tail(inbox[c]) \in Seq(Messages)
    <3>1. inbox[c] \in Seq(Messages)
      BY <1>0 DEF QueueTypes
    <3> QED BY <2>1, <3>1, HeadTyped
  <2>3. inbox' = [inbox EXCEPT ![c] = Tail(inbox[c])]
    BY <2>1
  <2> QED BY <1>18, <2>1, <2>2, <2>3
<1>20. ASSUME NEW c \in Conns, ClientCloses(c) PROVE QueueTypes'
  <2>1. inbox' = [inbox EXCEPT ![c] = << >>] /\ UNCHANGED <<req, todo>>
    BY <1>20 DEF ClientCloses
  <2>2. << >> \in Seq(Messages)
    OBVIOUS
  <2> QED BY <1>18, <2>1, <2>2
<1>21. ASSUME UNCHANGED <<todo, req, inbox>> PROVE QueueTypes'
  BY <1>01, <1>02, <1>21
<1>22. ASSUME NEW c \in Conns, Connect(c) PROVE QueueTypes'
  BY <1>21, <1>22 DEF Connect
<1>23. CASE Restart
  BY <1>21, <1>23 DEF Restart
<1>24. CASE UNCHANGED vars
  BY <1>21, <1>24 DEF vars
<1> QED
  BY <1>2, <1>3, <1>4, <1>5, <1>6, <1>7, <1>8, <1>9, <1>10, <1>11, <1>12, <1>14, <1>15, <1>16, <1>17, <1>19, <1>20,
     <1>22, <1>23, <1>24 DEF Next, Handle, Step, ClientActs

\* The counters count.
LEMMA SpendTyped ==
  ASSUME CounterTypes, NEW what \in {"edits", "saves", "restores", "cursors", "closes", "crashes"}, NEW bound,
         Spend(what, bound)
  PROVE  CounterTypes' /\ used[what] < bound /\ used'[what] = used[what] + 1
         /\ \A x \in {"edits", "saves", "restores", "cursors", "closes", "crashes"} : x # what => used'[x] = used[x]
<1>1. used' = [used EXCEPT ![what] = used[what] + 1, !.total = used.total + 1] /\ used[what] < bound
  BY DEF Spend
<1> DEFINE K == {"edits", "saves", "restores", "cursors", "closes", "crashes", "total"}
<1>2. used \in [K -> Nat]
  BY DEF CounterTypes
<1>3. what \in K /\ what # "total" /\ "total" \in K
  OBVIOUS
<1>4. used' \in [K -> Nat]
  <2> HIDE DEF K
  <2>1. used[what] + 1 \in Nat /\ used["total"] + 1 \in Nat
    BY <1>2, <1>3
  <2> DEFINE a == used[what] + 1  b == used["total"] + 1
  <2>2. used' = [[used EXCEPT ![what] = a] EXCEPT !["total"] = b] /\ a \in Nat /\ b \in Nat
    BY <1>1, <2>1
  <2> HIDE DEF a, b
  <2> QED BY <1>2, <1>3, <2>2
<1>5. CounterTypes'
  BY <1>4 DEF CounterTypes
<1>6. used'[what] = used[what] + 1
  BY <1>1, <1>2, <1>3
<1>7. ASSUME NEW x \in {"edits", "saves", "restores", "cursors", "closes", "crashes"}, x # what PROVE used'[x] = used[x]
  <2>1. x \in K /\ x # "total"
    BY <1>7
  <2> QED BY <1>1, <1>2, <1>7, <2>1
<1> QED BY <1>1, <1>5, <1>6, <1>7

\* Every step keeps the counters numbers.
LEMMA CounterStep == Types /\ [Next]_vars => CounterTypes'
<1> SUFFICES ASSUME Types, [Next]_vars PROVE CounterTypes'
  OBVIOUS
<1>0. CounterTypes
  BY DEF Types
<1>1. ASSUME used' = used PROVE CounterTypes'
  BY <1>0, <1>1 DEF CounterTypes
<1>2. ASSUME NEW c \in Conns, Handle(c) PROVE used' = used
  BY <1>2 DEF Handle, HandleJoin, HandleEdit, HandleCursorUpdate, HandleSaveSnapshot, HandleRestoreVersion,
              HandleCreateDoc, HandleDisconnect
<1>3. ASSUME NEW c \in Conns, Step(c) \/ Connect(c) \/ ClientReceives(c) PROVE used' = used
  BY <1>3 DEF Step, SendReply, SendNext, BeginBroadcast, CheckAutoSnapshot, CheckUnload, Connect, ClientReceives
<1>4. ASSUME NEW c \in Conns, ClientActs(c) PROVE CounterTypes'
  <2>1. \/ used' = used \/ Spend("edits", MaxEdits) \/ Spend("cursors", MaxCursors) \/ Spend("saves", MaxSaves)
        \/ Spend("restores", MaxRestores) \/ Spend("closes", MaxCloses)
    BY <1>4 DEF ClientActs, ClientJoins, ClientEdits, ClientMovesCursor, ClientSaves, ClientRestores, ClientCreates,
                ClientCloses
  <2> QED BY <1>0, <1>1, <2>1, SpendTyped
<1>5. CASE Crash
  BY <1>0, <1>5, SpendTyped DEF Crash
<1>6. CASE Restart
  BY <1>1, <1>6 DEF Restart
<1>7. CASE UNCHANGED vars
  BY <1>1, <1>7 DEF vars
<1> QED BY <1>1, <1>2, <1>3, <1>4, <1>5, <1>6, <1>7 DEF Next

\* What a client makes of a message.
LEMMA ReceiptIs ==
  ASSUME Types, NEW c \in Conns, ClientReceives(c)
  PROVE  LET m == Head(inbox[c])
             k == client[c]
         IN  /\ m \in Messages /\ inbox[c] # << >> /\ link[c] = "open" /\ k \in Clients
             /\ inbox' = [inbox EXCEPT ![c] = Tail(@)]
             /\ NeedsText(m) => k.text \in Texts
             /\ \E n \in Clients :
                  /\ client' = [client EXCEPT ![c] = n]
                  /\ m.type = "doc_state" => n = [text |-> m.text, rev |-> m.rev, seen |-> m.rev,
                                                  waiting |-> k.waiting /\ k.text # NoText]
                  /\ m.type = "ack" => n = [text |-> ApplyOperations(k.text, m.ops), rev |-> m.rev,
                                            seen |-> k.seen + Len(m.ops), waiting |-> FALSE]
                  /\ m.type = "remote_op" => n = [text |-> ApplyOperation(k.text, m.op), rev |-> m.rev,
                                                  seen |-> k.seen + 1, waiting |-> k.waiting]
                  /\ m.type = "error" => n = [text |-> k.text, rev |-> k.rev, seen |-> k.seen, waiting |-> FALSE]
                  /\ m.type # "error" => n.text \in Texts
<1> DEFINE m == Head(inbox[c])  k == client[c]
<1>1. inbox[c] \in Seq(Messages) /\ inbox[c] # << >>
  BY DEF Types, QueueTypes, ClientReceives
<1>2. m \in Messages /\ 1 \in DOMAIN inbox[c] /\ m = inbox[c][1] /\ \A j \in DOMAIN inbox[c] : ~(j < 1)
  <2> HIDE DEF Messages
  <2> QED BY <1>1
<1>3. link[c] = "open"
  BY <1>1 DEF Types, Greeted
<1>4. NeedsText(m) => k.text \in Texts
  <2>1. InboxReadable(c)
    BY <1>3 DEF Types, Greeted
  <2> QED BY <1>2, <2>1 DEF InboxReadable
<1>5. k \in Clients
  BY DEF Types, ClientTypes
<1>6. k = [text |-> k.text, rev |-> k.rev, seen |-> k.seen, waiting |-> k.waiting]
      /\ k.text \in Texts \cup {NoText} /\ k.rev \in Nat /\ k.seen \in Nat /\ k.waiting \in BOOLEAN
  BY <1>5 DEF Clients
<1>7. inbox' = [inbox EXCEPT ![c] = Tail(@)]
  BY DEF ClientReceives
<1> DEFINE P(n) ==
             /\ client' = [client EXCEPT ![c] = n]
             /\ m.type = "doc_state" => n = [text |-> m.text, rev |-> m.rev, seen |-> m.rev,
                                             waiting |-> k.waiting /\ k.text # NoText]
             /\ m.type = "ack" => n = [text |-> ApplyOperations(k.text, m.ops), rev |-> m.rev,
                                       seen |-> k.seen + Len(m.ops), waiting |-> FALSE]
             /\ m.type = "remote_op" => n = [text |-> ApplyOperation(k.text, m.op), rev |-> m.rev,
                                             seen |-> k.seen + 1, waiting |-> k.waiting]
             /\ m.type = "error" => n = [text |-> k.text, rev |-> k.rev, seen |-> k.seen, waiting |-> FALSE]
             /\ m.type # "error" => n.text \in Texts
<1>8. ASSUME m.type = "doc_state" PROVE \E x \in Clients : P(x)
  <2> DEFINE n == [text |-> m.text, rev |-> m.rev, seen |-> m.rev, waiting |-> k.waiting /\ k.text # NoText]
  <2>1. client' = [client EXCEPT ![c] = n]
    BY <1>8 DEF ClientReceives
  <2>2. m.text \in Texts /\ m.rev \in Nat
    BY <1>2, <1>8, MessageIs
  <2>3. n \in Clients
    BY <1>6, <2>2 DEF Clients
  <2>4. P(n)
    BY <1>8, <2>1, <2>2
  <2> HIDE DEF n, P, m
  <2> QED BY <2>3, <2>4
<1>9. ASSUME m.type = "ack" PROVE \E x \in Clients : P(x)
  <2> DEFINE n == [text |-> ApplyOperations(k.text, m.ops), rev |-> m.rev, seen |-> k.seen + Len(m.ops), waiting |-> FALSE]
  <2>1. client' = [client EXCEPT ![c] = n]
    BY <1>9 DEF ClientReceives
  <2>2. m.ops \in Seq(Made) /\ m.rev \in Nat /\ k.text \in Texts
    BY <1>2, <1>4, <1>9, MessageIs DEF NeedsText
  <2>3. ApplyOperations(k.text, m.ops) \in Texts
    BY <2>2, AppliedTexts, MadeAreOps DEF Texts
  <2>4. Len(m.ops) \in Nat
    <3> HIDE DEF m, Made
    <3> QED BY <2>2
  <2>5. n \in Clients
    BY <1>6, <2>2, <2>3, <2>4 DEF Clients
  <2>6. P(n)
    BY <1>9, <2>1, <2>3
  <2> HIDE DEF n, P, m
  <2> QED BY <2>5, <2>6
<1>10. ASSUME m.type = "remote_op" PROVE \E x \in Clients : P(x)
  <2> DEFINE t == ApplyOperation(k.text, m.op)  r == m.rev  x == [k EXCEPT !.text = t, !.rev = r, !.seen = k.seen + 1]
             n == [text |-> t, rev |-> r, seen |-> k.seen + 1, waiting |-> k.waiting]
  <2>1. client' = [client EXCEPT ![c] = x]
    BY <1>10 DEF ClientReceives
  <2>2. m.op \in Made /\ r \in Nat /\ k.text \in Texts
    BY <1>2, <1>4, <1>10, MessageIs DEF NeedsText
  <2>3. t \in Texts
    <3>1. m.op \in Operations(Nat, Users)
      BY <2>2 DEF Made, Ops
    <3> QED BY <2>2, <3>1, AppliedText DEF Texts
  <2>4. x = [k EXCEPT !.text = t, !.rev = r, !.seen = k.seen + 1]
    OBVIOUS
  <2> HIDE DEF x, t, r, m
  <2>5. x = n
    <3> HIDE DEF k
    <3> QED BY <1>6, <2>4
  <2>6. n \in Clients /\ n.text \in Texts
    BY <1>6, <2>2, <2>3 DEF Clients
  <2>7. P(n)
    BY <1>10, <2>1, <2>5, <2>6 DEF m, t, r
  <2> HIDE DEF n, P, m
  <2> QED BY <2>6, <2>7
<1>11. ASSUME m.type = "error" PROVE \E x \in Clients : P(x)
  <2> DEFINE x == [k EXCEPT !.waiting = FALSE]
             n == [text |-> k.text, rev |-> k.rev, seen |-> k.seen, waiting |-> FALSE]
  <2>1. client' = [client EXCEPT ![c] = x]
    BY <1>11 DEF ClientReceives
  <2>2. x = [k EXCEPT !.waiting = FALSE]
    OBVIOUS
  <2> HIDE DEF x
  <2>3. x = n
    <3> HIDE DEF k
    <3> QED BY <1>6, <2>2
  <2>4. n \in Clients
    BY <1>6 DEF Clients
  <2>5. P(n)
    BY <1>11, <2>1, <2>3
  <2> HIDE DEF n, P, m
  <2> QED BY <2>4, <2>5
<1>12. m.type \in {"error", "doc_state", "ack", "remote_op"}
  BY <1>2, MessageIs
<1> HIDE DEF P
<1>13. \E x \in Clients : P(x)
  BY <1>8, <1>9, <1>10, <1>11, <1>12
<1> QED BY <1>1, <1>2, <1>3, <1>4, <1>5, <1>7, <1>13 DEF P

\* Every step keeps the clients' types: the ACK and the operation a client applies
\* find a text.
LEMMA ClientStep == Types /\ [Next]_vars => ClientTypes'
<1> SUFFICES ASSUME Types, [Next]_vars PROVE ClientTypes'
  OBVIOUS
<1>0. client \in [Conns -> Clients]
  BY DEF Types, ClientTypes
<1>1. ASSUME client' = client PROVE ClientTypes'
  BY <1>0, <1>1 DEF ClientTypes
<1>2. ASSUME NEW c \in Conns, Handle(c) PROVE client' = client
  BY <1>2 DEF Handle, HandleJoin, HandleEdit, HandleCursorUpdate, HandleSaveSnapshot, HandleRestoreVersion,
              HandleCreateDoc, HandleDisconnect
<1>3. ASSUME NEW c \in Conns, Step(c) \/ Connect(c) PROVE client' = client
  BY <1>3 DEF Step, SendReply, SendNext, BeginBroadcast, CheckAutoSnapshot, CheckUnload, Connect
<1>4. ASSUME NEW c \in Conns, ClientReceives(c) PROVE ClientTypes'
  <2>1. \E n \in Clients : client' = [client EXCEPT ![c] = n]
    BY <1>4, ReceiptIs
  <2>2. client' \in [Conns -> Clients]
    <3> HIDE DEF Clients
    <3> QED BY <1>0, <2>1
  <2> QED BY <2>2 DEF ClientTypes
<1>5. ASSUME NEW k \in Clients, NEW b \in BOOLEAN PROVE [k EXCEPT !.waiting = b] \in Clients
  <2>1. k = [text |-> k.text, rev |-> k.rev, seen |-> k.seen, waiting |-> k.waiting]
        /\ k.text \in Texts \cup {NoText} /\ k.rev \in Nat /\ k.seen \in Nat
    BY DEF Clients
  <2>2. [k EXCEPT !.waiting = b] = [text |-> k.text, rev |-> k.rev, seen |-> k.seen, waiting |-> b]
    BY <2>1
  <2> QED BY <2>1, <2>2 DEF Clients
<1>6. ASSUME NEW c \in Conns, ClientActs(c) PROVE ClientTypes'
  <2>1. client' = client \/ \E b \in BOOLEAN : client' = [client EXCEPT ![c] = [client[c] EXCEPT !.waiting = b]]
    BY <1>6, <1>0 DEF ClientActs, ClientJoins, ClientEdits, ClientMovesCursor, ClientSaves, ClientRestores, ClientCreates,
                ClientCloses, Waits
  <2>2. ASSUME NEW b \in BOOLEAN, client' = [client EXCEPT ![c] = [client[c] EXCEPT !.waiting = b]] PROVE ClientTypes'
    <3> DEFINE n == [client[c] EXCEPT !.waiting = b]
    <3>1. n \in Clients
      BY <1>0, <1>5
    <3>2. client' = [client EXCEPT ![c] = n]
      BY <2>2
    <3> HIDE DEF n, Clients
    <3> QED BY <1>0, <3>1, <3>2 DEF ClientTypes
  <2> QED BY <1>1, <2>1, <2>2
<1>7. CASE Crash
  <2>1. client' = [c \in Conns |-> [client[c] EXCEPT !.waiting = FALSE]]
    BY <1>7 DEF Crash
  <2>2. \A c \in Conns : [client[c] EXCEPT !.waiting = FALSE] \in Clients
    BY <1>0, <1>5
  <2> HIDE DEF Clients
  <2> QED BY <2>1, <2>2 DEF ClientTypes
<1>8. CASE Restart
  BY <1>1, <1>8 DEF Restart
<1>9. CASE UNCHANGED vars
  BY <1>1, <1>9 DEF vars
<1> QED BY <1>1, <1>2, <1>3, <1>4, <1>6, <1>7, <1>8, <1>9 DEF Next

-----------------------------------------------------------------------------
(* What an unload finds in the scripts of suspended handlers.              *)

\* Once there is a document, a handler keeps it unless it unloads it.
LEMMA DocumentStays ==
  ASSUME Types, NEW c \in Conns, Handle(c) \/ (Step(c) /\ ~ CheckUnload(c)), doc \in Documents
  PROVE  doc' \in Documents
<1>0. RowTypes(db) /\ HistoryOK(db) /\ MemoryTypes
  BY DEF Types, Versions
<1>1. CASE doc' = doc
  BY <1>1
<1>2. CASE HandleJoin(c)
  <2>1. doc' = doc \/ doc' = LoadDocument
    BY <1>2 DEF HandleJoin
  <2> QED BY <1>0, <2>1, LoadedTyped
<1>3. CASE HandleEdit(c)
  <2> DEFINE ops == Applied(Head(req[c]))
  <2>1. \/ doc' = doc
        \/ Loaded /\ doc' = [doc EXCEPT !.text = ApplyOperations(@, ops), !.log = doc.log \o ops, !.pending = @ + Len(ops)]
    BY <1>3 DEF HandleEdit
  <2>2. Loaded => ops \in Seq(Made)
    BY <1>3, EditIs
  <2> HIDE DEF ops
  <2> QED BY <2>1, <2>2, EditedTyped
<1>4. CASE HandleSaveSnapshot(c) \/ CheckAutoSnapshot(c)
  <2>1. doc' = doc \/ CreateSnapshot(doc)
    BY <1>4 DEF HandleSaveSnapshot, CheckAutoSnapshot
  <2> QED BY <1>0, <2>1, CreateSnapshotTypes
<1>5. CASE HandleRestoreVersion(c)
  <2>1. doc' = doc \/ \E v \in DOMAIN db.snaps : CreateSnapshot(Restored(v))
    BY <1>5 DEF HandleRestoreVersion
  <2>2. ASSUME NEW v \in DOMAIN db.snaps, CreateSnapshot(Restored(v)) PROVE doc' \in Documents
    <3> DEFINE m == Restored(v)
    <3>1. m \in Documents /\ CreateSnapshot(m)
      BY <1>0, <2>2, LoadedTyped
    <3> HIDE DEF m
    <3> QED BY <1>0, <3>1, CreateSnapshotTypes
  <2> QED BY <2>1, <2>2
<1>6. CASE HandleCursorUpdate(c) \/ HandleCreateDoc(c) \/ HandleDisconnect(c) \/ SendReply(c) \/ SendNext(c) \/ BeginBroadcast(c)
  <2>1. doc' = doc
    BY <1>6 DEF HandleCursorUpdate, HandleCreateDoc, HandleDisconnect, SendReply, SendNext, BeginBroadcast
  <2> QED BY <2>1
<1> QED BY <1>2, <1>3, <1>4, <1>5, <1>6 DEF Handle, Step

\* An instruction that a handler may schedule: it reads the document only if
\* there is one, acknowledges only what a client with a text sent, and sends
\* only to connections of the session that have been greeted, or that another
\* of its instructions lists; an unload asks the session there is.
Fresh(c, i) ==
  /\ i.do \in {"op", "autosnap"} => doc \in Documents
  /\ i.do = "reply" /\ NeedsText(i.msg) /\ link[c] = "open" => client[c].text \in Texts
  /\ i.do = "broadcast" => \A d \in i.to : Listed(d) \/ (InSession(d) /\ ~ Joining(d))
  /\ i.do = "unload" => i.session = "live"

\* What a handler has to do after a step of its own: what it had, or fresh
\* instructions; the check for an empty session is still the last.
Scheduled(c, s) ==
  /\ s \in Seq(Instructions)
  /\ \A k \in DOMAIN s : Fresh(c, s[k]) \/ \E j \in DOMAIN todo[c] : s[k] = todo[c][j]
  /\ \A k \in DOMAIN s : s[k].do = "unload" => k = Len(s)

\* Fresh instructions, none an unload, are in order.
LEMMA ScheduledPlain ==
  ASSUME NEW c, NEW s \in Seq(Instructions), \A k \in DOMAIN s : Fresh(c, s[k]) /\ s[k].do # "unload"
  PROVE  Scheduled(c, s)
BY DEF Scheduled

\* The rest of what a handler had to do, after fresh instructions.
LEMMA ScheduledRest ==
  ASSUME Types, NEW c \in Conns, todo[c] # << >>, NEW t \in Seq(Instructions),
         \A k \in DOMAIN t : Fresh(c, t[k]) /\ t[k].do # "unload"
  PROVE  Scheduled(c, t \o Rest(c))
<1> DEFINE I == Instructions  r == Rest(c)  s == t \o r  all == todo[c]  n == Len(t)  m == Len(r)
<1>1. all \in Seq(I) /\ t \in Seq(I) /\ all # << >> /\ r = Tail(all)
  BY DEF Types, QueueTypes, Rest
<1>2. \A j \in DOMAIN all : all[j].do = "unload" => j = Len(all)
  BY DEF Types, Detachable
<1>3. \A k \in DOMAIN t : Fresh(c, t[k]) /\ t[k].do # "unload"
  OBVIOUS
<1> HIDE DEF I, r, all, n, m
<1>4. r \in Seq(I) /\ n \in Nat /\ m \in Nat /\ n = Len(t) /\ m = Len(r) /\ DOMAIN t = 1 .. n /\ DOMAIN r = 1 .. m
      /\ Len(all) = m + 1 /\ \A k \in 1 .. m : r[k] = all[k + 1] /\ k + 1 \in DOMAIN all
  BY <1>1 DEF n, m
<1>5. s \in Seq(I) /\ Len(s) = n + m /\ DOMAIN s = 1 .. n + m
      /\ \A k \in 1 .. n + m : s[k] = IF k <= n THEN t[k] ELSE r[k - n]
  BY <1>1, <1>4
<1>6. ASSUME NEW k \in DOMAIN s
      PROVE  /\ Fresh(c, s[k]) \/ \E j \in DOMAIN all : s[k] = all[j]
             /\ s[k].do = "unload" => k = Len(s)
  <2> HIDE DEF s
  <2>1. CASE k <= n
    <3>1. s[k] = t[k] /\ k \in DOMAIN t
      BY <1>4, <1>5, <2>1
    <3> QED BY <1>3, <3>1
  <2>2. CASE ~(k <= n)
    <3>0. k \in 1 .. n + m /\ n \in Nat /\ m \in Nat /\ s[k] = r[k - n]
      BY <1>4, <1>5, <2>2
    <3>1. k - n \in 1 .. m /\ s[k] = r[k - n]
      BY <2>2, <3>0
    <3> DEFINE j == k - n + 1
    <3>2. s[k] = all[j] /\ j \in DOMAIN all
      BY <1>4, <3>1
    <3>3. j = Len(all) => k = Len(s)
      BY <1>4, <1>5, <3>1
    <3> HIDE DEF j
    <3> QED BY <1>2, <3>2, <3>3
  <2> QED BY <2>1, <2>2
<1> HIDE DEF s
<1>7. Scheduled(c, s)
  BY <1>5, <1>6 DEF Scheduled, I, all
<1> QED BY <1>7 DEF s, r

\* Instructions that read nothing and send nothing which needs a text.
LEMMA FreshAre ==
  ASSUME NEW c
  PROVE  /\ Fresh(c, Reply(Error)) /\ Fresh(c, Reply(Note)) /\ Fresh(c, TellAll) /\ Fresh(c, Unload)
         /\ \A u : Fresh(c, TellOthers(u)) /\ TellOthers(u).do = "tell"
         /\ \A t, n : Fresh(c, Reply(DocState(t, n)))
         /\ \A m : Reply(m).do = "reply" /\ Reply(m).msg = m
         /\ \A to, m : Broadcast(to, m).do = "broadcast" /\ Broadcast(to, m).to = to /\ Broadcast(to, m).msg = m
         /\ \A op : SendOp(op).do = "op" /\ AutoSnapshot.do = "autosnap" /\ TellAll.do = "tell" /\ Unload.do = "unload"
<1>1. /\ \A u : TellOthers(u).do = "tell"
      /\ \A m : Reply(m).do = "reply" /\ Reply(m).msg = m
      /\ \A to, m : Broadcast(to, m).do = "broadcast" /\ Broadcast(to, m).to = to /\ Broadcast(to, m).msg = m
      /\ \A op : SendOp(op).do = "op" /\ AutoSnapshot.do = "autosnap" /\ TellAll.do = "tell" /\ Unload.do = "unload"
  BY DEF TellOthers, Reply, Broadcast, SendOp, AutoSnapshot, TellAll, Unload
<1>2. ~ NeedsText(Error) /\ ~ NeedsText(Note) /\ \A t, n : ~ NeedsText(DocState(t, n))
  BY DEF NeedsText, Error, Note, DocState
<1>3. \A m : ~ NeedsText(m) => Fresh(c, Reply(m))
  BY <1>1 DEF Fresh
<1>4. Fresh(c, TellAll) /\ Fresh(c, Unload) /\ \A u : Fresh(c, TellOthers(u))
  BY <1>1 DEF Fresh, Unload
<1> QED BY <1>1, <1>2, <1>3, <1>4

\* Scripts of one, two and three instructions.
LEMMA ShortScripts ==
  ASSUME NEW x, NEW y, NEW z
  PROVE  /\ DOMAIN << >> = {} /\ Len(<< >>) = 0
         /\ DOMAIN << x >> = {1} /\ << x >>[1] = x
         /\ DOMAIN << x, y >> = {1, 2} /\ << x, y >>[1] = x /\ << x, y >>[2] = y /\ Len(<< x, y >>) = 2
         /\ DOMAIN << x, y, z >> = {1, 2, 3} /\ << x, y, z >>[1] = x /\ << x, y, z >>[2] = y /\ << x, y, z >>[3] = z
OBVIOUS

\* No instruction, and one.
LEMMA ScheduledShort ==
  ASSUME NEW c
  PROVE  /\ Scheduled(c, << >>)
         /\ \A x \in Instructions : Fresh(c, x) /\ x.do # "unload" =>
              /\ << x >> \in Seq(Instructions) /\ Scheduled(c, << x >>)
              /\ \A k \in DOMAIN << x >> : Fresh(c, << x >>[k]) /\ << x >>[k].do # "unload"
<1>1. Scheduled(c, << >>)
  <2>1. << >> \in Seq(Instructions)
    OBVIOUS
  <2>2. DOMAIN << >> = {}
    OBVIOUS
  <2> QED BY <2>1, <2>2 DEF Scheduled
<1>2. ASSUME NEW x \in Instructions, Fresh(c, x), x.do # "unload"
      PROVE  /\ << x >> \in Seq(Instructions) /\ Scheduled(c, << x >>)
             /\ \A k \in DOMAIN << x >> : Fresh(c, << x >>[k]) /\ << x >>[k].do # "unload"
  <2> DEFINE s == << x >>
  <2>1. s \in Seq(Instructions) /\ \A k \in DOMAIN s : s[k] = x
    OBVIOUS
  <2> HIDE DEF s
  <2>2. Scheduled(c, s)
    BY <1>2, <2>1, ScheduledPlain
  <2> QED BY <1>2, <2>1, <2>2 DEF s
<1> QED BY <1>1, <1>2

\* While the loop is free, or another handler's next instruction is no reply,
\* no handler is about to greet.
LEMMA NobodyJoins ==
  ASSUME NEW c \in Conns, NEW d, DocAssumption,
         loop = Free \/ (loop \in {Free, c} /\ (todo[c] = << >> \/ Head(todo[c]).do # "reply"))
  PROVE  ~ Joining(d) \/ d \notin Conns
BY DEF Joining, DocAssumption

\* A broadcast to editors, while nobody is about to be greeted.
LEMMA ToEditors ==
  ASSUME SessionTypes, NEW c, NEW skip, NEW m \in Messages \cup {Note}, NEW to \in SUBSET Editors(skip),
         \A d \in Conns : ~ Joining(d)
  PROVE  /\ BroadcastTo(to, m) \in Seq(Instructions)
         /\ \A k \in DOMAIN BroadcastTo(to, m) :
              Fresh(c, BroadcastTo(to, m)[k]) /\ BroadcastTo(to, m)[k].do # "unload"
<1>1. to \in SUBSET Conns /\ \A d \in to : InSession(d)
  BY EditorsAre
<1>2. << >> \in Seq(Instructions)
  OBVIOUS
<1>3. BroadcastTo(to, m) \in Seq(Instructions)
  BY <1>1, <1>2, BroadcastTyped
<1>4. Fresh(c, Broadcast(to, m)) /\ Broadcast(to, m).do # "unload"
  BY <1>1, FreshAre DEF Fresh
<1>5. BroadcastTo(to, m) = << >> \/ BroadcastTo(to, m) = << Broadcast(to, m) >>
  BY DEF BroadcastTo
<1>6. \A k \in DOMAIN BroadcastTo(to, m) : BroadcastTo(to, m)[k] = Broadcast(to, m)
  <2> DEFINE b == Broadcast(to, m)  s == BroadcastTo(to, m)
  <2>1. s = << >> \/ s = << b >>
    BY <1>5
  <2> HIDE DEF b, s
  <2>2. \A k \in DOMAIN s : s[k] = b
    BY <2>1, ShortScripts
  <2> QED BY <2>2 DEF b, s
<1> QED BY <1>3, <1>4, <1>6

\* What the handler of an edit schedules.
LEMMA EditScheduled ==
  ASSUME Types, NEW c \in Conns, HandleEdit(c), Loaded, NEW n \in Nat
  PROVE  LET ops == Applied(Head(req[c]))
         IN  Scheduled(c, << Reply(Ack(ops, n)) >> \o [k \in DOMAIN ops |-> SendOp(ops[k])] \o << AutoSnapshot >>)
<1> DEFINE ops == Applied(Head(req[c]))
<1>1. doc \in Documents /\ ops \in Seq(Made)
  BY EditIs
<1>2. link[c] = "open" => client[c].text \in Texts
  <2>1. link[c] = "open" => Asked(c)
    BY DEF Types, Greeted
  <2>2. req[c] \in Seq(Requests) /\ req[c] # << >> /\ Head(req[c]).type = "edit"
    BY DEF Types, QueueTypes, HandleEdit, Takes
  <2>3. 1 \in DOMAIN req[c] /\ req[c][1].type = "edit"
    <3> HIDE DEF Requests
    <3> QED BY <2>2
  <2> QED BY <2>1, <2>3 DEF Asked
<1> HIDE DEF ops
<1> DEFINE r == Reply(Ack(ops, n))  sends == [k \in DOMAIN ops |-> SendOp(ops[k])]  a == AutoSnapshot
           s == << r >> \o sends \o << a >>
<1>3. s \in Seq(Instructions)
  BY <1>1, EditScript
<1>4. Fresh(c, r) /\ r.do # "unload"
  BY <1>2, FreshAre DEF Fresh
<1>5. Fresh(c, a) /\ a.do # "unload"
  BY <1>1, FreshAre DEF Fresh
<1>6. \A k \in DOMAIN ops : Fresh(c, sends[k]) /\ sends[k].do # "unload"
  BY <1>1, FreshAre DEF Fresh
<1>7. \A k \in DOMAIN s : s[k] = r \/ s[k] = a \/ \E j \in DOMAIN ops : s[k] = sends[j]
  <2>1. Len(ops) \in Nat /\ DOMAIN ops = 1 .. Len(ops)
    <3> HIDE DEF Made
    <3> QED BY <1>1
  <2> DEFINE m == Len(ops)
  <2>2. m \in Nat /\ DOMAIN ops = 1 .. m /\ sends = [k \in 1 .. m |-> sends[k]]
    BY <2>1
  <2> HIDE DEF m, sends, r, a
  <2>3. \A k \in DOMAIN (<< r >> \o sends \o << a >>) :
          LET x == (<< r >> \o sends \o << a >>)[k] IN x = r \/ x = a \/ \E j \in 1 .. m : x = sends[j]
    <3>0. Len(sends) = m /\ sends \in Seq({sends[j] : j \in 1 .. m})
      BY <2>2
    <3>1. << r >> \o sends \o << a >> \in Seq({sends[j] : j \in 1 .. m} \cup {r, a})
      <4> DEFINE S == {sends[j] : j \in 1 .. m} \cup {r, a}
      <4>1. << r >> \in Seq(S) /\ << a >> \in Seq(S) /\ sends \in Seq(S)
        BY <2>2
      <4> HIDE DEF S
      <4>2. << r >> \o sends \in Seq(S)
        BY <4>1
      <4> DEFINE u == << r >> \o sends  v == << a >>
      <4>3. u \in Seq(S) /\ v \in Seq(S)
        BY <4>1, <4>2
      <4> HIDE DEF u, v
      <4>4. u \o v \in Seq(S)
        BY <4>3
      <4> QED BY <4>4 DEF u, v, S
    <3> DEFINE S == {sends[j] : j \in 1 .. m} \cup {r, a}  t == << r >> \o sends \o << a >>
    <3>2. t \in Seq(S)
      BY <3>1
    <3> HIDE DEF S, t
    <3>3. \A k \in DOMAIN t : t[k] \in S
      BY <3>2
    <3> QED BY <3>3 DEF S, t
  <2> QED BY <2>2, <2>3
<1> HIDE DEF r, sends, a, s
<1>8. Scheduled(c, s)
  BY <1>3, <1>4, <1>5, <1>6, <1>7, ScheduledPlain
<1> QED BY <1>8 DEF s, r, sends, a, ops

\* What a handler schedules, except by the check for an empty session.
LEMMA ScriptIs ==
  ASSUME Types, NEW c \in Conns, Handle(c) \/ (Step(c) /\ ~ CheckUnload(c))
  PROVE  \E s : todo' = [todo EXCEPT ![c] = s] /\ Scheduled(c, s)
<1>0. QueueTypes /\ SessionTypes /\ RowTypes(db) /\ HistoryOK(db) /\ MemoryTypes
  BY DEF Types, Versions
<1>1. ASSUME NEW s, Runs(c, s), Scheduled(c, s) PROVE \E t : todo' = [todo EXCEPT ![c] = t] /\ Scheduled(c, t)
  BY <1>1 DEF Runs
<1>2. CASE HandleJoin(c) \/ HandleCursorUpdate(c) \/ HandleSaveSnapshot(c) \/ HandleCreateDoc(c) \/ HandleDisconnect(c)
  <2>0. ASSUME NEW x \in Instructions, NEW y \in Instructions, NEW z \in Instructions,
               Fresh(c, x), Fresh(c, y), Fresh(c, z), x.do # "unload", y.do # "unload"
        PROVE  /\ Scheduled(c, << >>) /\ Scheduled(c, << x >>) /\ Scheduled(c, << x, z >>)
               /\ z.do # "unload" => Scheduled(c, << x, y, z >>)
    <3>1. << x >> \in Seq(Instructions) /\ << x, z >> \in Seq(Instructions) /\ << x, y, z >> \in Seq(Instructions)
          /\ << >> \in Seq(Instructions)
      BY <2>0, Scripts
    <3>2. Scheduled(c, << >>)
      BY ScheduledShort
    <3>3. Scheduled(c, << x >>)
      BY <2>0, ScheduledShort
    <3>4. Scheduled(c, << x, z >>)
      BY <2>0, <3>1, ShortScripts DEF Scheduled
    <3>5. ASSUME z.do # "unload" PROVE Scheduled(c, << x, y, z >>)
      <4> DEFINE s == << x, y, z >>
      <4>1. s \in Seq(Instructions)
        BY <3>1
      <4>2. \A k \in DOMAIN s : s[k] \in {x, y, z}
        OBVIOUS
      <4> HIDE DEF s
      <4>3. Scheduled(c, s)
        BY <2>0, <3>5, <4>1, <4>2, ScheduledPlain
      <4> QED BY <4>3 DEF s
    <3> QED BY <3>2, <3>3, <3>4, <3>5
  <2>1. UserOf[c] \in Users
    BY DEF Users
  <2> DEFINE m == DocState(LoadDocument.text, Len(LoadDocument.log))  u == UserOf[c]
  <2>2. \/ Runs(c, << Reply(m), Reply(Note), TellOthers(u) >>) \/ Runs(c, << Reply(Error) >>)
        \/ Runs(c, << TellOthers(u) >>) \/ Runs(c, << Reply(Note) >>)
        \/ Runs(c, << TellAll, Unload >>) \/ Runs(c, << >>)
    BY <1>2 DEF HandleJoin, HandleCursorUpdate, HandleSaveSnapshot, HandleCreateDoc, HandleDisconnect
  <2>3. m \in Messages
    <3>1. LoadDocument \in Documents
      BY <1>0, LoadedTyped
    <3>2. LoadDocument.text \in Texts /\ LoadDocument.log \in Seq(Made)
      BY <3>1 DEF Documents
    <3>3. Len(LoadDocument.log) \in Nat
      <4> DEFINE l == LoadDocument.log
      <4> HIDE DEF Made, l
      <4> QED BY <3>2 DEF l
    <3> QED BY <3>2, <3>3, MessagesAre
  <2>4. Fresh(c, Reply(m))
    BY FreshAre
  <2> HIDE DEF m, u
  <2>5. /\ Reply(m) \in Instructions /\ Reply(Note) \in Instructions /\ TellOthers(u) \in Instructions
        /\ Reply(Error) \in Instructions /\ TellAll \in Instructions /\ Unload \in Instructions
    BY <2>1, <2>3, InstructionsAre, MessagesAre DEF u
  <2>6. /\ Scheduled(c, << >>) /\ Scheduled(c, << Reply(Error) >>) /\ Scheduled(c, << Reply(Note) >>)
        /\ Scheduled(c, << TellOthers(u) >>)
    BY <2>0, <2>5, FreshAre
  <2>7. Scheduled(c, << TellAll, Unload >>)
    BY <2>0, <2>5, FreshAre
  <2>8. Scheduled(c, << Reply(m), Reply(Note), TellOthers(u) >>)
    BY <2>0, <2>4, <2>5, FreshAre
  <2> QED BY <1>1, <2>2, <2>6, <2>7, <2>8
<1>3. CASE HandleEdit(c)
  <2> DEFINE ops == Applied(Head(req[c]))
             good == << Reply(Ack(ops, Len(doc.log \o ops))) >> \o [k \in DOMAIN ops |-> SendOp(ops[k])] \o << AutoSnapshot >>
             bad == << Reply(Error) >>
  <2>1. (Loaded /\ Runs(c, good)) \/ Runs(c, bad)
    BY <1>3 DEF HandleEdit
  <2>2. Scheduled(c, bad)
    <3>1. Reply(Error) \in Instructions /\ Fresh(c, Reply(Error)) /\ Reply(Error).do # "unload"
      BY MessagesAre, InstructionsAre, FreshAre
    <3> QED BY <3>1, ScheduledShort
  <2>3. Loaded => Len(doc.log \o ops) \in Nat
    <3>1. Loaded => doc \in Documents /\ ops \in Seq(Made)
      BY <1>3, EditIs
    <3> HIDE DEF ops
    <3> QED BY <3>1, EditedTyped
  <2>4. Loaded => Scheduled(c, good)
    BY <1>3, <2>3, EditScheduled
  <2> HIDE DEF good, bad
  <2> QED BY <1>1, <2>1, <2>2, <2>4
<1>4. CASE HandleRestoreVersion(c)
  <2> DEFINE v == Head(req[c]).version  m == DocState(db.snaps[v], 0)  n == << Reply(Note) >>
             to == BroadcastTo(Editors({}), m)
  <2>1. loop = Free /\ (Runs(c, n) \/ (v \in DOMAIN db.snaps /\ Runs(c, to \o n)))
    BY <1>4 DEF HandleRestoreVersion, Takes
  <2>2. n \in Seq(Instructions) /\ \A k \in DOMAIN n : Fresh(c, n[k]) /\ n[k].do # "unload"
    <3>1. n \in Seq(Instructions)
      BY InstructionsAre, Scripts
    <3> QED BY <3>1, ShortScripts, FreshAre
  <2>3. v \in DOMAIN db.snaps => m \in Messages
    BY <1>0, MessagesAre DEF RowTypes
  <2>4. \A d \in Conns : ~ Joining(d)
    BY <2>1, DocAssumption, NobodyJoins
  <2> HIDE DEF m, v
  <2>5. v \in DOMAIN db.snaps => to \in Seq(Instructions) /\ \A k \in DOMAIN to : Fresh(c, to[k]) /\ to[k].do # "unload"
    BY <1>0, <2>3, <2>4, ToEditors
  <2> HIDE DEF n, to
  <2>6. v \in DOMAIN db.snaps => Scheduled(c, to \o n)
    <3> SUFFICES ASSUME v \in DOMAIN db.snaps PROVE Scheduled(c, to \o n)
      OBVIOUS
    <3> DEFINE I == Instructions  s == to \o n
    <3>1. to \in Seq(I) /\ n \in Seq(I)
      BY <2>2, <2>5
    <3> HIDE DEF I
    <3>2. s \in Seq(I) /\ \A k \in DOMAIN s : (\E j \in DOMAIN to : s[k] = to[j]) \/ (\E j \in DOMAIN n : s[k] = n[j])
      BY <3>1
    <3> HIDE DEF s
    <3>3. \A k \in DOMAIN s : Fresh(c, s[k]) /\ s[k].do # "unload"
      BY <2>2, <2>5, <3>2
    <3>4. Scheduled(c, s)
      BY <3>2, <3>3, ScheduledPlain DEF I
    <3> QED BY <3>4 DEF s
  <2>7. Scheduled(c, n)
    BY <2>2, ScheduledPlain
  <2> QED BY <1>1, <2>1, <2>6, <2>7
<1>5. ASSUME todo[c] # << >> PROVE Scheduled(c, Rest(c))
  <2>1. << >> \in Seq(Instructions) /\ \A k \in DOMAIN << >> : Fresh(c, << >>[k]) /\ << >>[k].do # "unload"
    BY ShortScripts
  <2>2. Scheduled(c, << >> \o Rest(c))
    BY <1>5, <2>1, ScheduledRest
  <2>3. << >> \o Rest(c) = Rest(c)
    <3> DEFINE I == Instructions  all == todo[c]
    <3>1. all \in Seq(I) /\ Rest(c) = Tail(all) /\ all # << >>
      BY <1>0, <1>5 DEF QueueTypes, Rest
    <3> HIDE DEF I, all
    <3> QED BY <3>1
  <2> QED BY <2>2, <2>3
<1>6. CASE SendReply(c)
  <2>1. todo[c] # << >> /\ (todo' = [todo EXCEPT ![c] = Rest(c)] \/ todo' = [todo EXCEPT ![c] = << >>])
    BY <1>6 DEF SendReply, Sent, Running
  <2>2. Scheduled(c, << >>)
    BY ScheduledShort
  <2> QED BY <1>5, <2>1, <2>2
<1>7. CASE SendNext(c)
  <2> DEFINE i == Head(todo[c])
  <2>1. i \in Instructions /\ i.do = "broadcast" /\ todo[c] # << >> /\ todo[c] \in Seq(Instructions)
    BY <1>0, <1>7, RunningIs DEF SendNext
  <2>2. PICK d \in i.to : Sent(c, d, IF i.to = {d} THEN Rest(c) ELSE << [i EXCEPT !.to = @ \ {d}] >> \o Rest(c))
    BY <1>7 DEF SendNext
  <2> DEFINE j == [i EXCEPT !.to = @ \ {d}]
  <2>3. i = [do |-> "broadcast", to |-> i.to, msg |-> i.msg] /\ i.to \in SUBSET Conns /\ i.msg \in Messages \cup {Note}
    <3> HIDE DEF i
    <3> QED BY <2>1, InstructionIs
  <2>4. j = Broadcast(i.to \ {d}, i.msg)
    <3> DEFINE to == i.to \ {d}
    <3>1. j = [i EXCEPT !.to = to]
      OBVIOUS
    <3> HIDE DEF j, i, to
    <3>2. j = Broadcast(to, i.msg)
      BY <2>3, <3>1 DEF Broadcast
    <3> QED BY <3>2 DEF to
  <2>5. j \in Instructions
    BY <2>3, <2>4, InstructionsAre
  <2>6. \A x \in i.to : Listed(x)
    <3>1. 1 \in DOMAIN todo[c] /\ i = todo[c][1]
      <4> HIDE DEF Instructions
      <4> QED BY <2>1
    <3> QED BY <2>1, <3>1 DEF Listed
  <2>7. Fresh(c, j) /\ j.do # "unload"
    <3> DEFINE to == i.to \ {d}  m == i.msg
    <3>1. j = Broadcast(to, m) /\ \A x \in to : Listed(x)
      BY <2>4, <2>6
    <3> HIDE DEF to, m, j
    <3> QED BY <3>1, FreshAre DEF Fresh
  <2> DEFINE one == << j >>
  <2>8. one \in Seq(Instructions) /\ \A k \in DOMAIN one : Fresh(c, one[k]) /\ one[k].do # "unload"
    <3> HIDE DEF j
    <3> QED BY <2>5, <2>7, ScheduledShort
  <2>9. todo' = [todo EXCEPT ![c] = Rest(c)] \/ todo' = [todo EXCEPT ![c] = one \o Rest(c)]
    BY <2>2 DEF Sent
  <2> HIDE DEF one, i, j
  <2>10. Scheduled(c, one \o Rest(c)) /\ Scheduled(c, Rest(c))
    BY <1>5, <2>1, <2>8, ScheduledRest
  <2> QED BY <2>9, <2>10
<1>8. CASE BeginBroadcast(c)
  <2> DEFINE i == Head(todo[c])  rev == IF i.doc = "live" THEN Len(doc.log) ELSE i.rev
             notes == BroadcastTo(Editors(i.skip) \cap Slow, Note)
             ops == BroadcastTo(Editors({UserOf[c]}), RemoteOp(i.op, rev))
  <2>1. Runs(c, (IF i.do = "tell" THEN notes ELSE ops) \o Rest(c)) /\ todo[c] # << >> /\ (i.do = "tell" \/ i.do = "op")
        /\ loop \in {Free, c}
    BY <1>8 DEF BeginBroadcast, Running
  <2>2. \A d \in Conns : ~ Joining(d)
    BY <2>1, DocAssumption, NobodyJoins
  <2>3. notes \in Seq(Instructions) /\ \A k \in DOMAIN notes : Fresh(c, notes[k]) /\ notes[k].do # "unload"
    <3> DEFINE to == Editors(i.skip) \cap Slow
    <3>1. to \in SUBSET Editors(i.skip) /\ Note \in Messages \cup {Note}
      OBVIOUS
    <3> HIDE DEF to
    <3>2. BroadcastTo(to, Note) \in Seq(Instructions)
          /\ \A k \in DOMAIN BroadcastTo(to, Note) : Fresh(c, BroadcastTo(to, Note)[k]) /\ BroadcastTo(to, Note)[k].do # "unload"
      BY <1>0, <2>2, <3>1, ToEditors
    <3> QED BY <3>2 DEF to
  <2>4. i.do = "op" => ops \in Seq(Instructions) /\ \A k \in DOMAIN ops : Fresh(c, ops[k]) /\ ops[k].do # "unload"
    <3> SUFFICES ASSUME i.do = "op" PROVE ops \in Seq(Instructions) /\ \A k \in DOMAIN ops : Fresh(c, ops[k]) /\ ops[k].do # "unload"
      OBVIOUS
    <3> DEFINE to == Editors({UserOf[c]})  m == RemoteOp(i.op, rev)
    <3>0. i \in Instructions /\ todo[c] # << >> /\ todo[c] \in Seq(Instructions)
      BY <1>0, <1>8, RunningIs DEF BeginBroadcast
    <3>1. to \in SUBSET Editors({UserOf[c]})
      OBVIOUS
    <3>2. i.op \in Made /\ i.rev \in Nat
      <4> HIDE DEF i
      <4> QED BY <3>0, InstructionIs
    <3>3. i.doc = "live" => doc \in Documents
      <4>1. 1 \in DOMAIN todo[c] /\ i = todo[c][1]
        <5> HIDE DEF Instructions
        <5> QED BY <3>0
      <4> QED BY <4>1 DEF Types, Detachable
    <3>4. rev \in Nat
      <4>1. doc \in Documents => Len(doc.log) \in Nat
        <5>1. doc \in Documents => doc.log \in Seq(Made)
          BY DEF Documents
        <5> HIDE DEF Made
        <5> QED BY <5>1
      <4> QED BY <3>2, <3>3, <4>1
    <3>5. m \in Messages \cup {Note}
      BY <3>2, <3>4, MessagesAre
    <3> HIDE DEF to, m
    <3>6. BroadcastTo(to, m) \in Seq(Instructions)
          /\ \A k \in DOMAIN BroadcastTo(to, m) : Fresh(c, BroadcastTo(to, m)[k]) /\ BroadcastTo(to, m)[k].do # "unload"
      BY <1>0, <2>2, <3>1, <3>5, ToEditors
    <3> QED BY <3>6 DEF to, m
  <2> DEFINE t == IF i.do = "tell" THEN notes ELSE ops
  <2>5. t \in Seq(Instructions) /\ \A k \in DOMAIN t : Fresh(c, t[k]) /\ t[k].do # "unload"
    BY <2>1, <2>3, <2>4
  <2>6. Runs(c, t \o Rest(c))
    BY <2>1
  <2> HIDE DEF t
  <2>7. Scheduled(c, t \o Rest(c))
    BY <2>1, <2>5, ScheduledRest
  <2> QED BY <1>1, <2>6, <2>7
<1>9. CASE CheckAutoSnapshot(c)
  <2> DEFINE one == << TellAll >>
  <2>1. todo[c] # << >> /\ (Runs(c, one \o Rest(c)) \/ Runs(c, Rest(c)))
    BY <1>9 DEF CheckAutoSnapshot, Running
  <2>2. one \in Seq(Instructions) /\ \A k \in DOMAIN one : Fresh(c, one[k]) /\ one[k].do # "unload"
    BY InstructionsAre, Scripts, FreshAre, ShortScripts
  <2> HIDE DEF one
  <2>3. Scheduled(c, one \o Rest(c)) /\ Scheduled(c, Rest(c))
    BY <1>5, <2>1, <2>2, ScheduledRest
  <2> QED BY <1>1, <2>1, <2>3
<1> QED BY <1>2, <1>3, <1>4, <1>6, <1>7, <1>8, <1>9 DEF Handle, Step

\* What a handler is left with when another one unloads the document.
LEMMA DetachedKind ==
  ASSUME NEW i \in Instructions
  PROVE  /\ Detached(i).do = i.do
         /\ i.do \in {"op", "autosnap"} => Detached(i).doc = "old"
         /\ i.do \notin {"op", "autosnap", "unload"} => Detached(i) = i
<1>1. CASE i.do = "op" /\ i.doc = "live"
  <2> DEFINE n == Len(doc.log)  x == [i EXCEPT !.doc = "old", !.rev = n]
  <2>1. Detached(i) = x
    BY <1>1 DEF Detached
  <2>2. x.do = i.do /\ x.doc = "old"
    <3>1. i = [do |-> "op", op |-> i.op, doc |-> i.doc, rev |-> i.rev]
      BY <1>1, InstructionIs
    <3> DEFINE o == i.op
               e == i.doc
               r == i.rev
    <3>2. i = [do |-> "op", op |-> o, doc |-> e, rev |-> r] /\ x = [i EXCEPT !.doc = "old", !.rev = n]
      BY <3>1
    <3> HIDE DEF o, e, r, x, n
    <3>3. x = [do |-> "op", op |-> o, doc |-> "old", rev |-> n]
      BY <3>2
    <3> QED BY <1>1, <3>3
  <2> QED BY <1>1, <2>1, <2>2
<1>2. CASE i.do = "autosnap" /\ i.doc = "live"
  <2> DEFINE n == doc.pending  x == [i EXCEPT !.doc = "old", !.pending = n]
  <2>1. Detached(i) = x
    BY <1>2 DEF Detached
  <2>2. x.do = i.do /\ x.doc = "old"
    <3>1. i = [do |-> "autosnap", doc |-> i.doc, pending |-> i.pending]
      BY <1>2, InstructionIs
    <3> DEFINE e == i.doc
               r == i.pending
    <3>2. i = [do |-> "autosnap", doc |-> e, pending |-> r] /\ x = [i EXCEPT !.doc = "old", !.pending = n]
      BY <3>1
    <3> HIDE DEF e, r, x, n
    <3>3. x = [do |-> "autosnap", doc |-> "old", pending |-> n]
      BY <3>2
    <3> QED BY <1>2, <3>3
  <2> QED BY <1>2, <2>1, <2>2
<1>3. CASE i.do = "unload" /\ i.session = "live"
  <2> DEFINE n == IF session = Empty THEN "empty" ELSE "busy"  x == [i EXCEPT !.session = n]
  <2>1. Detached(i) = x
    BY <1>3 DEF Detached
  <2>2. x.do = i.do
    <3>1. i = [do |-> "unload", session |-> i.session]
      BY <1>3, InstructionIs
    <3> DEFINE e == i.session
    <3>2. i = [do |-> "unload", session |-> e] /\ x = [i EXCEPT !.session = n]
      BY <3>1
    <3> HIDE DEF e, x, n
    <3>3. x = [do |-> "unload", session |-> n]
      BY <3>2
    <3> QED BY <1>3, <3>3
  <2> QED BY <1>3, <2>1, <2>2
<1>4. CASE /\ ~(i.do = "op" /\ i.doc = "live") /\ ~(i.do = "autosnap" /\ i.doc = "live")
           /\ ~(i.do = "unload" /\ i.session = "live")
  <2>1. Detached(i) = i
    BY <1>4 DEF Detached
  <2>2. i.do \in {"op", "autosnap"} => i.doc \in {"live", "old"}
    BY InstructionIs
  <2> QED BY <1>4, <2>1, <2>2
<1> QED BY <1>1, <1>2, <1>3, <1>4

\* What every handler still has to do once the document is unloaded.
LEMMA UnloadIs ==
  ASSUME Types, NEW c \in Conns, CheckUnload(c)
  PROVE  /\ todo[c] # << >> /\ Head(todo[c]).do = "unload" /\ Rest(c) = << >> /\ loop' = Free
         /\ \/ /\ UNCHANGED <<doc, session, presence, db>> /\ todo' = [todo EXCEPT ![c] = << >>]
               /\ ~ NobodyLeft(Head(todo[c]))
            \/ /\ doc' = NotLoaded /\ session' = Empty /\ presence' = Empty /\ NobodyLeft(Head(todo[c]))
               /\ db' = IF Loaded /\ doc.pending > 0 THEN Last(SnapshotCommits(db, doc)) ELSE db
               /\ todo' = [d \in Conns |-> IF d = c THEN << >> ELSE [k \in DOMAIN todo[d] |-> Detached(todo[d][k])]]
<1> DEFINE all == todo[c]  I == Instructions
<1>1. all \in Seq(I) /\ all # << >> /\ Head(all).do = "unload"
  BY DEF Types, QueueTypes, CheckUnload, Running
<1>2. \A k \in DOMAIN all : all[k].do = "unload" => k = Len(all)
  BY DEF Types, Detachable
<1> HIDE DEF all, I
<1>3. 1 \in DOMAIN all /\ all[1].do = "unload" /\ Len(all) \in Nat
  BY <1>1
<1>4. Tail(all) = << >>
  BY <1>1, <1>2, <1>3
<1>5. Rest(c) = << >>
  BY <1>4 DEF Rest, all
<1> QED BY <1>1, <1>5 DEF CheckUnload, all

\* Instructions of a suspended handler, once the document is unloaded.
LEMMA DetachedList ==
  ASSUME Types, NEW c \in Conns,
         todo' = [x \in Conns |-> IF x = c THEN << >> ELSE [j \in DOMAIN todo[x] |-> Detached(todo[x][j])]],
         NEW d \in Conns, NEW k \in DOMAIN todo'[d]
  PROVE  /\ d # c /\ DOMAIN todo'[d] = DOMAIN todo[d] /\ k \in DOMAIN todo[d] /\ Len(todo'[d]) = Len(todo[d])
         /\ todo[d][k] \in Instructions /\ todo'[d][k] = Detached(todo[d][k])
<1> DEFINE t == todo'[d]  s == todo[d]  I == Instructions
<1>1. d # c
  <2>1. d = c => t = << >>
    OBVIOUS
  <2> QED BY <2>1
<1>2. t = [j \in DOMAIN s |-> Detached(s[j])]
  BY <1>1
<1>3. s \in Seq(I) /\ k \in DOMAIN t
  BY DEF Types, QueueTypes
<1> HIDE DEF t, s, I
<1>4. DOMAIN s = 1 .. Len(s) /\ Len(s) \in Nat
  BY <1>3
<1>5. DOMAIN t = DOMAIN s /\ k \in DOMAIN s /\ t[k] = Detached(s[k]) /\ s[k] \in I
  BY <1>2, <1>3
<1>6. Len(t) = Len(s)
  BY <1>2, <1>4
<1> QED BY <1>1, <1>5, <1>6 DEF t, s, I

\* Every step leaves a live reference only to a document that is in memory.
LEMMA DetachStep == Types /\ [Next]_vars => Detachable'
<1> SUFFICES ASSUME Types, [Next]_vars PROVE Detachable'
  OBVIOUS
<1>0. Detachable
  BY DEF Types
<1>1. ASSUME UNCHANGED <<todo, doc>> PROVE Detachable'
  BY <1>0, <1>1 DEF Detachable
<1>2. ASSUME NEW c \in Conns, Handle(c) \/ (Step(c) /\ ~ CheckUnload(c)) PROVE Detachable'
  <2>1. PICK s : todo' = [todo EXCEPT ![c] = s] /\ Scheduled(c, s)
    BY <1>2, ScriptIs
  <2>2. doc \in Documents => doc' \in Documents
    BY <1>2, DocumentStays
  <2>3. ASSUME NEW d \in Conns, NEW k \in DOMAIN todo'[d]
        PROVE  /\ todo'[d][k].do \in {"op", "autosnap"} /\ todo'[d][k].doc = "live" => doc' \in Documents
               /\ todo'[d][k].do = "unload" => k = Len(todo'[d])
    <3>0. todo \in [Conns -> Seq(Instructions)]
      BY DEF Types, QueueTypes
    <3>1. CASE d = c
      <4>1. todo'[d] = s
        BY <2>1, <3>0, <3>1
      <4>2. \/ Fresh(c, s[k])
            \/ \E j \in DOMAIN todo[c] : s[k] = todo[c][j]
        BY <2>1, <4>1 DEF Scheduled
      <4>3. s[k].do = "unload" => k = Len(s)
        BY <2>1, <4>1 DEF Scheduled
      <4>4. s[k].do \in {"op", "autosnap"} /\ s[k].doc = "live" => doc' \in Documents
        BY <1>0, <2>2, <4>2 DEF Detachable, Fresh
      <4> QED BY <4>1, <4>3, <4>4
    <3>2. CASE d # c
      <4>1. todo'[d] = todo[d]
        BY <2>1, <3>0, <3>2
      <4> QED BY <1>0, <2>2, <4>1 DEF Detachable
    <3> QED BY <3>1, <3>2
  <2> QED BY <2>3 DEF Detachable
<1>3. ASSUME NEW c \in Conns, CheckUnload(c) PROVE Detachable'
  <2>1. CASE todo' = [todo EXCEPT ![c] = << >>] /\ doc' = doc
    <3>1. todo \in [Conns -> Seq(Instructions)]
      BY DEF Types, QueueTypes
    <3>2. \A d \in Conns : todo'[d] = IF d = c THEN << >> ELSE todo[d]
      BY <2>1, <3>1
    <3> QED BY <1>0, <2>1, <3>2 DEF Detachable
  <2>2. CASE todo' = [x \in Conns |-> IF x = c THEN << >> ELSE [j \in DOMAIN todo[x] |-> Detached(todo[x][j])]]
    <3>1. ASSUME NEW d \in Conns, NEW k \in DOMAIN todo'[d]
          PROVE  /\ todo'[d][k].do \in {"op", "autosnap"} => todo'[d][k].doc = "old"
                 /\ todo'[d][k].do = "unload" => k = Len(todo'[d])
      <4>1. /\ k \in DOMAIN todo[d] /\ Len(todo'[d]) = Len(todo[d])
            /\ todo[d][k] \in Instructions /\ todo'[d][k] = Detached(todo[d][k])
        BY <2>2, <3>1, DetachedList
      <4> QED BY <1>0, <4>1, DetachedKind DEF Detachable
    <3> QED BY <3>1 DEF Detachable
  <2> QED BY <1>3, <2>1, <2>2, UnloadIs
<1>4. CASE Crash
  <2>1. \A c \in Conns : todo'[c] = << >>
    BY <1>4 DEF Crash
  <2> QED BY <2>1 DEF Detachable
<1>5. ASSUME NEW c \in Conns, Connect(c) \/ ClientReceives(c) \/ ClientActs(c) PROVE Detachable'
  <2>1. UNCHANGED <<todo, doc>>
    BY <1>5 DEF Connect, ClientReceives, ClientActs, ClientJoins, ClientEdits, ClientMovesCursor, ClientSaves,
                ClientRestores, ClientCreates, ClientCloses, ClientSends
  <2> QED BY <1>1, <2>1
<1>6. CASE Restart
  BY <1>1, <1>6 DEF Restart
<1>7. CASE UNCHANGED vars
  BY <1>1, <1>7 DEF vars
<1> QED BY <1>1, <1>2, <1>3, <1>4, <1>5, <1>6, <1>7 DEF Next, Step

-----------------------------------------------------------------------------
(* What is in a connection's inbox can be read by its client.              *)

\* The steps of the server's handlers leave the clients alone, those of the
\* clients leave the handlers alone.
LEMMA WhoActs ==
  ASSUME NEW c \in Conns
  PROVE  /\ Handle(c) \/ Step(c) => client' = client /\ used' = used /\ up' = up
         /\ Connect(c) \/ ClientReceives(c) \/ ClientActs(c) => UNCHANGED <<up, doc, session, todo, loop, joined, presence, db>>
<1>1. ASSUME Handle(c) \/ Step(c) PROVE client' = client /\ used' = used /\ up' = up
  BY <1>1 DEF Handle, HandleJoin, HandleEdit, HandleCursorUpdate, HandleSaveSnapshot, HandleRestoreVersion, HandleCreateDoc,
     HandleDisconnect, Step, SendReply, SendNext, BeginBroadcast, CheckAutoSnapshot, CheckUnload
<1>2. ASSUME Connect(c) \/ ClientReceives(c) \/ ClientActs(c)
      PROVE  UNCHANGED <<up, doc, session, todo, loop, joined, presence, db>>
  BY <1>2 DEF Connect, ClientReceives, ClientActs, ClientJoins, ClientEdits, ClientMovesCursor, ClientSaves,
                ClientRestores, ClientCreates, ClientCloses, ClientSends
<1> QED BY <1>1, <1>2

\* What a connection can become.
LEMMA LinkStep ==
  ASSUME Types, [Next]_vars, NEW d \in Conns
  PROVE  /\ link'[d] = "open" => link[d] = "open" \/ (Connect(d) /\ link[d] = "new")
         /\ link'[d] = "new" => link[d] = "new"
         /\ link[d] = "open" /\ link'[d] # "open" => ClientCloses(d) \/ Crash
<1>0. link \in [Conns -> Links]
  BY DEF Types, Registry
<1>1. ASSUME link' = link PROVE (link'[d] = "open" => link[d] = "open") /\ link'[d] = link[d]
  BY <1>1
<1>2. ASSUME NEW c \in Conns, Connect(c)
      PROVE  link'[d] = (IF d = c THEN "open" ELSE link[d]) /\ link[c] = "new"
  BY <1>0, <1>2 DEF Connect
<1>3. ASSUME NEW c \in Conns, HandleDisconnect(c) PROVE link'[d] = (IF d = c THEN "done" ELSE link[d]) /\ link[c] = "gone"
  BY <1>0, <1>3 DEF HandleDisconnect
<1>4. ASSUME NEW c \in Conns, ClientCloses(c) PROVE link'[d] = (IF d = c THEN "gone" ELSE link[d]) /\ link[c] = "open"
  BY <1>0, <1>4 DEF ClientCloses
<1>5. CASE Crash
  <2>1. link'[d] = IF link[d] = "new" THEN "new" ELSE "done"
    BY <1>5 DEF Crash
  <2> QED BY <1>5, <2>1
<1>6. ASSUME NEW c \in Conns, Handle(c) \/ Step(c) \/ ClientReceives(c) \/ ClientActs(c),
             ~ HandleDisconnect(c), ~ ClientCloses(c)
      PROVE  link' = link
  BY <1>6 DEF Handle, HandleJoin, HandleEdit, HandleCursorUpdate, HandleSaveSnapshot, HandleRestoreVersion, HandleCreateDoc,
     Step, SendReply, SendNext, BeginBroadcast, CheckAutoSnapshot, CheckUnload, ClientReceives, ClientActs, ClientJoins,
     ClientEdits, ClientMovesCursor, ClientSaves, ClientRestores, ClientCreates, ClientSends
<1>7. CASE Restart \/ UNCHANGED vars
  BY <1>7 DEF Restart, vars
<1> QED BY <1>1, <1>2, <1>3, <1>4, <1>5, <1>6, <1>7 DEF Next

\* What is in a client's FIFO after a step.
LEMMA InboxIs ==
  ASSUME Types, [Next]_vars, NEW d \in Conns
  PROVE  \/ inbox'[d] = inbox[d]
         \/ inbox'[d] = << >> /\ (ClientCloses(d) \/ Crash)
         \/ ClientReceives(d)
         \/ /\ link[d] = "open" /\ client' = client /\ (\E c \in Conns : SendReply(c) \/ SendNext(c))
            /\ \E m \in Messages : inbox'[d] = Append(inbox[d], m) /\ (NeedsText(m) => Welcome(d))
<1>0. inbox \in [Conns -> Seq(Messages)] /\ QueueTypes
  BY DEF Types, QueueTypes
<1>1. ASSUME inbox' = inbox PROVE inbox'[d] = inbox[d]
  BY <1>1
<1>2. ASSUME NEW c \in Conns, SendReply(c), inbox'[d] # inbox[d]
      PROVE  link[d] = "open" /\ \E m \in Messages : inbox'[d] = Append(inbox[d], m) /\ (NeedsText(m) => Welcome(d))
  <2> DEFINE i == Head(todo[c])
  <2>1. link[c] = "open" /\ Deliver(c, i.msg)
    BY <1>2 DEF SendReply
  <2>2. i \in Instructions /\ i.do = "reply" /\ todo[c] \in Seq(Instructions) /\ todo[c] # << >>
    BY <1>0, <1>2, RunningIs DEF SendReply
  <2>3. i.msg \in Messages \cup {Note}
    <3> HIDE DEF i
    <3> QED BY <2>2, InstructionIs
  <2>4. 1 \in DOMAIN todo[c] /\ i = todo[c][1]
    <3> HIDE DEF Instructions
    <3> QED BY <2>2
  <2>5. NeedsText(i.msg) => client[c].text \in Texts
    <3>1. Asked(c)
      BY <2>1 DEF Types, Greeted
    <3> QED BY <2>2, <2>4, <3>1 DEF Asked
  <2> HIDE DEF i
  <2>6. i.msg # Note /\ inbox' = [inbox EXCEPT ![c] = Append(@, i.msg)]
    BY <1>1, <1>2, <2>1 DEF Deliver
  <2>7. d = c /\ inbox'[d] = Append(inbox[d], i.msg)
    <3> HIDE DEF Messages
    <3> QED BY <1>0, <1>2, <2>6
  <2> QED BY <2>1, <2>3, <2>5, <2>6, <2>7 DEF Welcome
<1>3. ASSUME NEW c \in Conns, SendNext(c), inbox'[d] # inbox[d]
      PROVE  link[d] = "open" /\ \E m \in Messages : inbox'[d] = Append(inbox[d], m) /\ (NeedsText(m) => Welcome(d))
  <2> DEFINE i == Head(todo[c])
  <2>1. PICK e \in i.to : Deliver(e, i.msg)
    BY <1>3 DEF SendNext
  <2>2. i \in Instructions /\ i.do = "broadcast" /\ todo[c] \in Seq(Instructions) /\ todo[c] # << >>
    BY <1>0, <1>3, RunningIs DEF SendNext
  <2>3. i.msg \in Messages \cup {Note} /\ i.to \in SUBSET Conns
    <3> HIDE DEF i
    <3> QED BY <2>2, InstructionIs
  <2>4. 1 \in DOMAIN todo[c] /\ i = todo[c][1]
    <3> HIDE DEF Instructions
    <3> QED BY <2>2
  <2>5. Listed(e)
    BY <2>2, <2>4 DEF Listed
  <2> HIDE DEF i
  <2>6. i.msg # Note /\ link[e] = "open" /\ inbox' = [inbox EXCEPT ![e] = Append(@, i.msg)]
    BY <1>1, <1>3, <2>1 DEF Deliver
  <2>7. d = e /\ inbox'[d] = Append(inbox[d], i.msg)
    <3> HIDE DEF Messages
    <3> QED BY <1>0, <1>3, <2>3, <2>6
  <2>8. Welcome(d)
    BY <2>5, <2>6, <2>7 DEF Types, Greeted
  <2> QED BY <2>3, <2>6, <2>7, <2>8
<1>4. ASSUME NEW c \in Conns, ClientReceives(c), c # d PROVE inbox'[d] = inbox[d]
  BY <1>0, <1>4 DEF ClientReceives
<1>5. ASSUME NEW c \in Conns, ClientCloses(c), c # d PROVE inbox'[d] = inbox[d]
  BY <1>0, <1>5 DEF ClientCloses
<1>6. ASSUME NEW c \in Conns, ClientCloses(c), c = d PROVE inbox'[d] = << >>
  BY <1>0, <1>6 DEF ClientCloses
<1>7. CASE Crash
  <2>1. inbox'[d] = << >>
    BY <1>7 DEF Crash
  <2> QED BY <1>7, <2>1
<1>8. ASSUME NEW c \in Conns, Connect(c) \/ Handle(c) \/ Step(c) \/ ClientActs(c),
             ~ SendReply(c), ~ SendNext(c), ~ ClientCloses(c)
      PROVE  inbox' = inbox
  BY <1>8 DEF Connect, Handle, HandleJoin, HandleEdit, HandleCursorUpdate, HandleSaveSnapshot, HandleRestoreVersion, HandleCreateDoc,
     HandleDisconnect, Step, BeginBroadcast, CheckAutoSnapshot, CheckUnload, ClientActs, ClientJoins,
     ClientEdits, ClientMovesCursor, ClientSaves, ClientRestores, ClientCreates, ClientSends
<1>9. CASE Restart \/ UNCHANGED vars
  BY <1>9 DEF Restart, vars
<1>10. \A c \in Conns : SendReply(c) \/ SendNext(c) => client' = client
  BY WhoActs DEF Step
<1> QED BY <1>1, <1>2, <1>3, <1>4, <1>5, <1>6, <1>7, <1>8, <1>9, <1>10 DEF Next

\* A client that has a text keeps one.
LEMMA TextStays ==
  ASSUME Types, [Next]_vars, NEW d \in Conns
  PROVE  /\ client[d].text \in Texts => client'[d].text \in Texts
         /\ ~ ClientReceives(d) => client'[d].text = client[d].text
<1>0. client \in [Conns -> Clients]
  BY DEF Types, ClientTypes
<1>1. ASSUME client' = client PROVE client'[d].text = client[d].text
  BY <1>1
<1>2. ASSUME NEW b, client'[d] = [client[d] EXCEPT !.waiting = b] PROVE client'[d].text = client[d].text
  <2> DEFINE k == client[d]
  <2>1. k = [text |-> k.text, rev |-> k.rev, seen |-> k.seen, waiting |-> k.waiting]
    BY <1>0 DEF Clients
  <2> HIDE DEF k
  <2>2. [k EXCEPT !.waiting = b].text = k.text
    BY <2>1
  <2> QED BY <1>2, <2>2 DEF k
<1>3. ASSUME NEW c \in Conns, ClientActs(c) PROVE client'[d].text = client[d].text
  <2>1. client' = client \/ \E b : client' = [client EXCEPT ![c] = [client[c] EXCEPT !.waiting = b]]
    BY <1>3, <1>0 DEF ClientActs, ClientJoins, ClientEdits, ClientMovesCursor, ClientSaves, ClientRestores, ClientCreates,
                ClientCloses, Waits
  <2>2. client'[d] = client[d] \/ \E b : client'[d] = [client[d] EXCEPT !.waiting = b]
    <3> HIDE DEF Clients
    <3> QED BY <1>0, <2>1
  <2> QED BY <1>2, <2>2
<1>4. CASE Crash
  <2>1. client'[d] = [client[d] EXCEPT !.waiting = FALSE]
    BY <1>4 DEF Crash
  <2> QED BY <1>2, <2>1
<1>5. ASSUME NEW c \in Conns, ClientReceives(c), c # d PROVE client'[d].text = client[d].text
  <2>1. PICK n : client' = [client EXCEPT ![c] = n]
    BY <1>5, ReceiptIs
  <2>2. client'[d] = client[d]
    <3> HIDE DEF Clients
    <3> QED BY <1>0, <1>5, <2>1
  <2> QED BY <2>2
<1>6. ASSUME ClientReceives(d) PROVE client[d].text \in Texts => client'[d].text \in Texts
  <2>1. PICK n \in Clients : /\ client' = [client EXCEPT ![d] = n]
                             /\ Head(inbox[d]).type = "error" => n = [text |-> client[d].text, rev |-> client[d].rev,
                                                                      seen |-> client[d].seen, waiting |-> FALSE]
                             /\ Head(inbox[d]).type # "error" => n.text \in Texts
    BY <1>6, ReceiptIs
  <2>2. client'[d] = n
    <3> HIDE DEF Clients
    <3> QED BY <1>0, <2>1
  <2> QED BY <2>1, <2>2
<1>7. ASSUME NEW c \in Conns, Connect(c) \/ Handle(c) \/ Step(c) PROVE client' = client
  BY <1>7, WhoActs DEF Connect
<1>8. CASE Restart \/ UNCHANGED vars
  BY <1>8 DEF Restart, vars
<1> QED BY <1>1, <1>3, <1>4, <1>5, <1>6, <1>7, <1>8 DEF Next

\* What a client has left to receive, and whether it has a text then.
LEMMA ReceivedOne ==
  ASSUME Types, NEW d \in Conns, ClientReceives(d)
  PROVE  /\ inbox[d] \in Seq(Messages) /\ inbox[d] # << >> /\ inbox'[d] = Tail(inbox[d])
         /\ Greeting(Head(inbox[d])) => client'[d].text \in Texts
<1> DEFINE M == Messages
<1>1. inbox \in [Conns -> Seq(M)] /\ inbox[d] # << >> /\ inbox' = [inbox EXCEPT ![d] = Tail(@)]
  BY ReceiptIs DEF Types, QueueTypes
<1>2. PICK n \in Clients : /\ client' = [client EXCEPT ![d] = n]
                           /\ Head(inbox[d]).type # "error" => n.text \in Texts
  BY ReceiptIs
<1>3. client'[d] = n
  <2>1. client \in [Conns -> Clients]
    BY DEF Types, ClientTypes
  <2> HIDE DEF Clients
  <2> QED BY <1>2, <2>1
<1> HIDE DEF M
<1>4. inbox'[d] = Tail(inbox[d]) /\ inbox[d] \in Seq(M)
  BY <1>1
<1> QED BY <1>1, <1>2, <1>3, <1>4 DEF Greeting, M

\* A client that has a text or will get one does so after any step.
LEMMA WelcomeStays ==
  ASSUME Types, [Next]_vars, NEW d \in Conns, link'[d] = "open", Welcome(d)
  PROVE  Welcome(d)'
<1>0. (Welcome(d))' <=> (client'[d].text \in Texts \/ \E j \in DOMAIN inbox'[d] : Greeting(inbox'[d][j]))
  BY DEF Welcome, Greeting
<1>1. CASE client[d].text \in Texts
  BY <1>0, <1>1, TextStays
<1>2. CASE \E j \in DOMAIN inbox[d] : Greeting(inbox[d][j])
  <2>1. PICK j \in DOMAIN inbox[d] : Greeting(inbox[d][j])
    BY <1>2
  <2> DEFINE M == Messages  b == inbox[d]
  <2>2. b \in Seq(M)
    BY DEF Types, QueueTypes
  <2>3. CASE ClientReceives(d)
    <3>1. b # << >> /\ inbox'[d] = Tail(b) /\ (Greeting(Head(b)) => client'[d].text \in Texts)
      BY <2>3, ReceivedOne
    <3> HIDE DEF M, b
    <3>2. CASE j = 1
      BY <1>0, <2>1, <2>2, <3>1, <3>2 DEF b
    <3>3. CASE j # 1
      <4>1. j - 1 \in DOMAIN Tail(b) /\ Tail(b)[j - 1] = b[j]
        BY <2>1, <2>2, <3>1, <3>3 DEF b
      <4> QED BY <1>0, <2>1, <3>1, <4>1 DEF b
    <3> QED BY <3>2, <3>3
  <2>4. CASE \E m \in Messages : inbox'[d] = Append(b, m)
    <3>1. PICK m \in M : inbox'[d] = Append(b, m)
      BY <2>4
    <3> HIDE DEF M, b
    <3>2. j \in DOMAIN Append(b, m) /\ Append(b, m)[j] = b[j]
      BY <2>1, <2>2 DEF b
    <3> QED BY <1>0, <2>1, <3>1, <3>2 DEF b
  <2>5. CASE inbox'[d] = b
    BY <1>0, <2>1, <2>5
  <2>6. ~ ClientCloses(d) /\ ~ Crash
    <3>1. link \in [Conns -> Links]
      BY DEF Types, Registry
    <3> QED BY <3>1 DEF ClientCloses, Crash
  <2> QED BY <2>3, <2>4, <2>5, <2>6, InboxIs
<1> QED BY <1>1, <1>2 DEF Welcome

\* A client that could read its messages still can.
LEMMA ReadableStays ==
  ASSUME Types, [Next]_vars, NEW d \in Conns, link'[d] = "open"
  PROVE  InboxReadable(d)'
<1> DEFINE M == Messages  b == inbox[d]  R(s, has) == \A k \in DOMAIN s : NeedsText(s[k]) => has \/ \E j \in DOMAIN s : j < k /\ Greeting(s[j])
<1>0. (InboxReadable(d))' <=> R(inbox'[d], client'[d].text \in Texts)
  BY DEF InboxReadable, NeedsText, Greeting
<1>1. b \in Seq(M)
  BY DEF Types, QueueTypes
<1>2. link[d] = "open" \/ Connect(d)
  BY LinkStep
<1>3. R(b, client[d].text \in Texts)
  <2>1. CASE link[d] = "open"
    BY <2>1 DEF Types, Greeted, InboxReadable
  <2>2. CASE link[d] # "open"
    <3>1. DOMAIN b = {}
      <4>1. b = << >>
        BY <2>2 DEF Types, Greeted
      <4> HIDE DEF b
      <4> QED BY <4>1
    <3> QED BY <3>1
  <2> QED BY <2>1, <2>2
<1>4. CASE inbox'[d] = b
  <2>1. R(b, client'[d].text \in Texts)
    BY <1>3, TextStays
  <2> QED BY <1>0, <1>4, <2>1
<1>5. CASE client'[d].text \in Texts
  BY <1>0, <1>5
<1>6. CASE ClientReceives(d) /\ client'[d].text \notin Texts
  <2>1. b # << >> /\ inbox'[d] = Tail(b) /\ ~ Greeting(Head(b)) /\ client[d].text \notin Texts
    BY <1>6, ReceivedOne, TextStays
  <2> HIDE DEF M, b
  <2>2. ASSUME NEW k \in DOMAIN Tail(b), NeedsText(Tail(b)[k])
        PROVE  \E j \in DOMAIN Tail(b) : j < k /\ Greeting(Tail(b)[j])
    <3>1. k \in Nat /\ k + 1 \in DOMAIN b /\ Tail(b)[k] = b[k + 1]
      BY <1>1, <2>1
    <3>2. PICK j \in DOMAIN b : j < k + 1 /\ Greeting(b[j])
      BY <1>3, <2>1, <2>2, <3>1 DEF b
    <3>3. j # 1
      BY <1>1, <2>1, <3>2
    <3>4. j - 1 \in DOMAIN Tail(b) /\ j - 1 < k /\ Tail(b)[j - 1] = b[j]
      BY <1>1, <2>1, <3>1, <3>2, <3>3
    <3> QED BY <3>2, <3>4
  <2> QED BY <1>0, <2>1, <2>2
<1>7. CASE \E m \in Messages : inbox'[d] = Append(b, m) /\ (NeedsText(m) => Welcome(d)) /\ client' = client
  <2>1. PICK m \in M : inbox'[d] = Append(b, m) /\ (NeedsText(m) => Welcome(d)) /\ client' = client
    BY <1>7
  <2>2. NeedsText(m) => client'[d].text \in Texts \/ \E j \in DOMAIN b : Greeting(b[j])
    BY <2>1 DEF Welcome
  <2> HIDE DEF M, b
  <2> DEFINE n == Len(b)
  <2>3. /\ DOMAIN Append(b, m) = 1 .. n + 1 /\ DOMAIN b = 1 .. n /\ n \in Nat /\ Append(b, m)[n + 1] = m
        /\ \A k \in 1 .. n : Append(b, m)[k] = b[k]
    BY <1>1, <2>1
  <2>4. R(b, client'[d].text \in Texts)
    BY <1>3, <2>1 DEF b
  <2> DEFINE s == Append(b, m)
  <2>5. /\ DOMAIN s = 1 .. n + 1 /\ s[n + 1] = m /\ \A k \in 1 .. n : s[k] = b[k]
    BY <2>3
  <2> HIDE DEF n, s
  <2>6. ASSUME NEW k \in DOMAIN s, NeedsText(s[k])
        PROVE  client'[d].text \in Texts \/ \E j \in DOMAIN s : j < k /\ Greeting(s[j])
    <3>1. CASE k = n + 1
      <4>1. client'[d].text \in Texts \/ \E j \in 1 .. n : Greeting(b[j])
        BY <2>2, <2>3, <2>5, <2>6, <3>1
      <4> QED BY <2>3, <2>5, <3>1, <4>1
    <3>2. CASE k \in 1 .. n
      <4>1. client'[d].text \in Texts \/ \E j \in 1 .. n : j < k /\ Greeting(b[j])
        BY <2>3, <2>4, <2>5, <2>6, <3>2
      <4> QED BY <2>3, <2>5, <4>1
    <3> QED BY <2>3, <2>5, <2>6, <3>1, <3>2
  <2> QED BY <1>0, <2>1, <2>6 DEF s, b
<1>8. ~ ClientCloses(d) /\ ~ Crash
  <2>1. link \in [Conns -> Links]
    BY DEF Types, Registry
  <2> QED BY <2>1 DEF ClientCloses, Crash
<1> QED BY <1>4, <1>5, <1>6, <1>7, <1>8, InboxIs

\* Whom the handlers still have to send to.
LEMMA ListedAfter ==
  ASSUME Types, [Next]_vars, NEW d \in Conns, Listed(d)'
  PROVE  Listed(d) \/ (InSession(d) /\ ~ Joining(d))
<1>0. todo \in [Conns -> Seq(Instructions)]
  BY DEF Types, QueueTypes
<1>1. PICK e \in Conns : \E k \in DOMAIN todo'[e] : todo'[e][k].do = "broadcast" /\ d \in todo'[e][k].to
  BY DEF Listed
<1>2. PICK k \in DOMAIN todo'[e] : todo'[e][k].do = "broadcast" /\ d \in todo'[e][k].to
  BY <1>1
<1>3. CASE todo'[e] = todo[e]
  BY <1>2, <1>3 DEF Listed
<1>4. ASSUME NEW c \in Conns, Handle(c) \/ (Step(c) /\ ~ CheckUnload(c)) PROVE Listed(d) \/ (InSession(d) /\ ~ Joining(d))
  <2>1. PICK s : todo' = [todo EXCEPT ![c] = s] /\ Scheduled(c, s)
    BY <1>4, ScriptIs
  <2>2. CASE e # c
    BY <1>0, <1>3, <2>1, <2>2
  <2>3. CASE e = c
    <3>1. todo'[e] = s
      BY <1>0, <2>1, <2>3
    <3>2. Fresh(c, s[k]) \/ \E j \in DOMAIN todo[c] : s[k] = todo[c][j]
      BY <1>2, <2>1, <3>1 DEF Scheduled
    <3> QED BY <1>2, <3>1, <3>2 DEF Fresh, Listed
  <2> QED BY <2>2, <2>3
<1>5. ASSUME NEW c \in Conns, CheckUnload(c) PROVE Listed(d)
  <2>1. CASE todo' = [todo EXCEPT ![c] = << >>]
    <3>1. todo'[e] = IF e = c THEN << >> ELSE todo[e]
      BY <1>0, <2>1
    <3>2. e = c => DOMAIN todo'[e] = {}
      BY <3>1
    <3>3. todo'[e] = todo[e]
      BY <1>2, <3>1, <3>2
    <3> QED BY <1>2, <3>3 DEF Listed
  <2>2. CASE todo' = [x \in Conns |-> IF x = c THEN << >> ELSE [j \in DOMAIN todo[x] |-> Detached(todo[x][j])]]
    <3>1. k \in DOMAIN todo[e] /\ todo[e][k] \in Instructions /\ todo'[e][k] = Detached(todo[e][k])
      BY <1>2, <2>2, DetachedList
    <3>2. todo[e][k].do = "broadcast" /\ todo'[e][k] = todo[e][k]
      BY <1>2, <3>1, DetachedKind
    <3> QED BY <1>2, <3>1, <3>2 DEF Listed
  <2> QED BY <1>5, <2>1, <2>2, UnloadIs
<1>6. CASE Crash
  <2>1. todo'[e] = << >>
    BY <1>6 DEF Crash
  <2>2. DOMAIN todo'[e] = {}
    BY <2>1
  <2> QED BY <1>2, <2>2
<1>7. ASSUME NEW c \in Conns, Connect(c) \/ ClientReceives(c) \/ ClientActs(c) PROVE todo' = todo
  BY <1>7, WhoActs
<1>8. CASE Restart \/ UNCHANGED vars
  <2>1. todo' = todo
    BY <1>8 DEF Restart, vars
  <2> QED BY <1>3, <2>1
<1> QED BY <1>3, <1>4, <1>5, <1>6, <1>7, <1>8 DEF Next, Step

\* What a client's requests are after a step.
LEMMA ReqIs ==
  ASSUME Types, [Next]_vars, NEW d \in Conns
  PROVE  \/ req'[d] = req[d]
         \/ req'[d] = << >> /\ (SendReply(d) \/ Crash)
         \/ Handle(d) /\ req[d] # << >> /\ req'[d] = Tail(req[d]) /\ todo[d] = << >> /\ loop = Free
         \/ /\ ClientActs(d) /\ link[d] = "open" /\ ~ client[d].waiting
            /\ \E m : /\ req'[d] = Append(req[d], m)
                      /\ m.type \in {"join", "edit", "cursor", "save", "restore", "create"}
                      /\ m.type = "edit" => client[d].text # NoText
<1>0. req \in [Conns -> Seq(Requests)]
  BY DEF Types, QueueTypes
<1>1. ASSUME NEW c \in Conns, Handle(c), ~ HandleDisconnect(c)
      PROVE  req[c] # << >> /\ req' = [req EXCEPT ![c] = Tail(@)] /\ todo[c] = << >> /\ loop = Free
  BY <1>1 DEF Handle, HandleJoin, HandleEdit, HandleCursorUpdate, HandleSaveSnapshot, HandleRestoreVersion, HandleCreateDoc,
     Takes
<1>2. ASSUME NEW c \in Conns, SendReply(c) PROVE req' = req \/ req' = [req EXCEPT ![c] = << >>]
  BY <1>2 DEF SendReply
<1>3. ASSUME NEW c \in Conns, ClientActs(c), ~ ClientCloses(c)
      PROVE  /\ link[c] = "open" /\ ~ client[c].waiting
             /\ \E m : /\ req' = [req EXCEPT ![c] = Append(@, m)]
                       /\ m.type \in {"join", "edit", "cursor", "save", "restore", "create"}
                       /\ m.type = "edit" => client[c].text # NoText
  <2>1. CASE ClientEdits(c)
    <3>1. PICK op \in ClientOps(c) :
            ClientSends(c, [type |-> "edit", op |-> op, rev |-> client[c].rev, seen |-> client[c].text])
      BY <2>1 DEF ClientEdits
    <3> DEFINE m == [type |-> "edit", op |-> op, rev |-> client[c].rev, seen |-> client[c].text]
    <3>2. m.type = "edit" /\ ClientSends(c, m) /\ client[c].text # NoText
      BY <2>1, <3>1 DEF ClientEdits
    <3> HIDE DEF m
    <3> QED BY <3>2 DEF ClientSends
  <2>2. CASE ClientMovesCursor(c)
    <3>1. PICK p : ClientSends(c, [type |-> "cursor", position |-> p])
      BY <2>2 DEF ClientMovesCursor
    <3> DEFINE m == [type |-> "cursor", position |-> p]
    <3>2. m.type = "cursor" /\ ClientSends(c, m)
      BY <3>1
    <3> HIDE DEF m
    <3> QED BY <3>2 DEF ClientSends
  <2>3. CASE ClientRestores(c)
    <3>1. PICK v : ClientSends(c, [type |-> "restore", version |-> v])
      BY <2>3 DEF ClientRestores
    <3> DEFINE m == [type |-> "restore", version |-> v]
    <3>2. m.type = "restore" /\ ClientSends(c, m)
      BY <3>1
    <3> HIDE DEF m
    <3> QED BY <3>2 DEF ClientSends
  <2>4. CASE ClientJoins(c) \/ ClientSaves(c) \/ ClientCreates(c)
    <3>1. PICK t \in {"join", "save", "create"} : ClientSends(c, [type |-> t])
      BY <2>4 DEF ClientJoins, ClientSaves, ClientCreates
    <3> DEFINE m == [type |-> t]
    <3>2. m.type = t /\ ClientSends(c, m)
      BY <3>1
    <3> HIDE DEF m
    <3> QED BY <3>2 DEF ClientSends
  <2> QED BY <1>3, <2>1, <2>2, <2>3, <2>4 DEF ClientActs
<1>4. ASSUME NEW c \in Conns,
             \/ HandleDisconnect(c) \/ SendNext(c) \/ BeginBroadcast(c) \/ CheckAutoSnapshot(c) \/ CheckUnload(c)
             \/ Connect(c) \/ ClientCloses(c) \/ ClientReceives(c)
      PROVE  req' = req
  BY <1>4 DEF HandleDisconnect, SendNext, BeginBroadcast, CheckAutoSnapshot, CheckUnload, Connect, ClientCloses, ClientReceives
<1>5. CASE Crash
  <2>1. req'[d] = << >>
    BY <1>5 DEF Crash
  <2> QED BY <1>5, <2>1
<1>6. CASE Restart \/ UNCHANGED vars
  BY <1>6 DEF Restart, vars
<1> HIDE DEF Requests
<1>7. ASSUME NEW c \in Conns, Handle(c), ~ HandleDisconnect(c)
      PROVE  req'[d] = req[d] \/ (c = d /\ req'[d] = Tail(req[d]))
  BY <1>0, <1>1, <1>7
<1>8. ASSUME NEW c \in Conns, SendReply(c) PROVE req'[d] = req[d] \/ (c = d /\ req'[d] = << >>)
  BY <1>0, <1>2, <1>8
<1>9. ASSUME NEW c \in Conns, ClientActs(c), ~ ClientCloses(c), c # d PROVE req'[d] = req[d]
  BY <1>0, <1>3, <1>9
<1>10. ASSUME ClientActs(d), ~ ClientCloses(d)
       PROVE  \E m : /\ req'[d] = Append(req[d], m)
                     /\ m.type \in {"join", "edit", "cursor", "save", "restore", "create"}
                     /\ m.type = "edit" => client[d].text # NoText
  BY <1>0, <1>3, <1>10
<1>11. ASSUME NEW c \in Conns, Handle(c), ~ HandleDisconnect(c)
       PROVE  req'[d] = req[d] \/ (Handle(d) /\ req[d] # << >> /\ req'[d] = Tail(req[d]) /\ todo[d] = << >> /\ loop = Free)
  BY <1>1, <1>7, <1>11
<1>12. ASSUME NEW c \in Conns, ClientActs(c), ~ ClientCloses(c)
       PROVE  \/ req'[d] = req[d]
              \/ /\ ClientActs(d) /\ link[d] = "open" /\ ~ client[d].waiting
                 /\ \E m : /\ req'[d] = Append(req[d], m)
                           /\ m.type \in {"join", "edit", "cursor", "save", "restore", "create"}
                           /\ m.type = "edit" => client[d].text # NoText
  BY <1>3, <1>9, <1>10, <1>12
<1>13. ASSUME NEW c \in Conns, Handle(c) \/ Step(c)
       PROVE  \/ req'[d] = req[d] \/ (req'[d] = << >> /\ SendReply(d))
              \/ (Handle(d) /\ req[d] # << >> /\ req'[d] = Tail(req[d]) /\ todo[d] = << >> /\ loop = Free)
  BY <1>4, <1>8, <1>11, <1>13 DEF Step
<1>14. ASSUME NEW c \in Conns, Connect(c) \/ ClientReceives(c) \/ ClientCloses(c) PROVE req'[d] = req[d]
  BY <1>4, <1>14
<1> QED BY <1>5, <1>6, <1>12, <1>13, <1>14 DEF Next

\* What a handler has to do after a step.
LEMMA TodoAfter ==
  ASSUME Types, [Next]_vars, NEW d \in Conns, NEW k \in DOMAIN todo'[d]
  PROVE  \/ \E j \in DOMAIN todo[d] : todo'[d][k] = todo[d][j] \/ todo'[d][k] = Detached(todo[d][j])
         \/ Fresh(d, todo'[d][k]) /\ (Handle(d) \/ Step(d))
<1>0. todo \in [Conns -> Seq(Instructions)]
  BY DEF Types, QueueTypes
<1>1. CASE todo'[d] = todo[d]
  BY <1>1
<1>2. ASSUME NEW c \in Conns, Handle(c) \/ (Step(c) /\ ~ CheckUnload(c)), todo'[d] # todo[d]
      PROVE  (Fresh(d, todo'[d][k]) /\ (Handle(d) \/ Step(d))) \/ \E j \in DOMAIN todo[d] : todo'[d][k] = todo[d][j]
  <2>1. PICK s : todo' = [todo EXCEPT ![c] = s] /\ Scheduled(c, s)
    BY <1>2, ScriptIs
  <2>2. c = d /\ todo'[d] = s
    BY <1>0, <1>2, <2>1
  <2> QED BY <1>2, <2>1, <2>2 DEF Scheduled
<1>3. ASSUME NEW c \in Conns, CheckUnload(c)
      PROVE  \E j \in DOMAIN todo[d] : todo'[d][k] = todo[d][j] \/ todo'[d][k] = Detached(todo[d][j])
  <2>1. CASE todo' = [todo EXCEPT ![c] = << >>]
    <3>1. todo'[d] = IF d = c THEN << >> ELSE todo[d]
      BY <1>0, <2>1
    <3>2. d = c => DOMAIN todo'[d] = {}
      BY <3>1
    <3> QED BY <3>1, <3>2
  <2>2. CASE todo' = [x \in Conns |-> IF x = c THEN << >> ELSE [j \in DOMAIN todo[x] |-> Detached(todo[x][j])]]
    BY <2>2, DetachedList
  <2> QED BY <1>3, <2>1, <2>2, UnloadIs
<1>4. CASE Crash
  <2>1. todo'[d] = << >>
    BY <1>4 DEF Crash
  <2>2. DOMAIN todo'[d] = {}
    BY <2>1
  <2> QED BY <2>2
<1>5. ASSUME NEW c \in Conns, Connect(c) \/ ClientReceives(c) \/ ClientActs(c) PROVE todo' = todo
  BY <1>5, WhoActs
<1>6. CASE Restart \/ UNCHANGED vars
  <2>1. todo' = todo
    BY <1>6 DEF Restart, vars
  <2> QED BY <1>1, <2>1
<1> QED BY <1>1, <1>2, <1>3, <1>4, <1>5, <1>6 DEF Next, Step

\* Only a client that has a text edits, and only its edits are acknowledged.
LEMMA AskedStays ==
  ASSUME Types, [Next]_vars, NEW d \in Conns, link'[d] = "open"
  PROVE  Asked(d)'
<1>1. link[d] = "open" \/ link[d] = "new"
  BY LinkStep
<1>2. Asked(d)
  <2>1. CASE link[d] = "open"
    BY <2>1 DEF Types, Greeted
  <2>2. CASE link[d] = "new"
    <3>1. req[d] = << >> /\ todo[d] = << >>
      BY <2>2 DEF Types, Greeted
    <3>2. DOMAIN req[d] = {} /\ DOMAIN todo[d] = {}
      BY <3>1
    <3> QED BY <3>2 DEF Asked
  <2> QED BY <1>1, <2>1, <2>2
<1>3. ASSUME NEW k \in DOMAIN req'[d], req'[d][k].type = "edit" PROVE client'[d].text \in Texts
  <2> DEFINE R == Requests  s == req[d]
  <2>0. s \in Seq(R) /\ \A j \in DOMAIN s : s[j].type = "edit" => client[d].text \in Texts
    BY <1>2 DEF Types, QueueTypes, Asked
  <2> HIDE DEF R
  <2>1. CASE \E j \in DOMAIN s : req'[d][k] = s[j]
    BY <1>3, <2>0, <2>1, TextStays
  <2>2. CASE req'[d] = s
    BY <2>1, <2>2
  <2>3. CASE req'[d] = << >>
    <3>1. DOMAIN req'[d] = {}
      BY <2>3
    <3> QED BY <3>1
  <2>4. CASE s # << >> /\ req'[d] = Tail(s)
    <3> HIDE DEF s
    <3>1. k + 1 \in DOMAIN s /\ Tail(s)[k] = s[k + 1]
      BY <2>0, <2>4
    <3> QED BY <2>1, <2>4, <3>1
  <2>5. CASE \E m : req'[d] = Append(s, m) /\ (m.type = "edit" => client[d].text # NoText)
    <3>1. PICK m : req'[d] = Append(s, m) /\ (m.type = "edit" => client[d].text # NoText)
      BY <2>5
    <3>2. client[d].text \in Texts \cup {NoText}
      BY DEF Types, ClientTypes, Clients
    <3> HIDE DEF s
    <3>3. Append(s, m)[k] = m \/ \E j \in DOMAIN s : Append(s, m)[k] = s[j]
      BY <2>0, <3>1
    <3> QED BY <1>3, <2>1, <3>1, <3>2, <3>3, TextStays
  <2> QED BY <2>2, <2>3, <2>4, <2>5, ReqIs
<1>4. ASSUME NEW k \in DOMAIN todo'[d], todo'[d][k].do = "reply", NeedsText(todo'[d][k].msg) PROVE client'[d].text \in Texts
  <2>1. CASE \E j \in DOMAIN todo[d] : todo'[d][k] = todo[d][j] \/ todo'[d][k] = Detached(todo[d][j])
    <3>1. PICK j \in DOMAIN todo[d] : todo'[d][k] = todo[d][j] \/ todo'[d][k] = Detached(todo[d][j])
      BY <2>1
    <3>2. todo[d][j] \in Instructions
      <4> DEFINE I == Instructions
      <4>1. todo[d] \in Seq(I)
        BY DEF Types, QueueTypes
      <4> HIDE DEF I
      <4>2. todo[d][j] \in I
        BY <4>1
      <4> QED BY <4>2 DEF I
    <3>3. todo'[d][k] = todo[d][j]
      BY <1>4, <3>1, <3>2, DetachedKind
    <3> QED BY <1>2, <1>4, <3>3, TextStays DEF Asked
  <2>2. CASE Fresh(d, todo'[d][k]) /\ (Handle(d) \/ Step(d))
    <3>1. link[d] = "open"
      <4>1. link[d] = "new" => req[d] = << >> /\ todo[d] = << >>
        BY DEF Types, Greeted
      <4>2. Handle(d) => req[d] # << >> \/ link[d] = "gone"
        BY DEF Handle, HandleJoin, HandleEdit, HandleCursorUpdate, HandleSaveSnapshot, HandleRestoreVersion, HandleCreateDoc,
               HandleDisconnect, Takes
      <4>3. Step(d) => todo[d] # << >>
        BY DEF Step, SendReply, SendNext, BeginBroadcast, CheckAutoSnapshot, CheckUnload, Running
      <4> QED BY <1>1, <2>2, <4>1, <4>2, <4>3
    <3> QED BY <1>4, <2>2, <3>1, TextStays DEF Fresh
  <2> QED BY <2>1, <2>2, TodoAfter
<1> QED BY <1>3, <1>4 DEF Asked, NeedsText

\* Who is in the session after a step.
LEMMA SessionAfter ==
  ASSUME Types, [Next]_vars, NEW d \in Conns, InSession(d)'
  PROVE  InSession(d) \/ (HandleJoin(d) /\ (Joining(d))')
<1>1. PICK u \in DOMAIN session' : session'[u].ws = d
  BY DEF InSession
<1>2. CASE session' = session
  BY <1>1, <1>2 DEF InSession
<1>3. ASSUME u \in DOMAIN session, session'[u].ws = session[u].ws PROVE InSession(d)
  BY <1>1, <1>3 DEF InSession
<1>4. \A x \in DOMAIN session : session[x] \in Entries
  BY DEF Types, SessionTypes
<1>5. ASSUME NEW x \in DOMAIN session, NEW p PROVE [session[x] EXCEPT !.cursor = p].ws = session[x].ws
  <2> DEFINE e == session[x]
  <2>1. e = [ws |-> e.ws, cursor |-> e.cursor, role |-> e.role]
    BY <1>4 DEF Entries
  <2> HIDE DEF e
  <2>2. [e EXCEPT !.cursor = p].ws = e.ws
    BY <2>1
  <2> QED BY <2>2 DEF e
<1>6. ASSUME NEW c \in Conns, HandleJoin(c), session' # session PROVE InSession(d) \/ (HandleJoin(d) /\ (Joining(d))')
  <2> DEFINE entry == [ws |-> c, cursor |-> 0, role |-> db.collab[UserOf[c]]]
             m == DocState(LoadDocument.text, Len(LoadDocument.log))
             s == << Reply(m), Reply(Note), TellOthers(UserOf[c]) >>
  <2>1. session' = Bind(session, UserOf[c], entry) /\ Runs(c, s)
    BY <1>6 DEF HandleJoin
  <2>2. CASE u # UserOf[c]
    BY <1>1, <1>3, <2>1, <2>2 DEF Bind
  <2>3. CASE u = UserOf[c]
    <3>1. session'[u] = entry
      BY <2>1, <2>3 DEF Bind
    <3>2. c = d
      BY <1>1, <3>1
    <3>3. s # << >> /\ Head(s) = Reply(m)
      OBVIOUS
    <3>4. Reply(m).do = "reply" /\ Reply(m).msg = m /\ Greeting(m)
      BY DEF Reply, Greeting, DocState
    <3> HIDE DEF s, m
    <3>5. todo \in [Conns -> Seq(Instructions)]
      BY DEF Types, QueueTypes
    <3>6. todo'[d] = s /\ loop' = d
      BY <2>1, <3>2, <3>3, <3>5 DEF Runs
    <3>7. (Joining(d))'
      BY <3>3, <3>4, <3>6 DEF Joining, Greeting
    <3> QED BY <1>6, <3>2, <3>7
  <2> QED BY <2>2, <2>3
<1>7. ASSUME NEW c \in Conns, HandleEdit(c) PROVE InSession(d)
  <2> DEFINE ops == Applied(Head(req[c]))
  <2>1. session' = session \/ MoveCursors(ops, UserOf[c])
    BY <1>7 DEF HandleEdit
  <2> HIDE DEF ops
  <2>2. ASSUME MoveCursors(ops, UserOf[c]) PROVE u \in DOMAIN session /\ session'[u].ws = session[u].ws
    <3>1. session' = [x \in DOMAIN session |-> IF x = UserOf[c] THEN session[x]
                         ELSE [session[x] EXCEPT !.cursor = MovedCursor(x, ops)]]
      BY <2>2 DEF MoveCursors
    <3>2. u \in DOMAIN session
      BY <1>1, <3>1
    <3>3. session'[u] = session[u] \/ session'[u] = [session[u] EXCEPT !.cursor = MovedCursor(u, ops)]
      BY <3>1, <3>2
    <3> QED BY <1>5, <3>2, <3>3
  <2> QED BY <1>2, <1>3, <2>1, <2>2
<1>8. ASSUME NEW c \in Conns, HandleCursorUpdate(c) PROVE InSession(d)
  <2> DEFINE x == UserOf[c]  p == Head(req[c]).position
  <2>1. session' = session \/ (x \in DOMAIN session /\ session' = [session EXCEPT ![x] = [session[x] EXCEPT !.cursor = p]])
    BY <1>8 DEF HandleCursorUpdate
  <2> HIDE DEF x, p
  <2>2. ASSUME x \in DOMAIN session, session' = [session EXCEPT ![x] = [session[x] EXCEPT !.cursor = p]]
        PROVE  u \in DOMAIN session /\ session'[u].ws = session[u].ws
    <3>1. u \in DOMAIN session /\ session'[u] = IF u = x THEN [session[u] EXCEPT !.cursor = p] ELSE session[u]
      BY <1>1, <2>2
    <3> QED BY <1>5, <3>1
  <2> QED BY <1>2, <1>3, <2>1, <2>2
<1>9. ASSUME NEW c \in Conns, HandleDisconnect(c) PROVE InSession(d)
  <2>1. session' = session \/ session' = Restrict(session, DOMAIN session \ {UserOf[c]})
    BY <1>9 DEF HandleDisconnect, Leave
  <2>2. ASSUME session' = Restrict(session, DOMAIN session \ {UserOf[c]}) PROVE u \in DOMAIN session /\ session'[u].ws = session[u].ws
    BY <1>1, <2>2 DEF Restrict
  <2> QED BY <1>2, <1>3, <2>1, <2>2
<1>10. session' # Empty
  BY <1>1 DEF Empty
<1>11. ASSUME NEW c \in Conns, CheckUnload(c) PROVE session' = session
  BY <1>10, <1>11, UnloadIs
<1>12. ASSUME NEW c \in Conns,
              \/ HandleSaveSnapshot(c) \/ HandleRestoreVersion(c) \/ HandleCreateDoc(c) \/ SendReply(c) \/ SendNext(c)
              \/ BeginBroadcast(c) \/ CheckAutoSnapshot(c)
       PROVE  session' = session
  BY <1>12 DEF HandleSaveSnapshot, HandleRestoreVersion, HandleCreateDoc, SendReply, SendNext, BeginBroadcast, CheckAutoSnapshot
<1>13. ASSUME NEW c \in Conns, Connect(c) \/ ClientReceives(c) \/ ClientActs(c) PROVE session' = session
  BY <1>13, WhoActs
<1>14. ~ Crash
  BY <1>10 DEF Crash
<1>15. CASE Restart \/ UNCHANGED vars
  BY <1>2, <1>15 DEF Restart, vars
<1> QED BY <1>2, <1>6, <1>7, <1>8, <1>9, <1>11, <1>12, <1>13, <1>14, <1>15 DEF Next, Handle, Step

\* A handler about to greet either greets, or stays about to.
LEMMA JoiningStays ==
  ASSUME Types, [Next]_vars, NEW d \in Conns, link'[d] = "open", Joining(d), link[d] = "open"
  PROVE  (Welcome(d))' \/ (Joining(d))'
<1>1. loop = d /\ todo[d] # << >> /\ Head(todo[d]).do = "reply" /\ Greeting(Head(todo[d]).msg) /\ loop # Free
  BY DocAssumption DEF Joining
<1>2. ASSUME UNCHANGED <<loop, todo>> PROVE (Joining(d))'
  BY <1>1, <1>2 DEF Joining, Greeting
<1>3. ASSUME NEW c \in Conns, Handle(c) PROVE FALSE
  BY <1>1, <1>3 DEF Handle, HandleJoin, HandleEdit, HandleCursorUpdate, HandleSaveSnapshot, HandleRestoreVersion, HandleCreateDoc,
               HandleDisconnect, Takes
<1>4. ASSUME NEW c \in Conns, Step(c), ~ SendReply(c) PROVE FALSE
  BY <1>1, <1>4 DEF Step, SendNext, BeginBroadcast, CheckAutoSnapshot, CheckUnload, Running
<1>5. ASSUME NEW c \in Conns, SendReply(c) PROVE (Welcome(d))'
  <2> DEFINE m == Head(todo[c]).msg  b == inbox[d]
  <2>1. c = d
    BY <1>1, <1>5 DEF SendReply, Running
  <2>2. Greeting(m) /\ m # Note /\ Deliver(c, m)
    BY <1>1, <1>5, <2>1 DEF SendReply, Greeting, Note
  <2>3. inbox' = [inbox EXCEPT ![d] = Append(@, m)]
    BY <2>1, <2>2 DEF Deliver
  <2> HIDE DEF m
  <2> DEFINE M == Messages
  <2>4. inbox \in [Conns -> Seq(M)] /\ b \in Seq(M)
    BY DEF Types, QueueTypes
  <2> HIDE DEF M
  <2>5. inbox'[d] = Append(b, m)
    BY <2>3, <2>4
  <2> HIDE DEF b
  <2>6. Len(b) + 1 \in DOMAIN Append(b, m) /\ Append(b, m)[Len(b) + 1] = m
    BY <2>4
  <2> QED BY <2>2, <2>5, <2>6 DEF Welcome, Greeting
<1>6. ASSUME NEW c \in Conns, Connect(c) \/ ClientReceives(c) \/ ClientActs(c) PROVE UNCHANGED <<loop, todo>>
  BY <1>6, WhoActs
<1>7. ~ Crash
  BY DEF Crash
<1>8. CASE Restart \/ UNCHANGED vars
  BY <1>2, <1>8 DEF Restart, vars
<1> QED BY <1>2, <1>3, <1>4, <1>5, <1>6, <1>7, <1>8 DEF Next

\* Every step leaves a client its text before whatever needs one.
LEMMA GreetStep == Types /\ [Next]_vars => Greeted'
<1> SUFFICES ASSUME Types, [Next]_vars, NEW d \in Conns
             PROVE  /\ link'[d] # "open" => inbox'[d] = << >>
                    /\ link'[d] = "new" => req'[d] = << >> /\ todo'[d] = << >> /\ ~ (Listed(d))'
                    /\ link'[d] = "open" =>
                         /\ (InboxReadable(d))' /\ (Asked(d))'
                         /\ (Listed(d))' => (Welcome(d))'
                         /\ (InSession(d))' => (Welcome(d))' \/ (Joining(d))'
  BY DEF Greeted
<1>0. Greeted
  BY DEF Types
<1>1. ASSUME link'[d] # "open" PROVE inbox'[d] = << >>
  <2>1. CASE link[d] = "open"
    <3>1. ClientCloses(d) \/ Crash
      BY <1>1, <2>1, LinkStep
    <3>2. ClientCloses(d) => inbox'[d] = << >>
      <4> DEFINE M == Messages
      <4>1. inbox \in [Conns -> Seq(M)]
        BY DEF Types, QueueTypes
      <4> HIDE DEF M
      <4> QED BY <4>1 DEF ClientCloses
    <3> QED BY <3>1, <3>2 DEF Crash
  <2>2. CASE link[d] # "open"
    <3>1. inbox[d] = << >> /\ ~ ClientReceives(d)
      BY <1>0, <2>2 DEF Greeted, ClientReceives
    <3> QED BY <2>2, <3>1, InboxIs
  <2> QED BY <2>1, <2>2
<1>2. ASSUME link[d] = "new" PROVE ~ InSession(d)
  BY <1>2 DEF Types, Registry, NoGhostEditors, InSession
<1>3. ASSUME link'[d] = "new" PROVE req'[d] = << >> /\ todo'[d] = << >> /\ ~ (Listed(d))'
  <2>1. link[d] = "new" /\ req[d] = << >> /\ todo[d] = << >> /\ ~ Listed(d)
    BY <1>0, <1>3, LinkStep DEF Greeted
  <2>2. ~ (Listed(d))'
    BY <1>2, <2>1, ListedAfter
  <2>3. req'[d] = << >>
    BY <2>1, ReqIs
  <2>4. todo'[d] = << >>
    <3>1. todo' \in [Conns -> Seq(Instructions)]
      BY QueueStep DEF QueueTypes
    <3>2. ~ Handle(d)
      BY <2>1 DEF Handle, HandleJoin, HandleEdit, HandleCursorUpdate, HandleSaveSnapshot, HandleRestoreVersion, HandleCreateDoc,
               HandleDisconnect, Takes
    <3>3. ~ Step(d)
      BY <2>1 DEF Step, SendReply, SendNext, BeginBroadcast, CheckAutoSnapshot, CheckUnload, Running
    <3>4. DOMAIN todo[d] = {}
      BY <2>1
    <3>5. DOMAIN todo'[d] = {}
      BY <3>2, <3>3, <3>4, TodoAfter
    <3> DEFINE s == todo'[d]  I == Instructions
    <3>6. s \in Seq(I) /\ DOMAIN s = {}
      BY <3>1, <3>5
    <3> HIDE DEF s, I
    <3>7. s = << >>
      BY <3>6
    <3> QED BY <3>7 DEF s
  <2> QED BY <2>2, <2>3, <2>4
<1>4. ASSUME link'[d] = "open", (Listed(d))' PROVE (Welcome(d))'
  <2>1. Listed(d) \/ (InSession(d) /\ ~ Joining(d))
    BY <1>4, ListedAfter
  <2>2. link[d] = "open"
    BY <1>0, <1>2, <1>4, <2>1, LinkStep DEF Greeted
  <2>3. Welcome(d)
    BY <1>0, <2>1, <2>2 DEF Greeted
  <2> QED BY <1>4, <2>3, WelcomeStays
<1>5. ASSUME link'[d] = "open", (InSession(d))' PROVE (Welcome(d))' \/ (Joining(d))'
  <2>1. CASE HandleJoin(d) /\ (Joining(d))'
    BY <2>1
  <2>2. CASE InSession(d)
    <3>1. link[d] = "open"
      BY <1>2, <1>5, <2>2, LinkStep
    <3>2. Welcome(d) \/ Joining(d)
      BY <1>0, <2>2, <3>1 DEF Greeted
    <3> QED BY <1>5, <3>1, <3>2, WelcomeStays, JoiningStays
  <2> QED BY <1>5, <2>1, <2>2, SessionAfter
<1> QED BY <1>1, <1>3, <1>4, <1>5, ReadableStays, AskedStays

-----------------------------------------------------------------------------
(* The type invariant holds always.                                        *)

\* The types hold in the initial states.
LEMMA TypesInit == Init => Types
<1> SUFFICES ASSUME Init PROVE Types
  OBVIOUS
<1>1. Registry /\ Versions
  BY RegistryInit, VersionsInit
<1>2. MemoryTypes
  BY DEF Init, MemoryTypes
<1>3. DOMAIN session = {} /\ DOMAIN presence = {}
  BY DEF Init, Empty
<1>4. SessionTypes
  BY <1>3 DEF SessionTypes
<1>5. RowTypes(db)
  <2>0. << >> \in Texts /\ << >> \in Seq(Rows)
    BY DEF Texts
  <2>1. CASE db = NoDocument
    <3>1. DOMAIN db.snaps = {} /\ DOMAIN db.collab = {} /\ db.ops = << >>
      BY <2>1 DEF NoDocument, Empty
    <3> QED BY <2>0, <3>1 DEF RowTypes
  <2>2. ASSUME NEW collab \in Roles, db = SeededDocument(collab) PROVE RowTypes(db)
    <3> DEFINE owner == CHOOSE u \in DOMAIN collab : collab[u] = "owner"
               row == [version |-> 0, op |-> MakeInsert(0, Seed, owner)]
    <3>1. db.snaps = Bind(Bind(Empty, 0, << >>), 1, Seed) /\ db.collab = collab /\ db.ops = << row >>
      BY <2>2 DEF SeededDocument
    <3>2. DOMAIN collab \subseteq Users /\ Range(collab) \subseteq Permissions /\ "owner" \in Range(collab) /\ Seed \in Texts
      BY DocAssumption DEF Permissions, Texts
    <3>3. \E u \in DOMAIN collab : collab[u] = "owner"
      BY <3>2 DEF Range
    <3>4. owner \in Users
      BY <3>2, <3>3
    <3> HIDE DEF owner
    <3>5. row \in Rows
      <4>1. MakeInsert(0, Seed, owner) \in Ops
        BY <3>2, <3>4 DEF MakeInsert, Ops, Operations, Texts
      <4> QED BY <4>1 DEF Rows
    <3> HIDE DEF row
    <3>6. db.ops \in Seq(Rows)
      BY <3>1, <3>5
    <3>7. \A v \in DOMAIN db.snaps : db.snaps[v] \in Texts
      BY <2>0, <3>1, <3>2 DEF Bind, Empty
    <3>8. \A u \in DOMAIN db.collab : db.collab[u] \in Permissions
      BY <3>1, <3>2 DEF Range
    <3> QED BY <3>1, <3>2, <3>6, <3>7, <3>8 DEF RowTypes
  <2> QED BY <2>1, <2>2 DEF Init
<1>6. \A c \in Conns : req[c] = << >> /\ todo[c] = << >> /\ inbox[c] = << >> /\ link[c] = "new"
  BY DEF Init
<1>7. QueueTypes
  BY DEF Init, QueueTypes
<1>8. ClientTypes
  BY DEF Init, ClientTypes, Clients
<1>9. CounterTypes
  BY DEF Init, CounterTypes
<1>10. \A c \in Conns : DOMAIN todo[c] = {}
  BY <1>6
<1>11. Detachable
  BY <1>10 DEF Detachable
<1>12. Greeted
  BY <1>6, <1>10 DEF Greeted, Listed
<1> QED BY <1>1, <1>2, <1>4, <1>5, <1>7, <1>8, <1>9, <1>11, <1>12 DEF Types

\* Every step keeps the types, each part by its own lemma.
LEMMA TypesStep == Types /\ [Next]_vars => Types'
<1> SUFFICES ASSUME Types, [Next]_vars PROVE Types'
  OBVIOUS
<1>1. Registry' /\ Versions'
  BY RegistryStep, VersionsStep DEF Types
<1>2. (RowTypes(db))'
  BY RowStep
<1> QED BY <1>1, <1>2, MemoryStep, SessionStep, QueueStep, ClientStep, CounterStep, DetachStep, GreetStep DEF Types

\* The types hold always.
LEMMA TypesAlways == Spec => []Types
BY TypesInit, TypesStep, PTL DEF Spec

-----------------------------------------------------------------------------
(* What is in memory is what the database would give back.                 *)

\* No operations row is newer than the latest snapshot, and without a documents
\* row there is none.
RowsKept(d) ==
  /\ \A k \in DOMAIN d.ops : d.ops[k].version <= LatestVersion(d)
  /\ ~ d.row => d.ops = << >>

\* The rows of a database as a list.
LEMMA RowsAre ==
  ASSUME NEW d, RowTypes(d)
  PROVE  /\ Len(d.ops) \in Nat /\ DOMAIN d.ops = 1 .. Len(d.ops)
         /\ \A k \in DOMAIN d.ops : d.ops[k] \in Rows /\ d.ops[k].version \in Nat
<1>1. d.ops \in Seq(Rows)
  BY DEF RowTypes
<1>2. Len(d.ops) \in Nat /\ DOMAIN d.ops = 1 .. Len(d.ops) /\ \A k \in DOMAIN d.ops : d.ops[k] \in Rows
  <2> HIDE DEF Rows
  <2> QED BY <1>1
<1> QED BY <1>2 DEF Rows

\* A database with a new snapshot loads the snapshot's text.
LEMMA SnapshotLoads ==
  ASSUME NEW d, NEW e, NEW m, RowTypes(d), HistoryOK(d), RowsKept(d), d.row, m.version = LatestVersion(d),
         SnapshotOf(e, d, m)
  PROVE  LoadText(e) = m.text /\ RowsKept(e) /\ LatestVersion(e) = m.version + 1
<1> DEFINE n == m.version + 1
<1>1. LatestVersion(d) \in Nat /\ \A v \in DOMAIN d.snaps : v \in Nat /\ v <= LatestVersion(d)
  BY LatestIsGreatest DEF HistoryOK, Numbered
<1>2. n \in Nat /\ \A v \in DOMAIN d.snaps : v \in Nat /\ v < n
  BY <1>1
<1>3. LatestVersion(e) = n
  BY <1>2, LatestAfterBind DEF SnapshotOf
<1>4. e.snaps = Bind(d.snaps, n, m.text) /\ e.ops = d.ops /\ e.row = d.row
  BY DEF SnapshotOf
<1>5. n \in DOMAIN e.snaps /\ e.snaps[n] = m.text
  BY <1>4 DEF Bind
<1>6. e.snaps # Empty
  BY <1>5 DEF Empty
<1>7. Base(e) = m.text
  BY <1>3, <1>5, <1>6 DEF Base
<1>8. \A k \in DOMAIN d.ops : d.ops[k].version \in Nat /\ d.ops[k].version <= LatestVersion(d)
  BY RowsAre DEF RowsKept
<1>9. LoadText(e) = Base(e)
  <2> DEFINE j == Len(d.ops)
  <2>1. j \in Nat /\ DOMAIN e.ops = 1 .. j
    BY <1>4, RowsAre
  <2>2. \A k \in 1 .. j : ~ e.ops[k].version >= LatestVersion(e)
    BY <1>1, <1>3, <1>4, <1>8, <2>1
  <2> HIDE DEF j
  <2> QED BY <2>1, <2>2, NothingReplayed
<1>10. RowsKept(e)
  BY <1>1, <1>3, <1>4, <1>8 DEF RowsKept
<1> QED BY <1>3, <1>7, <1>9, <1>10

\* A database with the rows of an edit loads the edited text.
LEMMA LoggedLoads ==
  ASSUME NEW d, RowTypes(d), HistoryOK(d), RowsKept(d), d.row, NEW ops \in Seq(Ops)
  PROVE  LET e == Logged(d, LatestVersion(d), ops)
         IN  LoadText(e) = ApplyOperations(LoadText(d), ops) /\ RowsKept(e) /\ LatestVersion(e) = LatestVersion(d)
             /\ e.snaps = d.snaps
<1> DEFINE v == LatestVersion(d)  e == Logged(d, v, ops)  new == [k \in DOMAIN ops |-> [version |-> v, op |-> ops[k]]]
           n == Len(d.ops)  j == Len(ops)
<1>1. v \in Nat
  BY LatestIsGreatest DEF HistoryOK
<1>2. RowTypes(e) /\ e.snaps = d.snaps /\ e.row = d.row /\ e.ops = d.ops \o new
  BY <1>1, LoggedTypes DEF HistoryOK
<1>3. LatestVersion(e) = v
  BY LoggedKeepsHistory
<1>4. n \in Nat /\ DOMAIN d.ops = 1 .. n
  BY RowsAre
<1>5. j \in Nat /\ DOMAIN ops = 1 .. j
  <2> HIDE DEF Ops
  <2> QED OBVIOUS
<1>6. DOMAIN e.ops = 1 .. n + j /\ (\A k \in 1 .. n : e.ops[k] = d.ops[k])
      /\ \A k \in 1 .. j : e.ops[n + k] = [version |-> v, op |-> ops[k]]
  <2> DEFINE S == Rows  s == d.ops
  <2>1. s \in Seq(S) /\ new = [k \in 1 .. j |-> new[k]] /\ Len(new) = j
    BY <1>5 DEF RowTypes
  <2>2. \A k \in 1 .. j : new[k] = [version |-> v, op |-> ops[k]]
    BY <1>5
  <2>3. DOMAIN s = 1 .. n /\ n \in Nat /\ n = Len(s)
    BY <1>4
  <2> HIDE DEF S, s, new, n, j, v
  <2>4. DOMAIN (s \o new) = 1 .. n + j /\ (\A k \in 1 .. n : (s \o new)[k] = s[k])
        /\ \A k \in 1 .. j : (s \o new)[n + k] = new[k]
    BY <1>5, <2>1, <2>3
  <2> QED BY <1>2, <2>2, <2>4 DEF s, v
<1> HIDE DEF e, n, j, new
<1>7. LoadText(e) = ApplyOperations(LoadText(d), ops)
  <2>1. /\ n \in Nat /\ j \in Nat /\ DOMAIN d.ops = 1 .. n /\ DOMAIN ops = 1 .. j /\ DOMAIN e.ops = 1 .. n + j
        /\ e.snaps = d.snaps /\ LatestVersion(d) \in Nat
    BY <1>1, <1>2, <1>4, <1>5, <1>6
  <2>2. \A k \in 1 .. n : e.ops[k] = d.ops[k]
    BY <1>6
  <2>3. \A k \in 1 .. j : e.ops[n + k] = [version |-> LatestVersion(d), op |-> ops[k]]
    BY <1>6
  <2> HIDE DEF v
  <2> QED BY ONLY <2>1, <2>2, <2>3, LoggedReplayed
<1>8. RowsKept(e)
  <2>1. ASSUME NEW k \in 1 .. n + j PROVE e.ops[k].version <= v
    <3>1. CASE k <= n
      <4>1. k \in 1 .. n
        BY <1>4, <1>5, <3>1
      <4> QED BY <1>4, <1>6, <4>1 DEF RowsKept
    <3>2. CASE ~ (k <= n)
      <4>1. k - n \in 1 .. j /\ k = n + (k - n)
        BY <1>4, <1>5, <3>2
      <4> DEFINE i == k - n
      <4>2. i \in 1 .. j /\ k = n + i
        BY <4>1
      <4> HIDE DEF i
      <4>3. e.ops[k] = [version |-> v, op |-> ops[i]]
        BY <1>6, <4>2
      <4> QED BY <1>1, <4>3
    <3> QED BY <3>1, <3>2
  <2> QED BY <1>2, <1>3, <1>6, <2>1 DEF RowsKept
<1> QED BY <1>2, <1>3, <1>7, <1>8 DEF e

\* A database without rows that has no version, or an empty version 0, loads
\* an empty text; so do the commits of handle_create_doc.
LEMMA EmptyLoads ==
  ASSUME NEW d, d.ops = << >>, DOMAIN d.snaps = {} \/ d.snaps = Bind(Empty, 0, << >>), Numbered(d.snaps)
  PROVE  LoadText(d) = << >> /\ RowsKept(d)
<1>1. DOMAIN d.ops = 1 .. 0 /\ DOMAIN d.ops = {}
  OBVIOUS
<1>2. LoadText(d) = Base(d)
  <2>1. \A k \in 1 .. 0 : ~ d.ops[k].version >= LatestVersion(d)
    OBVIOUS
  <2>2. 0 \in Nat
    OBVIOUS
  <2> QED BY <1>1, <2>1, <2>2, NothingReplayed
<1>3. CASE DOMAIN d.snaps = {}
  <2>1. d.snaps = Empty
    BY <1>3 DEF Empty, Numbered
  <2> QED BY <1>1, <1>2, <2>1 DEF Base, RowsKept
<1>4. CASE d.snaps = Bind(Empty, 0, << >>)
  <2>1. DOMAIN d.snaps = {0} /\ d.snaps[0] = << >>
    BY <1>4 DEF Bind, Empty
  <2>2. LatestVersion(d) \in DOMAIN d.snaps
    BY <2>1, LatestIsGreatest
  <2> QED BY <1>1, <1>2, <2>1, <2>2 DEF Base, RowsKept
<1> QED BY <1>3, <1>4

\* The commits of handle_create_doc.
LEMMA CreateLoads ==
  ASSUME RowTypes(db), HistoryOK(db), RowsKept(db), ~ db.row, NEW u, NEW k \in 1 .. 3
  PROVE  LET e == CreateCommits(u)[k]
         IN  /\ LoadText(e) = << >> /\ LoadText(db) = << >> /\ RowsKept(e) /\ e.ops = << >>
             /\ e.snaps = db.snaps \/ e.snaps = Bind(Empty, 0, << >>)
             /\ DOMAIN db.snaps = {} /\ Last(CreateCommits(u)) = CreateCommits(u)[3] /\ e.row
<1> DEFINE s == CreateCommits(u)
<1>1. /\ db = [row |-> db.row, collab |-> db.collab, snaps |-> db.snaps, ops |-> db.ops,
               current |-> db.current]
      /\ Numbered(db.snaps) /\ DOMAIN db.snaps = {} /\ db.current = 0 /\ db.ops = << >>
  BY DEF HistoryOK, DbShape, RowsKept
<1>2. /\ s[1] = [row |-> TRUE, collab |-> db.collab, snaps |-> db.snaps, ops |-> db.ops,
                 current |-> db.current]
      /\ s[2] = [row |-> TRUE, collab |-> Bind(Empty, u, "owner"), snaps |-> db.snaps,
                 ops |-> db.ops, current |-> db.current]
      /\ s[3] = [row |-> TRUE, collab |-> Bind(Empty, u, "owner"), snaps |-> Bind(Empty, 0, << >>),
                 ops |-> db.ops, current |-> db.current]
      /\ Len(s) = 3 /\ Last(s) = s[3]
  BY <1>1 DEF CreateCommits, Last
<1> HIDE DEF s
<1>3. Numbered(Bind(Empty, 0, << >>))
  BY FirstVersion
<1> DEFINE e == s[k]
<1>4. e.ops = << >> /\ (e.snaps = db.snaps \/ e.snaps = Bind(Empty, 0, << >>)) /\ e.row
  BY <1>1, <1>2
<1> HIDE DEF e
<1>5. LoadText(e) = << >> /\ RowsKept(e)
  BY <1>1, <1>3, <1>4, EmptyLoads
<1>6. LoadText(db) = << >>
  BY <1>1, EmptyLoads
<1> QED BY <1>1, <1>2, <1>4, <1>5, <1>6 DEF e, s

\* What a step makes of the database.
LEMMA DbStep ==
  ASSUME Types, [Next]_vars
  PROVE  \/ db' = db
         \/ \E c \in Conns : \E k \in Nat :
              LET m == Head(req[c]) IN
              /\ Loaded /\ m \in Requests /\ m.type = "edit" /\ req[c] # << >> /\ k <= Len(Applied(m))
              /\ db' = Logged(db, doc.version, SubSeq(Applied(m), 1, k))
         \/ Loaded /\ SnapshotOf(db', db, doc)
         \/ \E v \in DOMAIN db.snaps : SnapshotOf(db', db, Restored(v))
         \/ ~ db.row /\ \E u \in Users : \E k \in 1 .. 3 : db' = CreateCommits(u)[k]
<1>0. DbShape(db) /\ MemoryTypes /\ HistoryOK(db) /\ RowTypes(db)
  BY DEF Types, Versions, HistoryOK
<1> DEFINE Edited == \E c \in Conns : \E k \in Nat :
                       LET m == Head(req[c]) IN
                       /\ Loaded /\ m \in Requests /\ m.type = "edit" /\ req[c] # << >> /\ k <= Len(Applied(m))
                       /\ db' = Logged(db, doc.version, SubSeq(Applied(m), 1, k))
           Created == ~ db.row /\ \E u \in Users : \E k \in 1 .. 3 : db' = CreateCommits(u)[k]
<1>1. ASSUME NEW c \in Conns, HandleEdit(c) PROVE db' = db \/ Edited
  <2> DEFINE m == Head(req[c])  ops == Applied(m)
  <2>1. db' = db \/ (Loaded /\ db' = Logged(db, doc.version, ops))
    BY <1>1 DEF HandleEdit
  <2>2. m \in Requests /\ m.type = "edit" /\ (Loaded => ops \in Seq(Made)) /\ req[c] # << >>
    BY <1>1, EditIs DEF HandleEdit, Takes
  <2>3. Loaded => Len(ops) \in Nat /\ SubSeq(ops, 1, Len(ops)) = ops
    <3> HIDE DEF ops, Made
    <3> QED BY <2>2
  <2> DEFINE n == Len(ops)
  <2>4. Loaded => n \in Nat /\ n <= Len(ops) /\ SubSeq(ops, 1, n) = ops
    BY <2>3
  <2> HIDE DEF n
  <2>5. CASE Loaded /\ db' = Logged(db, doc.version, ops)
    <3>1. db' = Logged(db, doc.version, SubSeq(ops, 1, n)) /\ n \in Nat /\ n <= Len(ops)
      BY <2>4, <2>5
    <3> HIDE DEF m
    <3> QED BY <2>2, <2>5, <3>1 DEF m
  <2> QED BY <2>1, <2>5
<1>2. ASSUME NEW c \in Conns, HandleSaveSnapshot(c) \/ CheckAutoSnapshot(c)
      PROVE  db' = db \/ (Loaded /\ SnapshotOf(db', db, doc))
  <2>1. db' = db \/ (Loaded /\ CreateSnapshot(doc))
    BY <1>2 DEF HandleSaveSnapshot, CheckAutoSnapshot
  <2> QED BY <1>0, <2>1, SnapshotFields DEF CreateSnapshot
<1>3. ASSUME NEW c \in Conns, HandleRestoreVersion(c)
      PROVE  db' = db \/ \E v \in DOMAIN db.snaps : SnapshotOf(db', db, Restored(v))
  <2>1. db' = db \/ \E v \in DOMAIN db.snaps : CreateSnapshot(Restored(v))
    BY <1>3 DEF HandleRestoreVersion
  <2>2. ASSUME NEW v \in DOMAIN db.snaps, CreateSnapshot(Restored(v)) PROVE SnapshotOf(db', db, Restored(v))
    <3> DEFINE m == Restored(v)
    <3>1. CreateSnapshot(m)
      BY <2>2
    <3> HIDE DEF m
    <3>2. SnapshotOf(db', db, m)
      BY <1>0, <3>1, SnapshotFields DEF CreateSnapshot
    <3> QED BY <3>2 DEF m
  <2> QED BY <2>1, <2>2
<1>4. ASSUME ~ db.row, NEW u PROVE Last(CreateCommits(u)) = CreateCommits(u)[3] /\ Len(CreateCommits(u)) = 3
  BY <1>0, <1>4, CreateKeepsHistory DEF CreateCommits, Last
<1>5. ASSUME NEW c \in Conns, HandleCreateDoc(c) PROVE db' = db \/ Created
  <2> DEFINE u == UserOf[c]
  <2>1. db' = db \/ (~ db.row /\ db' = Last(CreateCommits(u)))
    BY <1>5 DEF HandleCreateDoc
  <2>2. u \in Users /\ 3 \in 1 .. 3
    BY DEF Users
  <2> HIDE DEF u
  <2> QED BY <1>4, <2>1, <2>2
<1>6. ASSUME NEW c \in Conns, CheckUnload(c) PROVE db' = db \/ (Loaded /\ SnapshotOf(db', db, doc))
  <2>1. db' = db \/ (Loaded /\ db' = Last(SnapshotCommits(db, doc)))
    BY <1>6 DEF CheckUnload
  <2> QED BY <1>0, <2>1, SnapshotFields
<1>7. ASSUME NEW c \in Conns, db' \in CutShort(c)
      PROVE  \/ Edited \/ Created \/ (Loaded /\ SnapshotOf(db', db, doc))
             \/ \E v \in DOMAIN db.snaps : SnapshotOf(db', db, Restored(v))
  <2> DEFINE m == Head(req[c])  d == db'
  <2>1. \/ Loaded /\ \E k \in 1 .. Len(SnapshotCommits(db, doc)) - 1 : d = SnapshotCommits(db, doc)[k]
        \/ /\ req[c] # << >> /\ m.type = "edit" /\ Loaded
           /\ \E k \in 0 .. Len(Applied(m)) - 1 : d = Logged(db, doc.version, SubSeq(Applied(m), 1, k))
        \/ \E v \in DOMAIN db.snaps : \E k \in 1 .. Len(SnapshotCommits(db, Restored(v))) - 1 :
             d = SnapshotCommits(db, Restored(v))[k]
        \/ ~db.row /\ \E k \in 1 .. Len(CreateCommits(UserOf[c])) - 1 : d = CreateCommits(UserOf[c])[k]
    <3>1. d \in CutShort(c)
      BY <1>7
    <3> HIDE DEF d
    <3> QED BY <3>1 DEF CutShort
  <2> HIDE DEF d
  <2>2. ASSUME NEW x, NEW k \in 1 .. Len(SnapshotCommits(db, x)) - 1, d = SnapshotCommits(db, x)[k]
        PROVE  SnapshotOf(d, db, x)
    <3>1. Len(SnapshotCommits(db, x)) = 2 /\ SnapshotOf(SnapshotCommits(db, x)[1], db, x)
      BY <1>0, SnapshotFields
    <3>2. k = 1
      BY <3>1
    <3> QED BY <2>2, <3>1, <3>2
  <2>3. CASE Loaded /\ \E k \in 1 .. Len(SnapshotCommits(db, doc)) - 1 : d = SnapshotCommits(db, doc)[k]
    BY <2>2, <2>3 DEF d
  <2>4. CASE \E v \in DOMAIN db.snaps : \E k \in 1 .. Len(SnapshotCommits(db, Restored(v))) - 1 :
             d = SnapshotCommits(db, Restored(v))[k]
    BY <2>2, <2>4 DEF d
  <2>5. CASE ~db.row /\ \E k \in 1 .. Len(CreateCommits(UserOf[c])) - 1 : d = CreateCommits(UserOf[c])[k]
    <3> DEFINE u == UserOf[c]
    <3>1. u \in Users /\ ~ db.row /\ \E k \in 1 .. Len(CreateCommits(u)) - 1 : d = CreateCommits(u)[k]
      BY <2>5 DEF Users
    <3> HIDE DEF u
    <3>2. Len(CreateCommits(u)) = 3
      BY <1>4, <3>1
    <3>3. \E k \in 1 .. 3 : d = CreateCommits(u)[k]
      BY <3>1, <3>2
    <3> QED BY <3>1, <3>3 DEF d
  <2>6. CASE /\ req[c] # << >> /\ m.type = "edit" /\ Loaded
             /\ \E k \in 0 .. Len(Applied(m)) - 1 : d = Logged(db, doc.version, SubSeq(Applied(m), 1, k))
    <3>1. m \in Requests
      <4>1. req[c] \in Seq(Requests) /\ req[c] # << >>
        BY <2>6 DEF Types, QueueTypes
      <4> HIDE DEF Requests
      <4> QED BY <4>1
    <3>2. doc \in Documents /\ Applied(m) \in Seq(Made)
      BY <1>0, <2>6, <3>1, RequestIs, AppliedMade DEF MemoryTypes, Loaded
    <3> DEFINE ops == Applied(m)
    <3>3. Len(ops) \in Nat
      <4> HIDE DEF ops, Made
      <4> QED BY <3>2
    <3>4. PICK k \in 0 .. Len(ops) - 1 : d = Logged(db, doc.version, SubSeq(ops, 1, k))
      BY <2>6
    <3>5. k \in Nat /\ k <= Len(ops)
      BY <3>3
    <3> QED BY <2>6, <3>1, <3>4, <3>5 DEF d
  <2> QED BY <2>1, <2>3, <2>4, <2>5, <2>6
<1>8. CASE Crash
  <2>1. db' = db \/ \E c \in Conns : db' \in CutShort(c)
    BY <1>0, <1>8 DEF Crash, MemoryTypes
  <2> QED BY <1>7, <2>1
<1>9. ASSUME NEW c \in Conns,
             \/ HandleJoin(c) \/ HandleCursorUpdate(c) \/ HandleDisconnect(c) \/ SendReply(c) \/ SendNext(c)
             \/ BeginBroadcast(c) \/ Connect(c) \/ ClientReceives(c) \/ ClientActs(c)
      PROVE  db' = db
  BY <1>9, WhoActs DEF HandleJoin, HandleCursorUpdate, HandleDisconnect, SendReply, SendNext, BeginBroadcast
<1>10. CASE Restart \/ UNCHANGED vars
  BY <1>10 DEF Restart, vars
<1> QED BY <1>1, <1>2, <1>3, <1>5, <1>6, <1>8, <1>9, <1>10 DEF Next, Handle, Step

\* The invariant of the database and the document in memory.
Stored == Types /\ RowsKept(db) /\ (Loaded => doc.text = LoadText(db))

\* The prefixes of an edit's operations.
LEMMA EditPrefix ==
  ASSUME Types, Loaded, NEW m \in Requests, m.type = "edit", NEW k \in Nat, k <= Len(Applied(m))
  PROVE  /\ doc \in Documents /\ Applied(m) \in Seq(Made) /\ SubSeq(Applied(m), 1, k) \in Seq(Made)
         /\ SubSeq(Applied(m), 1, k) \in Seq(Ops) /\ Len(SubSeq(Applied(m), 1, k)) = k
         /\ \A j \in 1 .. k : SubSeq(Applied(m), 1, k)[j] = Applied(m)[j]
<1>1. doc \in Documents
  BY DEF Types, MemoryTypes, Loaded
<1> DEFINE ops == Applied(m)
<1>2. ops \in Seq(Made)
  BY <1>1, RequestIs, AppliedMade
<1>3. k <= Len(ops)
  OBVIOUS
<1> HIDE DEF ops
<1>4. SubSeq(ops, 1, k) \in Seq(Made) /\ Len(SubSeq(ops, 1, k)) = k /\ \A j \in 1 .. k : SubSeq(ops, 1, k)[j] = ops[j]
  <2> HIDE DEF Made
  <2> QED BY <1>2, <1>3
<1>5. SubSeq(ops, 1, k) \in Seq(Ops)
  BY <1>4, MadeAreOps
<1> QED BY <1>1, <1>2, <1>4, <1>5 DEF ops

\* What every step makes of the rows and of the text that a load would give.
LEMMA StoredDb ==
  ASSUME Stored, [Next]_vars
  PROVE  /\ (RowsKept(db))'
         /\ \/ db' = db
            \/ \E c \in Conns : \E k \in Nat :
                 LET m == Head(req[c]) IN
                 /\ Loaded /\ m \in Requests /\ m.type = "edit" /\ k <= Len(Applied(m)) /\ req[c] # << >>
                 /\ db' = Logged(db, doc.version, SubSeq(Applied(m), 1, k))
                 /\ Durable' = ApplyOperations(Durable, SubSeq(Applied(m), 1, k)) /\ db'.snaps = db.snaps
            \/ /\ Loaded /\ Durable' = doc.text /\ Durable' = Durable
               /\ db'.snaps = Bind(db.snaps, LatestVersion(db) + 1, Durable)
            \/ \E v \in DOMAIN db.snaps :
                 /\ Durable' = db.snaps[v] /\ db'.snaps = Bind(db.snaps, LatestVersion(db) + 1, db.snaps[v])
            \/ /\ ~ db.row /\ Durable = << >> /\ Durable' = << >> /\ DOMAIN db.snaps = {}
               /\ db'.snaps = db.snaps \/ db'.snaps = Bind(Empty, 0, << >>)
<1>0. /\ Types /\ RowsKept(db) /\ RowTypes(db) /\ HistoryOK(db) /\ Versions
      /\ (Loaded => doc.text = LoadText(db) /\ db.row /\ doc.version = LatestVersion(db))
  BY DEF Stored, Types, Versions, LoadedLatest
<1>1. ASSUME NEW e, db' = e PROVE Durable' = LoadText(e) /\ (RowsKept(e) => (RowsKept(db))') /\ db'.snaps = e.snaps
  <2>1. (RowsKept(db))' <=> RowsKept(db')
    BY DEF RowsKept
  <2> QED BY <1>1, <2>1 DEF Durable
<1>2. CASE db' = db
  BY <1>0, <1>2 DEF RowsKept
<1>3. ASSUME NEW c \in Conns, NEW k \in Nat, Loaded, Head(req[c]) \in Requests, Head(req[c]).type = "edit",
             k <= Len(Applied(Head(req[c]))), db' = Logged(db, doc.version, SubSeq(Applied(Head(req[c])), 1, k))
      PROVE  /\ (RowsKept(db))' /\ db'.snaps = db.snaps
             /\ Durable' = ApplyOperations(Durable, SubSeq(Applied(Head(req[c])), 1, k))
  <2> DEFINE m == Head(req[c])  ops == SubSeq(Applied(m), 1, k)  e == Logged(db, LatestVersion(db), ops)
  <2>1. m \in Requests /\ m.type = "edit" /\ k <= Len(Applied(m)) /\ db' = e
    BY <1>0, <1>3
  <2> HIDE DEF m
  <2>2. ops \in Seq(Ops)
    BY <1>0, <1>3, <2>1, EditPrefix
  <2> HIDE DEF ops
  <2>3. LoadText(e) = ApplyOperations(LoadText(db), ops) /\ RowsKept(e) /\ e.snaps = db.snaps
    BY <1>0, <1>3, <2>2, LoggedLoads
  <2> HIDE DEF e
  <2> QED BY <1>1, <2>1, <2>3 DEF Durable, ops, m
<1>4. ASSUME NEW m, m.version = LatestVersion(db), db.row, SnapshotOf(db', db, m)
      PROVE  (RowsKept(db))' /\ Durable' = m.text /\ db'.snaps = Bind(db.snaps, LatestVersion(db) + 1, m.text)
  <2> DEFINE e == db'
  <2>1. SnapshotOf(e, db, m) /\ db' = e
    BY <1>4
  <2> HIDE DEF e
  <2>2. LoadText(e) = m.text /\ RowsKept(e)
    BY <1>0, <1>4, <2>1, SnapshotLoads
  <2>3. e.snaps = Bind(db.snaps, LatestVersion(db) + 1, m.text)
    BY <1>4, <2>1 DEF SnapshotOf
  <2> QED BY <1>1, <2>1, <2>2, <2>3
<1>5. CASE Loaded /\ SnapshotOf(db', db, doc)
  <2>1. /\ (RowsKept(db))' /\ Durable' = doc.text
        /\ db'.snaps = Bind(db.snaps, LatestVersion(db) + 1, doc.text) /\ doc.text = Durable
    BY <1>0, <1>4, <1>5 DEF Durable
  <2> QED BY <1>5, <2>1
<1>6. ASSUME NEW v \in DOMAIN db.snaps, SnapshotOf(db', db, Restored(v))
      PROVE  (RowsKept(db))' /\ Durable' = db.snaps[v] /\ db'.snaps = Bind(db.snaps, LatestVersion(db) + 1, db.snaps[v])
  <2> DEFINE m == Restored(v)
  <2>1. m.version = LatestVersion(db)
    BY <1>0, MemoryIsLatest
  <2>2. m.text = db.snaps[v]
    <3> DEFINE l == LoadDocument  t == db.snaps[v]
    <3>1. l = [text |-> l.text, version |-> l.version, pending |-> l.pending, log |-> l.log]
      BY <1>0, MemoryIsLatest DEF DocShape
    <3>2. m = [l EXCEPT !.text = t, !.pending = 0, !.log = << >>]
      BY DEF Restored
    <3> HIDE DEF l, t, m
    <3>3. m.text = t
      BY <3>1, <3>2
    <3> QED BY <3>3 DEF t
  <2>3. db.row
    BY <1>0 DEF HistoryOK
  <2>4. SnapshotOf(db', db, m)
    BY <1>6
  <2> HIDE DEF m
  <2>5. (RowsKept(db))' /\ Durable' = m.text /\ db'.snaps = Bind(db.snaps, LatestVersion(db) + 1, m.text)
    BY <1>4, <2>1, <2>3, <2>4
  <2> QED BY <2>2, <2>5
<1>7. ASSUME ~ db.row, NEW u \in Users, NEW k \in 1 .. 3, db' = CreateCommits(u)[k]
      PROVE  /\ (RowsKept(db))' /\ Durable = << >> /\ Durable' = << >> /\ DOMAIN db.snaps = {}
             /\ db'.snaps = db.snaps \/ db'.snaps = Bind(Empty, 0, << >>)
  <2> DEFINE e == CreateCommits(u)[k]
  <2>1. /\ LoadText(e) = << >> /\ LoadText(db) = << >> /\ RowsKept(e) /\ DOMAIN db.snaps = {}
        /\ e.snaps = db.snaps \/ e.snaps = Bind(Empty, 0, << >>)
    BY <1>0, <1>7, CreateLoads
  <2>2. db' = e
    BY <1>7
  <2> HIDE DEF e
  <2> QED BY <1>1, <2>1, <2>2 DEF Durable
<1> QED BY <1>0, <1>2, <1>3, <1>5, <1>6, <1>7, DbStep

\* What is in memory after a step is what a load would give.
LEMMA StoredStep == Stored /\ [Next]_vars => Stored'
<1> SUFFICES ASSUME Stored, [Next]_vars PROVE Stored'
  OBVIOUS
<1>0. /\ Types /\ RowsKept(db) /\ RowTypes(db) /\ HistoryOK(db) /\ Versions
      /\ (Loaded => doc.text = LoadText(db) /\ db.row /\ doc.version = LatestVersion(db))
  BY DEF Stored, Types, Versions, LoadedLatest
<1>1. Types' /\ (RowsKept(db))'
  BY <1>0, TypesStep, StoredDb
<1>2. ASSUME Loaded' => doc'.text = Durable' PROVE Stored'
  BY <1>1, <1>2 DEF Stored, Durable
<1>3. CASE UNCHANGED <<doc, db>>
  BY <1>0, <1>2, <1>3 DEF Loaded, Durable
<1>4. ASSUME NEW c \in Conns, HandleJoin(c) PROVE Stored'
  <2>1. db' = db /\ (doc' = doc \/ doc' = LoadDocument)
    BY <1>4 DEF HandleJoin
  <2>2. LoadDocument.text = LoadText(db)
    BY <1>0 DEF LoadDocument
  <2>3. doc' = LoadDocument => doc'.text = Durable'
    BY <2>1, <2>2 DEF Durable
  <2> QED BY <1>2, <1>3, <2>1, <2>3
<1>5. ASSUME NEW c \in Conns, HandleEdit(c) PROVE Stored'
  <2> DEFINE ops == Applied(Head(req[c]))  text == ApplyOperations(doc.text, ops)  log == doc.log \o ops
             pending == doc.pending + Len(ops)
  <2>1. \/ UNCHANGED <<doc, db>>
        \/ /\ Loaded /\ doc' = [doc EXCEPT !.text = text, !.log = log, !.pending = pending]
           /\ db' = Logged(db, doc.version, ops)
    BY <1>5 DEF HandleEdit
  <2>2. Loaded => ops \in Seq(Made) /\ doc \in Documents
    BY <1>0, <1>5, EditIs
  <2>3. CASE Loaded /\ doc' = [doc EXCEPT !.text = text, !.log = log, !.pending = pending] /\ db' = Logged(db, doc.version, ops)
    <3>1. doc'.text = text
      <4> DEFINE m == doc
      <4>1. m = [text |-> m.text, version |-> m.version, pending |-> m.pending, log |-> m.log]
            /\ doc' = [m EXCEPT !.text = text, !.log = log, !.pending = pending]
        BY <2>2, <2>3 DEF Documents
      <4> HIDE DEF m, text, log, pending
      <4> QED BY <4>1
    <3> HIDE DEF ops
    <3>2. ops \in Seq(Ops)
      BY <2>2, <2>3, MadeAreOps
    <3> DEFINE e == Logged(db, LatestVersion(db), ops)
    <3>3. LoadText(e) = ApplyOperations(LoadText(db), ops) /\ db' = e
      BY <1>0, <2>3, <3>2, LoggedLoads
    <3> HIDE DEF e
    <3>4. doc'.text = Durable'
      BY <1>0, <2>3, <3>1, <3>3 DEF Durable
    <3> QED BY <1>2, <3>4
  <2> QED BY <1>3, <2>1, <2>3
<1>6. ASSUME NEW m \in Documents, m.version = LatestVersion(db), db.row, CreateSnapshot(m) PROVE Stored'
  <2>1. doc' = [m EXCEPT !.version = @ + 1, !.pending = 0]
    BY <1>6 DEF CreateSnapshot, Snapshotted
  <2>2. doc'.text = m.text
    <3>1. m = [text |-> m.text, version |-> m.version, pending |-> m.pending, log |-> m.log]
      BY DEF Documents
    <3> QED BY <2>1, <3>1
  <2> DEFINE e == db'
  <2>3. SnapshotOf(e, db, m) /\ db' = e
    BY <1>0, <1>6, SnapshotFields DEF CreateSnapshot, HistoryOK
  <2> HIDE DEF e
  <2>4. LoadText(e) = m.text
    BY <1>0, <1>6, <2>3, SnapshotLoads
  <2>5. Durable' = m.text
    BY <2>3, <2>4 DEF Durable
  <2> QED BY <1>2, <2>2, <2>5
<1>7. ASSUME NEW c \in Conns, HandleSaveSnapshot(c) \/ CheckAutoSnapshot(c) PROVE Stored'
  <2>1. UNCHANGED <<doc, db>> \/ (Loaded /\ CreateSnapshot(doc))
    BY <1>7 DEF HandleSaveSnapshot, CheckAutoSnapshot
  <2>2. Loaded => doc \in Documents
    BY <1>0 DEF Types, MemoryTypes, Loaded
  <2> QED BY <1>0, <1>3, <1>6, <2>1, <2>2
<1>8. ASSUME NEW c \in Conns, HandleRestoreVersion(c) PROVE Stored'
  <2>1. UNCHANGED <<doc, db>> \/ \E v \in DOMAIN db.snaps : CreateSnapshot(Restored(v))
    BY <1>8 DEF HandleRestoreVersion
  <2>2. ASSUME NEW v \in DOMAIN db.snaps, CreateSnapshot(Restored(v)) PROVE Stored'
    <3> DEFINE m == Restored(v)
    <3>1. m \in Documents /\ m.version = LatestVersion(db) /\ db.row /\ CreateSnapshot(m)
      BY <1>0, <2>2, LoadedTyped, MemoryIsLatest DEF Types, HistoryOK
    <3> HIDE DEF m
    <3> QED BY <1>6, <3>1
  <2> QED BY <1>3, <2>1, <2>2
<1>9. ASSUME NEW c \in Conns, HandleCreateDoc(c) PROVE Stored'
  <2>1. doc' = doc /\ (db' = db \/ ~ db.row)
    BY <1>9 DEF HandleCreateDoc
  <2>2. ~ db.row => ~ Loaded'
    BY <1>0, <2>1 DEF Loaded
  <2> QED BY <1>2, <1>3, <2>1, <2>2
<1>10. ASSUME NEW c \in Conns, CheckUnload(c) PROVE Stored'
  <2>1. UNCHANGED <<doc, db>> \/ ~ Loaded'
    BY <1>10 DEF CheckUnload, Loaded
  <2> QED BY <1>2, <1>3, <2>1
<1>11. CASE Crash
  <2>1. ~ Loaded'
    BY <1>11 DEF Crash, Loaded
  <2> QED BY <1>2, <2>1
<1>12. ASSUME NEW c \in Conns,
             \/ HandleCursorUpdate(c) \/ HandleDisconnect(c) \/ SendReply(c) \/ SendNext(c)
             \/ BeginBroadcast(c) \/ Connect(c) \/ ClientReceives(c) \/ ClientActs(c)
      PROVE  UNCHANGED <<doc, db>>
  BY <1>12, WhoActs DEF HandleCursorUpdate, HandleDisconnect, SendReply, SendNext, BeginBroadcast
<1>13. CASE Restart \/ UNCHANGED vars
  BY <1>3, <1>13 DEF Restart, vars
<1> QED BY <1>3, <1>4, <1>5, <1>7, <1>8, <1>9, <1>10, <1>11, <1>12, <1>13 DEF Next, Handle, Step

\* The first database, none or the seeded one, loads as it should.
LEMMA StoredInit == Init => Stored
<1> SUFFICES ASSUME Init PROVE Stored
  OBVIOUS
<1>1. Types /\ ~ Loaded /\ RowTypes(db) /\ HistoryOK(db)
  BY TypesInit DEF Init, Loaded, Types, Versions
<1>2. RowsKept(db)
  <2>1. CASE db = NoDocument
    <3>1. db.ops = << >> /\ DOMAIN << >> = {}
      BY <2>1 DEF NoDocument
    <3> QED BY <3>1 DEF RowsKept
  <2>2. ASSUME NEW collab \in Roles, db = SeededDocument(collab) PROVE RowsKept(db)
    <3> DEFINE row == [version |-> 0, op |-> MakeInsert(0, Seed, CHOOSE u \in DOMAIN collab : collab[u] = "owner")]
    <3>1. db.row /\ db.ops = << row >>
      BY <2>2 DEF SeededDocument
    <3>2. row.version = 0
      OBVIOUS
    <3> HIDE DEF row
    <3>3. \A k \in DOMAIN db.ops : db.ops[k].version = 0
      BY <3>1, <3>2
    <3>4. LatestVersion(db) \in Nat
      BY <1>1, LatestIsGreatest DEF HistoryOK
    <3> QED BY <3>1, <3>3, <3>4 DEF RowsKept
  <2> QED BY <2>1, <2>2 DEF Init
<1> QED BY <1>1, <1>2 DEF Stored

\* Whatever is edited, saved, restored, unloaded, reloaded or cut off by a
\* crash, the document in memory is what the database would give back.
THEOREM Recover == Spec => []Recoverable
<1>1. Stored => Recoverable
  BY DEF Stored, Types, Versions, LoadedLatest, Recoverable, Durable
<1> QED BY StoredInit, StoredStep, <1>1, PTL DEF Spec

-----------------------------------------------------------------------------
(* Redis shows every editor.                                               *)

\* A caret that no single operation of an edit moved is where it was.
LEMMA CaretSteady ==
  ASSUME NEW S, NEW ops \in Seq(S), NEW u,
         \A k \in DOMAIN ops : MovedCursor(u, SubSeq(ops, 1, k)) = MovedCursor(u, SubSeq(ops, 1, k - 1))
  PROVE  MovedCursor(u, ops) = session[u].cursor
<1> DEFINE n == Len(ops)  At(k) == MovedCursor(u, SubSeq(ops, 1, k))
<1>1. n \in Nat /\ DOMAIN ops = 1 .. n /\ SubSeq(ops, 1, n) = ops /\ DOMAIN SubSeq(ops, 1, 0) = 1 .. 0
  OBVIOUS
<1>2. At(0) = session[u].cursor
  <2> DEFINE none == SubSeq(ops, 1, 0)  p == session[u].cursor
  <2>1. DOMAIN none = 1 .. 0 /\ 0 \in Nat
    BY <1>1
  <2> HIDE DEF none, p
  <2>2. PICK out : CaretSteps(out, p, none, 0) /\ FoldLeft(TransformCursor, p, none) = out[0]
    BY <2>1, CaretIsLoop
  <2>3. FoldLeft(TransformCursor, p, none) = p
    BY <2>2 DEF CaretSteps
  <2> QED BY <2>3 DEF MovedCursor, none, p
<1>3. \A k \in 1 .. n : At(k) = At(k - 1)
  BY <1>1
<1>4. MovedCursor(u, ops) = At(n)
  BY <1>1
<1> HIDE DEF At, n
<1> DEFINE T == {k \in Nat : k <= n /\ At(k) # At(0)}
<1>5. T = {}
  <2> SUFFICES ASSUME T # {} PROVE FALSE
    OBVIOUS
  <2>1. PICK k \in T : \A j \in T : k <= j
    <3>1. T \in SUBSET Nat
      OBVIOUS
    <3> HIDE DEF T
    <3> QED BY <3>1, NatLeast
  <2>2. k \in 1 .. n /\ k - 1 \in Nat /\ k - 1 <= n /\ ~ (k <= k - 1)
    BY <1>1, <2>1
  <2>3. At(k - 1) = At(0)
    BY <2>1, <2>2
  <2> QED BY <1>3, <2>1, <2>2, <2>3
<1> QED BY <1>1, <1>2, <1>4, <1>5

\* Carets move in Redis as they do in memory.
LEMMA PresenceStep == Types /\ PresenceShowsEditors /\ [Next]_vars => PresenceShowsEditors'
<1> SUFFICES ASSUME Types, PresenceShowsEditors, [Next]_vars PROVE PresenceShowsEditors'
  OBVIOUS
<1>0. SessionTypes /\ \A u \in DOMAIN session : u \in DOMAIN presence /\ presence[u] = session[u].cursor
  BY DEF Types, PresenceShowsEditors
<1>1. ASSUME UNCHANGED <<session, presence>> PROVE PresenceShowsEditors'
  BY <1>0, <1>1 DEF PresenceShowsEditors
<1>2. ASSUME NEW c \in Conns, HandleJoin(c) PROVE PresenceShowsEditors'
  <2> DEFINE u == UserOf[c]  e == [ws |-> c, cursor |-> 0, role |-> db.collab[u]]
  <2>1. UNCHANGED <<session, presence>> \/ (session' = Bind(session, u, e) /\ presence' = Bind(presence, u, 0))
    BY <1>2 DEF HandleJoin
  <2>2. e.cursor = 0
    OBVIOUS
  <2> HIDE DEF u, e
  <2>3. CASE session' = Bind(session, u, e) /\ presence' = Bind(presence, u, 0)
    <3>1. DOMAIN session' = DOMAIN session \cup {u} /\ \A x \in DOMAIN session' : session'[x] = IF x = u THEN e ELSE session[x]
      BY <2>3 DEF Bind
    <3>2. DOMAIN presence' = DOMAIN presence \cup {u} /\ \A x \in DOMAIN presence' : presence'[x] = IF x = u THEN 0 ELSE presence[x]
      BY <2>3 DEF Bind
    <3> QED BY <1>0, <2>2, <3>1, <3>2 DEF PresenceShowsEditors
  <2> QED BY <1>1, <2>1, <2>3
<1>3. ASSUME NEW c \in Conns, HandleEdit(c) PROVE PresenceShowsEditors'
  <2> DEFINE ops == Applied(Head(req[c]))  a == UserOf[c]
  <2>1. UNCHANGED <<session, presence>> \/ (Loaded /\ MoveCursors(ops, a))
    BY <1>3 DEF HandleEdit
  <2>2. Loaded => ops \in Seq(Made)
    BY <1>3, EditIs
  <2> HIDE DEF ops, a
  <2>3. CASE Loaded /\ MoveCursors(ops, a)
    <3> DEFINE moved == {u \in DOMAIN session \ {a} :
                           \E k \in DOMAIN ops : MovedCursor(u, SubSeq(ops, 1, k)) # MovedCursor(u, SubSeq(ops, 1, k - 1))}
    <3>1. /\ session' = [u \in DOMAIN session |-> IF u = a THEN session[u]
                                                  ELSE [session[u] EXCEPT !.cursor = MovedCursor(u, ops)]]
          /\ presence' = [u \in DOMAIN presence \cup moved |-> IF u \in moved THEN MovedCursor(u, ops) ELSE presence[u]]
      BY <2>3 DEF MoveCursors
    <3>2. /\ a \notin moved
          /\ \A u \in DOMAIN session \ {a} : u \notin moved =>
               \A k \in DOMAIN ops : MovedCursor(u, SubSeq(ops, 1, k)) = MovedCursor(u, SubSeq(ops, 1, k - 1))
      OBVIOUS
    <3> HIDE DEF moved
    <3>3. \A u \in DOMAIN session \ {a} : u \notin moved => MovedCursor(u, ops) = session[u].cursor
      <4> HIDE DEF Made
      <4> QED BY <2>2, <2>3, <3>2, CaretSteady
    <3> SUFFICES ASSUME NEW u \in DOMAIN session' PROVE u \in DOMAIN presence' /\ presence'[u] = session'[u].cursor
      BY DEF PresenceShowsEditors
    <3>4. u \in DOMAIN session /\ u \in DOMAIN presence'
      BY <1>0, <3>1
    <3>5. CASE u = a
      BY <1>0, <3>1, <3>2, <3>4, <3>5
    <3>6. CASE u # a
      <4> DEFINE q == MovedCursor(u, ops)  e == session[u]
      <4>1. session'[u] = [e EXCEPT !.cursor = q] /\ e \in Entries
        BY <1>0, <3>1, <3>4, <3>6 DEF SessionTypes
      <4>2. presence'[u] = q
        BY <1>0, <3>1, <3>3, <3>4, <3>6
      <4> HIDE DEF q, e
      <4>3. session'[u].cursor = q
        BY <4>1 DEF Entries
      <4> QED BY <3>4, <4>2, <4>3
    <3> QED BY <3>5, <3>6
  <2> QED BY <1>1, <2>1, <2>3
<1>4. ASSUME NEW c \in Conns, HandleCursorUpdate(c) PROVE PresenceShowsEditors'
  <2> DEFINE u == UserOf[c]  p == Head(req[c]).position
  <2>1. session' = (IF u \in DOMAIN session THEN [session EXCEPT ![u].cursor = p] ELSE session) /\ presence' = Bind(presence, u, p)
    BY <1>4 DEF HandleCursorUpdate
  <2> HIDE DEF p, u
  <2>2. DOMAIN presence' = DOMAIN presence \cup {u} /\ \A x \in DOMAIN presence' : presence'[x] = IF x = u THEN p ELSE presence[x]
    BY <2>1 DEF Bind
  <2>3. DOMAIN session' = DOMAIN session /\ \A x \in DOMAIN session : x # u => session'[x] = session[x]
    BY <2>1
  <2>4. u \in DOMAIN session => session'[u].cursor = p
    <3> DEFINE e == session[u]
    <3>1. ASSUME u \in DOMAIN session PROVE session'[u] = [e EXCEPT !.cursor = p] /\ e \in Entries
      BY <1>0, <2>1, <3>1 DEF SessionTypes
    <3> HIDE DEF e
    <3> QED BY <3>1 DEF Entries
  <2> QED BY <1>0, <2>2, <2>3, <2>4 DEF PresenceShowsEditors
<1>5. ASSUME NEW c \in Conns, HandleDisconnect(c) PROVE PresenceShowsEditors'
  <2> DEFINE u == UserOf[c]
  <2>1. UNCHANGED <<session, presence>> \/ (/\ session' = Restrict(session, DOMAIN session \ {u})
                                            /\ presence' = Restrict(presence, DOMAIN presence \ {u}))
    BY <1>5 DEF HandleDisconnect, Leave
  <2> HIDE DEF u
  <2>2. CASE /\ session' = Restrict(session, DOMAIN session \ {u})
             /\ presence' = Restrict(presence, DOMAIN presence \ {u})
    <3>1. DOMAIN session' = DOMAIN session \ {u} /\ \A x \in DOMAIN session' : session'[x] = session[x]
      BY <2>2 DEF Restrict
    <3>2. DOMAIN presence' = DOMAIN presence \ {u} /\ \A x \in DOMAIN presence' : presence'[x] = presence[x]
      BY <2>2 DEF Restrict
    <3> QED BY <1>0, <3>1, <3>2 DEF PresenceShowsEditors
  <2> QED BY <1>1, <2>1, <2>2
<1>6. DOMAIN Empty = {}
  BY DEF Empty
<1>7. ASSUME session' = Empty PROVE PresenceShowsEditors'
  <2>1. DOMAIN session' = {}
    BY <1>6, <1>7
  <2> QED BY <2>1 DEF PresenceShowsEditors
<1>8. ASSUME NEW c \in Conns, CheckUnload(c) PROVE PresenceShowsEditors'
  <2>1. UNCHANGED <<session, presence>> \/ session' = Empty
    BY <1>8 DEF CheckUnload
  <2> QED BY <1>1, <1>7, <2>1
<1>9. CASE Crash
  BY <1>7, <1>9 DEF Crash
<1>10. ASSUME NEW c \in Conns,
             \/ HandleSaveSnapshot(c) \/ HandleRestoreVersion(c) \/ HandleCreateDoc(c) \/ SendReply(c) \/ SendNext(c)
             \/ BeginBroadcast(c) \/ CheckAutoSnapshot(c) \/ Connect(c) \/ ClientReceives(c) \/ ClientActs(c)
      PROVE  PresenceShowsEditors'
  <2>1. UNCHANGED <<session, presence>>
    BY <1>10 DEF HandleSaveSnapshot, HandleRestoreVersion, HandleCreateDoc, SendReply, SendNext, BeginBroadcast,
                CheckAutoSnapshot, Connect, ClientReceives, ClientActs, ClientCloses, ClientJoins, ClientEdits,
                ClientMovesCursor, ClientSaves, ClientRestores, ClientCreates, ClientSends
  <2> QED BY <1>1, <2>1
<1>11. CASE Restart \/ UNCHANGED vars
  BY <1>1, <1>11 DEF Restart, vars
<1> QED
  BY <1>2, <1>3, <1>4, <1>5, <1>8, <1>9, <1>10, <1>11 DEF Next, Handle, Step

\* Redis shows every editor with the caret that the server has for it, whatever
\* carets an edit moves and whoever comes and goes.
THEOREM Shown == Spec => []PresenceShowsEditors
<1>1. Init => PresenceShowsEditors
  BY DEF Init, PresenceShowsEditors, Empty
<1>2. (Types /\ PresenceShowsEditors) /\ [Next]_vars => (Types /\ PresenceShowsEditors)'
  BY TypesStep, PresenceStep
<1> QED BY TypesInit, <1>1, <1>2, PTL DEF Spec

-----------------------------------------------------------------------------
(* The database implements DocStore.                                       *)

\* A text whose characters all come from another one, in their order, and one
\* that is thinned out again.
LEMMA DeletionsCompose ==
  ASSUME NEW r \in Texts, NEW s \in Texts, NEW t \in Texts,
         r = s \/ Store!IsDeletion(r, s), s = t \/ Store!IsDeletion(s, t)
  PROVE  r = t \/ Store!IsDeletion(r, t)
<1>1. ASSUME Store!IsDeletion(r, s), Store!IsDeletion(s, t) PROVE Store!IsDeletion(r, t)
  <2> DEFINE A == DOMAIN r  B == DOMAIN s  C == DOMAIN t
  <2>0. A \subseteq Int /\ B \subseteq Int /\ C \subseteq Int /\ Len(r) \in Int /\ Len(s) \in Int /\ Len(t) \in Int
    BY DEF Texts
  <2>1. PICK f \in [B -> A] : (\A i, j \in B : i < j => f[i] < f[j]) /\ \A i \in B : s[i] = r[f[i]]
    BY <1>1 DEF Store!IsDeletion
  <2>2. PICK g \in [C -> B] : (\A i, j \in C : i < j => g[i] < g[j]) /\ \A i \in C : t[i] = s[g[i]]
    BY <1>1 DEF Store!IsDeletion
  <2>3. Len(t) < Len(r)
    BY <1>1, <2>0 DEF Store!IsDeletion
  <2> DEFINE h == [i \in C |-> f[g[i]]]
  <2> HIDE DEF A, B, C
  <2>4. h \in [C -> A] /\ (\A i, j \in C : i < j => h[i] < h[j]) /\ \A i \in C : t[i] = r[h[i]]
    BY <2>1, <2>2
  <2> HIDE DEF h
  <2> QED BY <2>3, <2>4 DEF Store!IsDeletion, A, C
<1> QED BY <1>1

\* One delete takes characters out of a text, or leaves it as it is.
LEMMA DeleteDeletes ==
  ASSUME NEW t \in Texts, NEW op \in Made, op.type = "delete"
  PROVE  ApplyOperation(t, op) = t \/ Store!IsDeletion(t, ApplyOperation(t, op))
<1> DEFINE n == Len(t)  p == Lesser(op.position, n)  q == Lesser(EndOf(op), n)  d == q - p  s == Delete(t, p, d)
<1>1. op.position \in Nat /\ EndOf(op) \in Nat /\ op.position < EndOf(op)
  BY MadeIs DEF EndOf
<1>2. n \in Nat /\ DOMAIN t = 1 .. n /\ t \in Seq(Nat)
  BY DEF Texts
<1>3. p \in 0 .. n /\ q \in 0 .. n /\ p <= q /\ d \in 0 .. n /\ n - d \in Nat /\ p + d = q
  BY <1>1, <1>2 DEF Lesser
<1>4. ApplyOperation(t, op) = s
  <2>1. Lesser(p, n) = p /\ Lesser(q, n) = q
    <3> HIDE DEF p, q, n
    <3> QED BY <1>2, <1>3 DEF Lesser
  <2> QED BY <1>3, <2>1 DEF ApplyOperation, UpTo, From, Delete
<1> HIDE DEF n, p, q, d, s
<1>5. s \in Seq(Nat) /\ Len(s) = n - d /\ Deleted(s, t, n, p, d)
  <2>1. p \in Nat /\ d \in Nat /\ p + d <= Len(t)
    BY <1>2, <1>3 DEF n
  <2> QED BY <1>2, <2>1, DeleteText DEF n, s
<1>6. CASE d = 0
  <2>1. \A i \in 1 .. n : s[i] = t[i]
    BY <1>2, <1>3, <1>5, <1>6 DEF Deleted
  <2>2. Len(s) = Len(t)
    BY <1>2, <1>5, <1>6 DEF n
  <2>3. s = t
    BY <1>2, <1>5, <2>1, <2>2, SameElements DEF n
  <2> QED BY <1>4, <2>3
<1>7. CASE d # 0
  <2> DEFINE m == n - d  f == [i \in 1 .. m |-> IF i <= p THEN i ELSE i + d]
  <2>1. m \in Nat /\ m < n
    BY <1>2, <1>3, <1>7
  <2>2. DOMAIN s = 1 .. m
    BY <1>5, <2>1
  <2>3. f \in [1 .. m -> 1 .. n]
    BY <1>2, <1>3
  <2>4. \A i, j \in 1 .. m : i < j => f[i] < f[j]
    BY <1>2, <1>3
  <2>5. \A i \in 1 .. m : s[i] = t[f[i]]
    <3> SUFFICES ASSUME NEW i \in 1 .. m PROVE s[i] = t[f[i]]
      OBVIOUS
    <3>1. CASE i <= p
      BY <1>3, <1>5, <3>1 DEF Deleted
    <3>2. CASE p < i
      <4>1. ~ (i <= p)
        BY <1>3, <3>2
      <4> QED BY <1>3, <1>5, <3>2, <4>1 DEF Deleted
    <3> QED BY <1>3, <3>1, <3>2
  <2> HIDE DEF f, m
  <2>6. Len(s) = m /\ Len(t) = n
    BY <1>5 DEF m, n
  <2>7. Store!IsDeletion(t, s)
    BY <1>2, <2>1, <2>2, <2>3, <2>4, <2>5, <2>6 DEF Store!IsDeletion
  <2> QED BY <1>4, <2>7
<1> QED BY <1>6, <1>7

\* So do several.
LEMMA DeletesDelete ==
  ASSUME NEW t \in Texts, NEW ops \in Seq(Made), \A k \in DOMAIN ops : ops[k].type = "delete"
  PROVE  ApplyOperations(t, ops) = t \/ Store!IsDeletion(t, ApplyOperations(t, ops))
<1> DEFINE n == Len(ops)
<1>1. n \in Nat /\ DOMAIN ops = 1 .. n /\ \A k \in 1 .. n : ops[k] \in Made
  <2> HIDE DEF Made
  <2> QED OBVIOUS
<1>2. PICK out : ApplySteps(out, t, ops, n) /\ ApplyOperations(t, ops) = out[n]
  BY <1>1, ApplyIsLoop
<1> HIDE DEF n
<1> DEFINE Good(k) == out[k] \in Texts /\ (out[k] = t \/ Store!IsDeletion(t, out[k]))
<1>3. ASSUME NEW k \in 1 .. n, Good(k - 1) PROVE Good(k)
  <2> DEFINE s == out[k - 1]  r == out[k]
  <2>1. r = ApplyOperation(s, ops[k]) /\ ops[k] \in Made /\ ops[k].type = "delete"
    BY <1>1, <1>2 DEF ApplySteps
  <2>2. s \in Texts /\ (s = t \/ Store!IsDeletion(t, s))
    BY <1>3
  <2> HIDE DEF s, r
  <2>3. r \in Texts
    BY <2>1, <2>2, AppliedText DEF Made, Ops, Texts
  <2>4. r = s \/ Store!IsDeletion(s, r)
    BY <2>1, <2>2, DeleteDeletes
  <2>5. r = t \/ Store!IsDeletion(t, r)
    BY <2>2, <2>3, <2>4, DeletionsCompose
  <2> QED BY <2>3, <2>5 DEF r
<1>4. Good(0)
  BY <1>2 DEF ApplySteps
<1> HIDE DEF Good
<1>5. Good(n)
  <2> DEFINE U == {k \in 0 .. n : ~ Good(k)}
  <2> SUFFICES ASSUME n \in U PROVE FALSE
    BY <1>1
  <2>1. PICK m \in U : \A k \in U : m <= k
    <3>1. U \in SUBSET Nat
      OBVIOUS
    <3> HIDE DEF U
    <3> QED BY <3>1, NatLeast
  <2>2. m # 0
    BY <1>4
  <2>3. m \in 1 .. n /\ m - 1 \in 0 .. n /\ m - 1 \notin U
    BY <1>1, <2>1, <2>2
  <2> QED BY <1>3, <2>3
<1> QED BY <1>2, <1>5 DEF Good

\* An insert adds its characters in one run.
LEMMA InsertInserts ==
  ASSUME NEW t \in Texts, NEW op \in Made, op.type = "insert"
  PROVE  Store!IsInsertion(t, ApplyOperation(t, op))
<1> DEFINE n == Len(t)  p == Lesser(op.position, n)  x == op.content  l == Len(x)  s == Insert(t, p, x)
<1>1. op.position \in Nat /\ x \in Seq(Nat) /\ x # << >>
  BY MadeIs
<1>2. n \in Nat /\ t \in Seq(Nat)
  BY DEF Texts
<1>3. p \in 0 .. n
  BY <1>1, <1>2 DEF Lesser
<1>4. ApplyOperation(t, op) = s
  <2>1. Lesser(p, n) = p
    <3> HIDE DEF p, n
    <3> QED BY <1>2, <1>3 DEF Lesser
  <2> QED BY <2>1 DEF ApplyOperation, UpTo, From, Insert
<1> HIDE DEF x
<1>5. l \in Nat /\ l > 0
  BY <1>1
<1> HIDE DEF n, p, s, l
<1>6. s \in Seq(Nat) /\ Len(s) = n + l /\ Inserted(s, t, n, p, x, l)
  <2>1. p \in Nat /\ p <= Len(t)
    BY <1>2, <1>3 DEF n
  <2> QED BY <1>1, <1>2, <2>1, InsertText DEF n, s, l
<1> DEFINE y == SubSeq(s, 1, p)  z == SubSeq(s, p + l + 1, Len(s))  r == y \o z
<1>7. y \in Seq(Nat) /\ Len(y) = p /\ \A i \in 1 .. p : y[i] = s[i]
  BY <1>2, <1>3, <1>5, <1>6
<1>8. z \in Seq(Nat) /\ Len(z) = n - p /\ \A i \in 1 .. n - p : z[i] = s[p + l + i]
  <2> DEFINE j == p + l  z1 == SubSeq(s, j + 1, Len(s))
  <2>1. j \in Nat /\ j <= Len(s) /\ Len(s) - j = n - p
    BY <1>2, <1>3, <1>5, <1>6
  <2> HIDE DEF j
  <2>2. Lesser(j, Len(s)) = j
    BY <1>6, <2>1 DEF Lesser
  <2>3. From(s, j) = z1
    BY <2>2 DEF From
  <2>4. z1 \in Seq(Nat) /\ Len(z1) = n - p /\ \A i \in 1 .. n - p : z1[i] = s[j + i]
    <3>1. s \in Seq(Nat) /\ j \in Nat /\ j <= Len(s)
      BY <1>6, <2>1
    <3>2. /\ From(s, j) \in Seq(Nat) /\ Len(From(s, j)) = Len(s) - j
          /\ \A i \in 1 .. Len(s) - j : From(s, j)[i] = s[j + i]
      BY ONLY <3>1, FromElements
    <3> HIDE DEF z1
    <3> QED BY ONLY <2>1, <2>3, <3>2
  <2> QED BY <2>4 DEF j
<1> HIDE DEF y, z
<1>9. r \in Seq(Nat) /\ Len(r) = p + (n - p) /\ \A i \in 1 .. p + (n - p) : r[i] = IF i <= p THEN y[i] ELSE z[i - p]
  <2>1. y \in Seq(Nat) /\ z \in Seq(Nat) /\ Len(y) = p /\ Len(z) = n - p
    BY <1>7, <1>8
  <2>2. /\ y \o z \in Seq(Nat) /\ Len(y \o z) = Len(y) + Len(z)
        /\ \A i \in 1 .. Len(y) + Len(z) : (y \o z)[i] = IF i <= Len(y) THEN y[i] ELSE z[i - Len(y)]
    BY ONLY <2>1, ConcatElements
  <2> QED BY ONLY <2>1, <2>2
<1> HIDE DEF r
<1>10. p + (n - p) = n
  BY <1>2, <1>3
<1>11. \A i \in 1 .. n : r[i] = t[i]
  <2> SUFFICES ASSUME NEW i \in 1 .. n PROVE r[i] = t[i]
    OBVIOUS
  <2>1. r[i] = IF i <= p THEN y[i] ELSE z[i - p]
    BY <1>9, <1>10
  <2>2. CASE i <= p
    <3>1. i \in 1 .. p /\ i \in 1 .. n + l
      BY <1>2, <1>3, <1>5, <2>2
    <3>2. s[i] = t[i]
      BY <1>6, <2>2, <3>1 DEF Inserted
    <3> QED BY <1>7, <2>1, <2>2, <3>1, <3>2
  <2>3. CASE ~ (i <= p)
    <3> DEFINE j == i - p  k == p + l + j
    <3>1. j \in 1 .. n - p /\ k \in 1 .. n + l /\ p + l < k /\ k - l = i
      BY <1>2, <1>3, <1>5, <2>3
    <3>2. s[k] = t[k - l]
      <4> HIDE DEF k
      <4> QED BY <1>6, <3>1 DEF Inserted
    <3>3. z[j] = s[k]
      <4> HIDE DEF j
      <4> QED BY <1>8, <3>1
    <3> QED BY <2>1, <2>3, <3>1, <3>2, <3>3
  <2> QED BY <2>2, <2>3
<1>12. r = t
  <2>1. Len(r) = Len(t) /\ Len(r) = n
    BY <1>9, <1>10 DEF n
  <2> QED BY <1>2, <1>9, <1>11, <2>1, SameElements
<1>13. Len(s) - Len(t) = l /\ p \in 0 .. Len(t)
  BY <1>2, <1>3, <1>5, <1>6 DEF n
<1>14. t = y \o z
  BY <1>12 DEF r
<1> QED BY <1>4, <1>5, <1>13, <1>14 DEF Store!IsInsertion, y, z

\* The operations of an edit, none or one of them when it inserts.
LEMMA FewApplied ==
  ASSUME NEW t, NEW ops
  PROVE  /\ DOMAIN ops = 1 .. 0 => ApplyOperations(t, ops) = t
         /\ DOMAIN ops = 1 .. 1 => ApplyOperations(t, ops) = ApplyOperation(t, ops[1])
<1>1. ASSUME DOMAIN ops = 1 .. 0 PROVE ApplyOperations(t, ops) = t
  <2>1. 0 \in Nat
    OBVIOUS
  <2>2. PICK out : ApplySteps(out, t, ops, 0) /\ ApplyOperations(t, ops) = out[0]
    BY <1>1, <2>1, ApplyIsLoop
  <2> QED BY <2>2 DEF ApplySteps
<1>2. ASSUME DOMAIN ops = 1 .. 1 PROVE ApplyOperations(t, ops) = ApplyOperation(t, ops[1])
  <2>1. 1 \in Nat /\ 1 \in 1 .. 1 /\ 1 - 1 = 0
    OBVIOUS
  <2>2. PICK out : ApplySteps(out, t, ops, 1) /\ ApplyOperations(t, ops) = out[1]
    BY <1>2, <2>1, ApplyIsLoop
  <2>3. out[0] = t /\ out[1] = ApplyOperation(out[0], ops[1])
    BY <2>1, <2>2 DEF ApplySteps
  <2> QED BY <2>2, <2>3
<1> QED BY <1>1, <1>2

\* What is applied of one edit, all of it or what a crash left, is one edit of
\* the store, or nothing.
LEMMA EditEdits ==
  ASSUME Stored, Loaded, NEW m \in Requests, m.type = "edit", NEW k \in Nat, k <= Len(Applied(m))
  PROVE  LET t == Durable
             s == ApplyOperations(Durable, SubSeq(Applied(m), 1, k))
         IN  s = t \/ Store!IsInsertion(t, s) \/ Store!IsDeletion(t, s)
<1> DEFINE ops == SubSeq(Applied(m), 1, k)  t == Durable
<1>0. Types /\ m.op \in Made /\ m.rev \in Nat /\ m.op.type \in {"insert", "delete"}
  BY RequestIs, MadeIs DEF Stored
<1>1. /\ doc \in Documents /\ ops \in Seq(Made) /\ Len(ops) = k /\ Applied(m) \in Seq(Made)
      /\ \A j \in 1 .. k : ops[j] = Applied(m)[j]
  BY <1>0, EditPrefix
<1>2. t \in Texts
  BY <1>1 DEF Stored, Documents, Durable
<1>3. CASE m.op.type = "insert"
  <2>1. PICK p \in Nat : Applied(m) = << [m.op EXCEPT !.position = p] >>
    BY <1>0, <1>1, <1>3, AppliedMade
  <2> DEFINE x == [m.op EXCEPT !.position = p]
  <2>2. x.type = "insert"
    BY <1>0, <1>3, MadeIs DEF Operations
  <2>3. Applied(m) = << x >>
    BY <2>1
  <2> HIDE DEF x
  <2>4. Len(Applied(m)) = 1 /\ Applied(m)[1] = x /\ x \in Made
    BY <1>1, <2>3
  <2>5. k = 0 \/ k = 1
    BY <2>4
  <2> HIDE DEF ops, t
  <2>6. DOMAIN ops = 1 .. k
    <3> HIDE DEF Made
    <3> QED BY <1>1
  <2>7. CASE k = 0
    BY <2>6, <2>7, FewApplied DEF ops, t
  <2>8. CASE k = 1
    <3>1. ops[1] = x
      BY <1>1, <2>4, <2>8
    <3>2. ApplyOperations(t, ops) = ApplyOperation(t, x)
      BY <2>6, <2>8, <3>1, FewApplied
    <3>3. Store!IsInsertion(t, ApplyOperation(t, x))
      BY <1>2, <2>2, <2>4, InsertInserts
    <3> QED BY <3>2, <3>3 DEF ops, t
  <2> QED BY <2>5, <2>7, <2>8
<1>4. CASE m.op.type = "delete"
  <2>1. \A j \in DOMAIN Applied(m) : Applied(m)[j].type = "delete"
    BY <1>0, <1>1, <1>4, AppliedMade
  <2>2. \A j \in DOMAIN ops : j \in 1 .. k /\ j \in DOMAIN Applied(m)
    <3> DEFINE all == Applied(m)
    <3> HIDE DEF ops, all, Made
    <3>1. DOMAIN ops = 1 .. k /\ DOMAIN all = 1 .. Len(all) /\ Len(all) \in Nat /\ k <= Len(all)
      BY <1>1 DEF all
    <3> QED BY <3>1 DEF all
  <2>3. \A j \in DOMAIN ops : ops[j].type = "delete"
    BY <1>1, <2>1, <2>2
  <2> HIDE DEF ops, t
  <2>4. ApplyOperations(t, ops) = t \/ Store!IsDeletion(t, ApplyOperations(t, ops))
    BY <1>1, <1>2, <2>3, DeletesDelete
  <2> QED BY <2>4 DEF ops, t
<1> QED BY <1>0, <1>3, <1>4

\* The number of the version that a snapshot gets.
LEMMA NewVersionIsNext ==
  ASSUME Numbered(db.snaps)
  PROVE  LET n == LatestVersion(db) + 1
         IN  n \in Store!NextVersions \cup ({1} \ DOMAIN db.snaps) /\ (DOMAIN db.snaps # {} => n \in Store!NextVersions)
<1> DEFINE l == LatestVersion(db)
<1>1. l \in Nat /\ (\A v \in DOMAIN db.snaps : v \in Nat /\ v <= l) /\ (DOMAIN db.snaps = {} => l = 0)
      /\ (DOMAIN db.snaps # {} => l \in DOMAIN db.snaps)
  BY LatestIsGreatest DEF Numbered
<1> HIDE DEF l
<1>2. \A v \in DOMAIN db.snaps : v < l + 1
  BY <1>1
<1>3. DOMAIN db.snaps # {} => l + 1 \in Store!NextVersions
  BY <1>1, <1>2 DEF Store!NextVersions
<1>4. DOMAIN db.snaps = {} => l + 1 \in {1} \ DOMAIN db.snaps
  BY <1>1
<1> QED BY <1>3, <1>4 DEF l

\* Every step that changes the database is an edit, a save or a restore.
LEMMA DocumentKept == Stored /\ [Next]_vars => db' = db \/ [Store!Next]_Store!vars
<1> SUFFICES ASSUME Stored, [Next]_vars, db' # db PROVE [Store!Next]_Store!vars
  OBVIOUS
<1>0. Types /\ Numbered(db.snaps)
  BY DEF Stored, Types, Versions, HistoryOK
<1> DEFINE n == LatestVersion(db) + 1
<1>1. ASSUME NEW c \in Conns, NEW k \in Nat,
             LET m == Head(req[c]) IN
             /\ Loaded /\ m \in Requests /\ m.type = "edit" /\ k <= Len(Applied(m))
             /\ Durable' = ApplyOperations(Durable, SubSeq(Applied(m), 1, k)) /\ db'.snaps = db.snaps
      PROVE  [Store!Next]_Store!vars
  <2> DEFINE m == Head(req[c])  s == ApplyOperations(Durable, SubSeq(Applied(m), 1, k))
  <2>1. m \in Requests /\ m.type = "edit" /\ Durable' = s /\ db'.snaps = db.snaps
    BY <1>1
  <2>2. s = Durable \/ Store!IsInsertion(Durable, s) \/ Store!IsDeletion(Durable, s)
    BY <1>1, EditEdits
  <2> HIDE DEF m, s
  <2>3. CASE s = Durable
    BY <2>1, <2>3 DEF Store!vars
  <2>4. CASE Store!IsInsertion(Durable, s) \/ Store!IsDeletion(Durable, s)
    BY <2>1, <2>4 DEF Store!Next, Store!Edit
  <2> QED BY <2>2, <2>3, <2>4
<1>2. CASE Durable' = Durable /\ db'.snaps = Bind(db.snaps, n, Durable)
  <2>1. db'.snaps = Store!WithVersion(n, Durable)
    BY <1>2 DEF Bind, Store!WithVersion
  <2>2. n \in Store!NextVersions \cup ({1} \ DOMAIN db.snaps)
    BY <1>0, NewVersionIsNext
  <2> HIDE DEF n
  <2>3. Store!Save
    BY <1>2, <2>1, <2>2 DEF Store!Save
  <2> QED BY <2>3 DEF Store!Next
<1>3. ASSUME NEW v \in DOMAIN db.snaps, Durable' = db.snaps[v], db'.snaps = Bind(db.snaps, n, db.snaps[v])
      PROVE  [Store!Next]_Store!vars
  <2>1. db'.snaps = Store!WithVersion(n, db.snaps[v])
    BY <1>3 DEF Bind, Store!WithVersion
  <2>2. n \in Store!NextVersions
    BY <1>0, NewVersionIsNext
  <2> HIDE DEF n
  <2>3. Store!Restore
    BY <1>3, <2>1, <2>2 DEF Store!Restore
  <2> QED BY <2>3 DEF Store!Next
<1>4. CASE Durable = << >> /\ Durable' = << >> /\ DOMAIN db.snaps = {} /\ db'.snaps = db.snaps
  BY <1>4 DEF Store!vars
<1>5. CASE Durable = << >> /\ Durable' = << >> /\ DOMAIN db.snaps = {} /\ db'.snaps = Bind(Empty, 0, << >>)
  <2>1. DOMAIN Empty = {}
    BY DEF Empty
  <2>2. db'.snaps = Store!WithVersion(0, Durable)
    BY <1>5, <2>1 DEF Bind, Store!WithVersion
  <2>3. 0 \in Store!NextVersions
    BY <1>5 DEF Store!NextVersions
  <2>4. Store!Save
    BY <1>5, <2>2, <2>3 DEF Store!Save
  <2> QED BY <2>4 DEF Store!Next
<1> QED BY <1>1, <1>2, <1>3, <1>4, <1>5, StoredDb

\* The seeded document, and the absence of one, are documents of the store.
LEMMA DocumentInit == Init => Store!Init
<1> SUFFICES ASSUME Init PROVE Store!Init
  OBVIOUS
<1>1. DOMAIN Empty = {}
  BY DEF Empty
<1>2. Stored
  BY StoredInit
<1>3. CASE db = NoDocument
  <2>1. db.ops = << >> /\ DOMAIN db.snaps = {} /\ Numbered(db.snaps)
    BY <1>1, <1>2, <1>3 DEF NoDocument, Stored, Types, Versions, HistoryOK
  <2>2. Durable = << >>
    BY <2>1, EmptyLoads DEF Durable
  <2> QED BY <2>1, <2>2 DEF Store!Init
<1>4. ASSUME NEW collab \in Roles, db = SeededDocument(collab) PROVE Store!Init
  <2> DEFINE row == [version |-> 0, op |-> MakeInsert(0, Seed, CHOOSE u \in DOMAIN collab : collab[u] = "owner")]
             first == Bind(Empty, 0, << >>)
  <2>1. db.snaps = Bind(first, 1, Seed) /\ db.ops = << row >> /\ row.version = 0
    BY <1>4 DEF SeededDocument
  <2>2. DOMAIN first = {0} /\ first[0] = << >>
    BY <1>1 DEF Bind
  <2> HIDE DEF first, row
  <2>3. DOMAIN db.snaps = {0, 1} /\ db.snaps = [v \in {0, 1} |-> IF v = 0 THEN << >> ELSE Seed]
    <3>1. db.snaps = [v \in {0} \cup {1} |-> IF v = 1 THEN Seed ELSE first[v]]
      BY <2>1, <2>2 DEF Bind
    <3> QED BY <2>2, <3>1
  <2>4. Numbered(db.snaps)
    BY <1>2 DEF Stored, Types, Versions, HistoryOK
  <2>5. LatestVersion(db) = 1
    BY <2>3, <2>4, LatestIsGreatest
  <2>6. Base(db) = Seed
    <3>1. db.snaps # Empty
      BY <1>1, <2>3
    <3> QED BY <2>3, <2>5, <3>1 DEF Base
  <2>7. Durable = Seed
    <3>1. DOMAIN db.ops = 1 .. 1 /\ 1 \in Nat /\ \A k \in 1 .. 1 : ~ db.ops[k].version >= LatestVersion(db)
      BY <2>1, <2>5
    <3>2. LoadText(db) = Base(db)
      BY <3>1, NothingReplayed
    <3> QED BY <2>6, <3>2 DEF Durable
  <2> QED BY <2>3, <2>7 DEF Store!Init
<1> QED BY <1>3, <1>4 DEF Init

\* The durable text, the latest snapshot and the rows replayed on it, changes
\* by edits and restores alone, and the history only grows.
THEOREM DocumentImplementsStore == Spec => ImplementsStore
<1>1. Stored /\ [Next]_vars => Stored'
  BY StoredStep
<1> QED BY StoredInit, <1>1, DocumentInit, DocumentKept, PTL DEF Spec, ImplementsStore

=============================================================================
