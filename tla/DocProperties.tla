--------------------------- MODULE DocProperties ---------------------------
(* What DocServer is checked for, and the document it implements.          *)
EXTENDS DocServer

\* The text of the document as a process that starts now would load it.
Durable == LoadText(db)

Store == INSTANCE DocStore WITH content <- Durable, versions <- db.snaps

\* The server implements DocStore: the durable text, snapshot plus replayed
\* operations, changes only by edits and restores, whatever is unloaded,
\* compacted or killed between two commits.  (Store!Spec, with the steps that
\* leave the database alone, hence stutter, named first: they are most steps.)
ImplementsStore == Store!Init /\ [][db' = db \/ [Store!Next]_Store!vars]_vars

-----------------------------------------------------------------------------
Texts == Seq(Nat)
Ops == Operations(Nat, Users)

TypeOK ==
  /\ up \in BOOLEAN /\ loop \in Conns \cup {Free}
  /\ \/ doc = NotLoaded
     \/ /\ doc.text \in Texts /\ doc.version \in Nat /\ doc.pending \in Nat
        /\ doc.log \in Seq(Ops)
  /\ DOMAIN session \subseteq Users
  /\ \A u \in DOMAIN session :
       session[u] \in [ws : Conns, cursor : Nat, role : {"owner", "editor", "viewer"}]
  /\ link \in [Conns -> {"new", "open", "gone", "done"}]
  /\ joined \in [Conns -> BOOLEAN]
  /\ DOMAIN presence \subseteq Users /\ Range(presence) \subseteq Nat
  /\ DOMAIN db.snaps \subseteq Nat /\ Range(db.snaps) \subseteq Texts
  /\ db.ops \in Seq([version : Nat, op : Ops]) /\ db.current \in Nat
  /\ \A c \in Conns :
       /\ client[c].text \in Texts \cup {NoText}
       /\ client[c].rev \in Nat /\ client[c].seen \in Nat
       /\ Len(req[c]) <= 2 + MaxCursors + MaxSaves + MaxRestores

\* What is in memory is what the database would give back: the replay of the
\* operations logged since the latest snapshot, in insertion order, on top of
\* it.  An ACK is sent only after that, so an acknowledged edit survives.
Recoverable == Loaded => doc.text = Durable /\ doc.version = LatestVersion(db)

\* create_snapshot never meets its own UNIQUE(document_id, version), and
\* documents.current_version is behind the history by at most the commit that
\* a crash cut off.
VersionsAdvance ==
  /\ Loaded => doc.version + 1 \notin DOMAIN db.snaps
  /\ db.current <= LatestVersion(db)

-----------------------------------------------------------------------------
Chars(t) == Range(t)
Index(t, x) == CHOOSE i \in DOMAIN t : t[i] = x

\* The edit that the handler of c takes now, and whether its author's text was
\* the server's text at the revision it quotes.
EditTaken(c) == HandleEdit(c) /\ Loaded /\ MayEdit(UserOf[c])

Honest(m) ==
  m.seen = ApplyOperations(origin, SubSeq(doc.log, 1, Lesser(m.rev, Len(doc.log))))

\* What the edit m made of the server's text t, being meant for the text m.seen.
KeepsIntent(m, t, s) ==
  IF m.op.type = "insert"
    THEN /\ Chars(s) = Chars(t) \cup Chars(m.op.content)
         /\ \A x \in Chars(m.seen) \cap Chars(t) : \A y \in Chars(m.op.content) :
              Index(m.seen, x) <= m.op.position <=> Index(s, x) < Index(s, y)
    ELSE LET picked == {m.seen[i] : i \in m.op.position + 1 .. EndOf(m.op)}
         IN  /\ Chars(s) = Chars(t) \ picked
             /\ \A i, j \in DOMAIN s : i < j => Index(t, s[i]) < Index(t, s[j])

\* handle_edit does to the document what its author asked for, whatever has
\* been applied since: no character is deleted that the author did not select,
\* and an insert stays between the characters it was put between.
EditsKeepIntent ==
  [][\A c \in Conns : EditTaken(c) =>
       LET m == Head(req[c]) IN Honest(m) => KeepsIntent(m, doc.text, doc'.text)]_vars

\* "Everyone else's caret has to move with the text they are looking at": an
\* edit leaves every other caret before the same character.
CaretsFollow ==
  [][\A c \in Conns : EditTaken(c) =>
       \A u \in DOMAIN session \ {UserOf[c]} :
         LET p == session[u].cursor
             q == session'[u].cursor
         IN  p < Len(doc.text) =>
               LET x == doc.text[p + 1]
               IN  x \in Chars(doc'.text) => q < Len(doc'.text) /\ doc'.text[q + 1] = x]_vars

-----------------------------------------------------------------------------
Quiet == \A c \in Conns : todo[c] = << >> /\ req[c] = << >> /\ inbox[c] = << >>

InSession(c) == \E u \in DOMAIN session : session[u].ws = c

\* Once everything sent has been received, every editor shows the server's text.
ReplicasConverge ==
  Quiet => \A c \in Conns : InSession(c) /\ link[c] = "open" => client[c].text = doc.text

\* "If no one is editing, snapshot and unload": while a client that joined
\* stays connected, it is in the session and the document is in memory.
EditorsKeepDocument ==
  \A c \in Conns : link[c] = "open" /\ client[c].text # NoText => InSession(c) /\ Loaded

\* A session entry belongs to a connection of that user which joined and whose
\* end handle_disconnect has still to handle, so that it will remove the entry:
\* no editor stays behind after the last of its connections is gone.
NoGhostEditors ==
  \A u \in DOMAIN session :
    LET c == session[u].ws
    IN  UserOf[c] = u /\ joined[c] /\ link[c] \in {"open", "gone"}

\* Redis shows every editor, with the caret the server has for it.
PresenceShowsEditors ==
  \A u \in DOMAIN session : u \in DOMAIN presence /\ presence[u] = session[u].cursor

\* "revision: how many server ops this client has seen".
RevisionCountsSeenOps == \A c \in Conns : client[c].rev = client[c].seen

\* A client that waits for the answer to a request gets it, or its connection ends.
RequestsAnswered == \A c \in Conns : client[c].waiting ~> ~client[c].waiting
=============================================================================
