------------------------ MODULE SftpExplorerProofs ------------------------
(***************************************************************************)
(* The panel of files for any sessions, directories and numbers of         *)
(* requests: pages stay with their session and in order, an older listing  *)
(* never replaces a newer one, and the loading flag has a request.         *)
(*                                                                         *)
(* The handlers are compositions of functions on the panel, and so are     *)
(* the proofs: a lemma per function says what it changes, and the handlers *)
(* follow from those lemmas.                                               *)
(***************************************************************************)
EXTENDS SftpExplorer, TLAPS

\* The panel's type, without the bounds
Entries == [by : Sessions, dir : Paths, page : Nat, n : Nat]
States == [owner : Sessions \cup {None}, initialized : BOOLEAN, path : Paths, next : Nat,
           loading : BOOLEAN, error : BOOLEAN, items : Seq(Entries)]
Requests == [kind : Kinds, by : Sessions, path : Paths, page : Nat, version : Nat]
Panels == [shown : States, kept : [Sessions -> States], version : [Sessions -> Nat],
           busy : SUBSET (Kinds \X Paths), reqs : Seq(Requests \cup {Ended})]

\* The pages of a list were listed on a session.
ListedOn(items, s) == \A i \in 1..Len(items) : items[i].page /= 0 => items[i].by = s

\* A panel has states of its sessions only, and their pages; without an owner
\* it is empty but for new entries.
Fits(p) ==
    /\ p \in Panels
    /\ \A s \in Sessions : p.kept[s].owner \in {s, None} /\ ListedOn(p.kept[s].items, s)
    /\ ListedOn(p.shown.items, p.shown.owner)
    /\ p.shown.owner = None => p.shown.next = 0 /\ ~p.shown.loading

\* A listing of a session is under way whose answer will count.
HasRequest(p, s) ==
    \E n \in 1..Len(p.reqs) :
        /\ p.reqs[n].kind \in {"refresh", "more"} /\ p.reqs[n].by = s
        /\ p.version[s] = p.reqs[n].version

\* The flags have requests, those of session x excepted. What is kept for the
\* session shown does not matter: it is overwritten before another is shown.
FlagsBut(p, x) ==
    /\ p.shown.loading => p.shown.owner = x \/ HasRequest(p, p.shown.owner)
    /\ \A s \in Sessions \ {p.shown.owner, x} : p.kept[s].loading => HasRequest(p, s)

\* What is shown is what is kept for its session.
Stored(p) == p.shown.owner \in Sessions => p.kept[p.shown.owner] = p.shown

IInv ==
    /\ active \in Sessions \cup {None} /\ Fits(Panel) /\ FlagsBut(Panel, None)
    /\ shown.owner \in {active, None}

---------------------------------------------------------------------------
\* The functions on the panel

LEMMA PanelParts ==
    ASSUME NEW p \in Panels
    PROVE  /\ p.shown \in States /\ p.kept \in [Sessions -> States]
           /\ p.version \in [Sessions -> Nat] /\ p.busy \in SUBSET (Kinds \X Paths)
           /\ p.reqs \in Seq(Requests \cup {Ended})
           /\ \A s \in Sessions : p.kept[s] \in States
    BY DEF Panels

LEMMA BlankFits ==
    ASSUME NEW s \in Sessions \cup {None}
    PROVE  /\ Blank(s) \in States /\ Blank(s).owner = s /\ Blank(s).items = <<>>
           /\ Blank(s).next = 0 /\ ~Blank(s).loading
           /\ \A t : ListedOn(Blank(s).items, t)
    BY ExplorerAssumption DEF Blank, States, ListedOn

LEMMA KeptParts ==
    ASSUME NEW p, Fits(p), NEW s \in Sessions
    PROVE  /\ Kept(p, s) \in States /\ Kept(p, s).owner = s
           /\ ListedOn(Kept(p, s).items, s)
           /\ Kept(p, s).loading => p.kept[s].loading
    BY PanelParts, BlankFits DEF Kept, Fits

LEMMA PersistParts ==
    ASSUME NEW p, Fits(p)
    PROVE  /\ Fits(Persist(p)) /\ Stored(Persist(p))
           /\ Persist(p).shown = p.shown /\ Persist(p).version = p.version
           /\ Persist(p).reqs = p.reqs /\ Persist(p).busy = p.busy
           /\ \A s \in Sessions \ {p.shown.owner} : Persist(p).kept[s] = p.kept[s]
    <1>1. p \in Panels /\ p.shown \in States /\ p.shown.owner \in Sessions \cup {None}
        BY PanelParts DEF Fits, States
    <1>2. CASE p.shown.owner = None
        BY <1>1, <1>2, ExplorerAssumption DEF Persist, Stored
    <1>3. CASE p.shown.owner \in Sessions
        <2>1. Persist(p) = [p EXCEPT !.kept[p.shown.owner] = p.shown]
            BY <1>3, ExplorerAssumption DEF Persist
        <2>2. /\ Persist(p).shown = p.shown /\ Persist(p).version = p.version
              /\ Persist(p).reqs = p.reqs /\ Persist(p).busy = p.busy
              /\ Persist(p).kept = [p.kept EXCEPT ![p.shown.owner] = p.shown]
              /\ Persist(p) \in Panels
            BY <1>1, <1>3, <2>1 DEF Panels
        <2>3. /\ Persist(p).kept[p.shown.owner] = p.shown
              /\ \A s \in Sessions \ {p.shown.owner} : Persist(p).kept[s] = p.kept[s]
            BY <1>1, <1>3, <2>2, PanelParts
        <2> QED BY <1>3, <2>2, <2>3 DEF Fits, Stored
    <1> QED BY <1>1, <1>2, <1>3

\* The session s is shown.
LEMMA ActivateParts ==
    ASSUME NEW p, Fits(p), NEW s \in Sessions
    PROVE  /\ Fits(Activate(p, s))
           /\ Activate(p, s).shown = Kept(p, s) /\ Activate(p, s).kept[s] = Kept(p, s)
           /\ Activate(p, s).version = p.version
           /\ Activate(p, s).reqs = p.reqs /\ Activate(p, s).busy = p.busy
           /\ \A t \in Sessions \ {s} : Activate(p, s).kept[t] = p.kept[t]
    <1>1. p \in Panels /\ Kept(p, s) \in States /\ Kept(p, s).owner = s
        BY KeptParts DEF Fits
    <1>2. /\ Activate(p, s).shown = Kept(p, s) /\ Activate(p, s).version = p.version
          /\ Activate(p, s).reqs = p.reqs /\ Activate(p, s).busy = p.busy
          /\ Activate(p, s).kept = [p.kept EXCEPT ![s] = Kept(p, s)]
          /\ Activate(p, s) \in Panels
        BY <1>1 DEF Panels, Activate
    <1>3. /\ Activate(p, s).kept[s] = Kept(p, s)
          /\ \A t \in Sessions \ {s} : Activate(p, s).kept[t] = p.kept[t]
        BY <1>1, <1>2, PanelParts
    <1> QED BY <1>1, <1>2, <1>3, KeptParts, ExplorerAssumption DEF Fits

LEMMA ClearParts ==
    ASSUME NEW p, Fits(p)
    PROVE  /\ Fits(Clear(p)) /\ Clear(p).shown = Blank(None) /\ Clear(p).kept = p.kept
           /\ Clear(p).version = p.version /\ Clear(p).reqs = p.reqs
    <1>1. /\ Clear(p).shown = Blank(None) /\ Clear(p).kept = p.kept
          /\ Clear(p).version = p.version /\ Clear(p).reqs = p.reqs /\ Clear(p) \in Panels
        BY BlankFits DEF Fits, Panels, Clear
    <1> QED BY <1>1, BlankFits DEF Fits

\* A state of session s is written to its place.
LEMMA KeepParts ==
    ASSUME NEW p, Fits(p), NEW s \in Sessions, NEW st \in States,
           st.owner \in {s, None}, ListedOn(st.items, s)
    PROVE  LET q == [p EXCEPT !.kept[s] = st]
           IN  /\ Fits(q) /\ q.shown = p.shown /\ q.version = p.version
               /\ q.reqs = p.reqs /\ q.busy = p.busy /\ q.kept[s] = st
               /\ \A t \in Sessions \ {s} : q.kept[t] = p.kept[t]
    <1> DEFINE q == [p EXCEPT !.kept[s] = st]
    <1>1. /\ q.shown = p.shown /\ q.version = p.version /\ q.reqs = p.reqs /\ q.busy = p.busy
          /\ q.kept = [p.kept EXCEPT ![s] = st] /\ q \in Panels
        BY DEF Fits, Panels
    <1>2. q.kept[s] = st /\ \A t \in Sessions \ {s} : q.kept[t] = p.kept[t]
        BY <1>1, PanelParts DEF Fits
    <1>3. Fits(q)
        BY <1>1, <1>2 DEF Fits
    <1> QED BY <1>1, <1>2, <1>3

\* Another state is shown.
LEMMA ShowParts ==
    ASSUME NEW p, Fits(p), NEW st \in States, ListedOn(st.items, st.owner),
           st.owner = None => st.next = 0 /\ ~st.loading
    PROVE  LET q == [p EXCEPT !.shown = st]
           IN  /\ Fits(q) /\ q.shown = st /\ q.version = p.version
               /\ q.reqs = p.reqs /\ q.busy = p.busy /\ q.kept = p.kept
    <1> DEFINE q == [p EXCEPT !.shown = st]
    <1>1. /\ q.shown = st /\ q.version = p.version /\ q.reqs = p.reqs /\ q.busy = p.busy
          /\ q.kept = p.kept /\ q \in Panels
        BY DEF Fits, Panels
    <1> HIDE DEF q
    <1>2. Fits(q)
        BY <1>1 DEF Fits
    <1> QED BY <1>1, <1>2 DEF q

\* The version of a session goes up.
LEMMA VersionParts ==
    ASSUME NEW p, Fits(p), NEW s \in Sessions
    PROVE  LET q == [p EXCEPT !.version[s] = @ + 1]
           IN  /\ Fits(q) /\ q.shown = p.shown /\ q.kept = p.kept /\ q.reqs = p.reqs
               /\ q.busy = p.busy /\ q.version[s] = p.version[s] + 1
               /\ \A t \in Sessions \ {s} : q.version[t] = p.version[t]
    <1> DEFINE q == [p EXCEPT !.version[s] = @ + 1]
    <1>1. /\ q.shown = p.shown /\ q.kept = p.kept /\ q.reqs = p.reqs /\ q.busy = p.busy
          /\ q.version = [p.version EXCEPT ![s] = @ + 1] /\ q \in Panels
        <2>1. p.version[s] + 1 \in Nat /\ p.version \in [Sessions -> Nat] /\ p \in Panels
            BY PanelParts DEF Fits
        <2>2. [p.version EXCEPT ![s] = @ + 1] \in [Sessions -> Nat]
            BY <2>1
        <2> QED BY <2>1, <2>2 DEF Panels
    <1> HIDE DEF q
    <1>2. /\ q.version[s] = p.version[s] + 1
          /\ \A t \in Sessions \ {s} : q.version[t] = p.version[t]
        BY <1>1, PanelParts DEF Fits
    <1>3. Fits(q)
        BY <1>1 DEF Fits
    <1> QED BY <1>1, <1>2, <1>3 DEF q

LEMMA LoadedParts ==
    ASSUME NEW p, Fits(p)
    PROVE  /\ Fits(Loaded(p)) /\ Stored(Loaded(p))
           /\ Loaded(p).shown.owner = p.shown.owner /\ ~Loaded(p).shown.loading
           /\ Loaded(p).shown.items = p.shown.items /\ Loaded(p).shown.next = p.shown.next
           /\ Loaded(p).version = p.version /\ Loaded(p).reqs = p.reqs
           /\ \A s \in Sessions \ {p.shown.owner} : Loaded(p).kept[s] = p.kept[s]
    <1> DEFINE st == [p.shown EXCEPT !.loading = FALSE]
               q == [p EXCEPT !.shown = st]
    <1>1. p.shown \in States
        BY PanelParts DEF Fits
    <1>2. /\ st \in States /\ st.owner = p.shown.owner /\ st.items = p.shown.items
          /\ st.next = p.shown.next /\ ~st.loading
        BY <1>1 DEF States
    <1>4. Loaded(p) = Persist(q)
        BY DEF Loaded, Fits, Panels
    <1> HIDE DEF st
    <1>3. /\ Fits(q) /\ q.shown = st /\ q.version = p.version /\ q.reqs = p.reqs
          /\ q.kept = p.kept
        BY <1>2, ShowParts DEF Fits
    <1> HIDE DEF q
    <1> QED BY <1>2, <1>3, <1>4, PersistParts

\* Loading, when the session is shown
LEMMA LoadingParts ==
    ASSUME NEW p, Fits(p), NEW s \in Sessions, p.shown.owner = s
    PROVE  /\ Fits(Loading(p, s)) /\ Stored(Loading(p, s))
           /\ Loading(p, s).shown.owner = s /\ Loading(p, s).shown.next = p.shown.next
           /\ Loading(p, s).shown.path = p.shown.path
           /\ Loading(p, s).shown.items = p.shown.items
           /\ Loading(p, s).version = p.version /\ Loading(p, s).reqs = p.reqs
           /\ Loading(p, s).busy = p.busy
           /\ \A t \in Sessions \ {s} : Loading(p, s).kept[t] = p.kept[t]
    <1> DEFINE k == [Kept(p, s) EXCEPT !.loading = TRUE]
               st == [p.shown EXCEPT !.loading = TRUE]
               q == [p EXCEPT !.kept[s] = k]
               r == [q EXCEPT !.shown = st]
    <1>1. p.shown \in States /\ Kept(p, s) \in States /\ s /= None
        BY PanelParts, KeptParts, ExplorerAssumption DEF Fits
    <1>2. /\ st \in States /\ st.owner = p.shown.owner /\ st.items = p.shown.items
          /\ st.next = p.shown.next /\ st.path = p.shown.path
          /\ k \in States /\ k.owner = s /\ k.items = Kept(p, s).items
        <2>1. /\ st \in States /\ st.owner = p.shown.owner /\ st.items = p.shown.items
              /\ st.next = p.shown.next /\ st.path = p.shown.path
            BY <1>1 DEF States
        <2>2. k \in States /\ k.owner = Kept(p, s).owner /\ k.items = Kept(p, s).items
            BY <1>1 DEF States
        <2> QED BY <2>1, <2>2, KeptParts
    <1>5. Loading(p, s) = Persist(r)
        BY DEF Loading, Fits, Panels
    <1> HIDE DEF st, k
    <1>3. /\ Fits(q) /\ q.shown = p.shown /\ q.version = p.version /\ q.reqs = p.reqs
          /\ q.busy = p.busy /\ \A t \in Sessions \ {s} : q.kept[t] = p.kept[t]
        <2>1. ListedOn(k.items, s)
            BY <1>2, KeptParts
        <2> QED BY <1>2, <2>1, KeepParts
    <1>4. /\ Fits(r) /\ r.shown = st /\ r.version = p.version /\ r.reqs = p.reqs
          /\ r.busy = p.busy /\ r.kept = q.kept
        <2> HIDE DEF q
        <2> QED BY <1>1, <1>2, <1>3, ShowParts DEF Fits
    <1> HIDE DEF q, r
    <1> QED BY <1>2, <1>3, <1>4, <1>5, PersistParts

LEMMA ForgetParts ==
    ASSUME NEW p, Fits(p), NEW s \in Sessions
    PROVE  /\ Fits(Forget(p, s))
           /\ Forget(p, s).shown = IF p.shown.owner = s THEN Blank(None) ELSE p.shown
           /\ Forget(p, s).version = p.version /\ Forget(p, s).reqs = p.reqs
           /\ Forget(p, s).kept[s] = Blank(None)
           /\ \A t \in Sessions \ {s} : Forget(p, s).kept[t] = p.kept[t]
    <1> DEFINE q == [p EXCEPT !.kept[s] = Blank(None)]
    <1>1. /\ Fits(q) /\ q.shown = p.shown /\ q.version = p.version /\ q.reqs = p.reqs
          /\ q.kept[s] = Blank(None) /\ \A t \in Sessions \ {s} : q.kept[t] = p.kept[t]
        <2>1. Blank(None) \in States /\ Blank(None).owner = None /\ ListedOn(Blank(None).items, s)
            BY BlankFits
        <2> QED BY <2>1, KeepParts
    <1>2. Forget(p, s) = IF p.shown.owner = s THEN Clear(q) ELSE q
        BY DEF Forget
    <1> HIDE DEF q
    <1> QED BY <1>1, <1>2, ClearParts

LEMMA ApplyPageParts ==
    ASSUME NEW p, Fits(p), NEW s \in Sessions, NEW dir \in Paths, NEW next \in Nat,
           NEW items \in Seq(Entries), ListedOn(items, s)
    PROVE  LET q == ApplyPage(p, s, dir, items, next)
           IN  /\ Fits(q) /\ q.shown = p.shown /\ q.version = p.version /\ q.reqs = p.reqs
               /\ q.kept[s] \in States /\ q.kept[s].owner = s /\ ~q.kept[s].loading
               /\ q.kept[s].items = items /\ q.kept[s].next = next
               /\ \A t \in Sessions \ {s} : q.kept[t] = p.kept[t]
    <1> DEFINE k == [Kept(p, s) EXCEPT !.initialized = TRUE, !.path = dir,
                      !.next = next, !.loading = FALSE, !.error = FALSE, !.items = items]
    <1>1. Kept(p, s) \in States /\ Kept(p, s).owner = s
        BY KeptParts
    <1>2. k \in States /\ k.owner = s /\ k.items = items /\ k.next = next /\ ~k.loading
        BY <1>1 DEF States
    <1>3. ApplyPage(p, s, dir, items, next) = [p EXCEPT !.kept[s] = k]
        BY DEF ApplyPage
    <1> HIDE DEF k
    <1> QED BY <1>2, <1>3, KeepParts

LEMMA ApplyErrorParts ==
    ASSUME NEW p, Fits(p), NEW s \in Sessions
    PROVE  LET q == ApplyError(p, s)
           IN  /\ Fits(q) /\ q.version = p.version /\ q.reqs = p.reqs
               /\ q.shown.owner = p.shown.owner /\ q.shown.loading = p.shown.loading
               /\ q.shown.items = p.shown.items /\ q.shown.next = p.shown.next
               /\ q.kept[s].owner = s /\ ~q.kept[s].loading
               /\ q.kept[s].items = Kept(p, s).items /\ q.kept[s].next = Kept(p, s).next
               /\ \A t \in Sessions \ {s} : q.kept[t] = p.kept[t]
    <1> DEFINE k == [Kept(p, s) EXCEPT !.error = TRUE, !.initialized = TRUE, !.loading = FALSE]
               st == [p.shown EXCEPT !.error = TRUE, !.initialized = TRUE]
               q == [p EXCEPT !.kept[s] = k]
               r == [q EXCEPT !.shown = st]
    <1>1. p.shown \in States /\ Kept(p, s) \in States /\ Kept(p, s).owner = s
        BY PanelParts, KeptParts DEF Fits
    <1>2. /\ k \in States /\ k.owner = s /\ k.items = Kept(p, s).items
          /\ k.next = Kept(p, s).next /\ ~k.loading
        BY <1>1 DEF States
    <1>3. /\ st \in States /\ st.owner = p.shown.owner /\ st.items = p.shown.items
          /\ st.next = p.shown.next /\ st.loading = p.shown.loading
        BY <1>1 DEF States
    <1>4. ApplyError(p, s) = IF p.shown.owner = s THEN r ELSE q
        BY DEF ApplyError, Fits, Panels
    <1>5. ListedOn(k.items, s) /\ ListedOn(st.items, st.owner)
          /\ (st.owner = None => st.next = 0 /\ ~st.loading)
        BY <1>2, <1>3, KeptParts DEF Fits
    <1> HIDE DEF k, st
    <1>6. /\ Fits(q) /\ q.shown = p.shown /\ q.version = p.version /\ q.reqs = p.reqs
          /\ q.kept[s] = k /\ \A t \in Sessions \ {s} : q.kept[t] = p.kept[t]
        BY <1>2, <1>5, KeepParts
    <1> HIDE DEF q
    <1>7. /\ Fits(r) /\ r.shown = st /\ r.version = p.version /\ r.reqs = p.reqs
          /\ r.kept = q.kept
        BY <1>3, <1>5, <1>6, ShowParts
    <1> HIDE DEF r
    <1> QED BY <1>2, <1>3, <1>4, <1>6, <1>7

LEMMA SyncParts ==
    ASSUME NEW p, Fits(p), NEW s \in Sessions, p.kept[s].owner = s
    PROVE  /\ Fits(Sync(p, s)) /\ Sync(p, s).shown.owner = s
           /\ Sync(p, s).kept = p.kept
           /\ Sync(p, s).shown.items = p.kept[s].items /\ Sync(p, s).shown.next = p.kept[s].next
           /\ Sync(p, s).version = p.version /\ Sync(p, s).reqs = p.reqs
    <1> DEFINE st == [p.kept[s] EXCEPT !.loading = p.shown.loading]
    <1>1. p.kept[s] \in States /\ p.shown.loading \in BOOLEAN /\ s /= None
        BY PanelParts, ExplorerAssumption DEF Fits, States
    <1>2. /\ st \in States /\ st.owner = s /\ st.items = p.kept[s].items
          /\ st.next = p.kept[s].next
        BY <1>1 DEF States
    <1>3. Sync(p, s) = [p EXCEPT !.shown = st]
        BY DEF Sync
    <1> HIDE DEF st
    <1>4. ListedOn(st.items, st.owner)
        BY <1>2 DEF Fits
    <1> QED BY <1>1, <1>2, <1>3, <1>4, ShowParts

---------------------------------------------------------------------------
\* The requests

LEMMA SameRequests ==
    ASSUME NEW p, NEW q, NEW s, p.reqs = q.reqs, p.version[s] = q.version[s]
    PROVE  HasRequest(p, s) <=> HasRequest(q, s)
    BY DEF HasRequest

\* A further request is made.
LEMMA SendParts ==
    ASSUME NEW p, Fits(p), NEW kind \in Kinds, NEW s \in Sessions, NEW dir \in Paths,
           NEW page \in Nat, NEW v \in Nat
    PROVE  LET q == Send(p, kind, s, dir, page, v)
           IN  /\ Fits(q) /\ q.shown = p.shown /\ q.kept = p.kept /\ q.version = p.version
               /\ q.busy = p.busy
               /\ \A t : HasRequest(p, t) => HasRequest(q, t)
               /\ kind \in {"refresh", "more"} /\ v = p.version[s] => HasRequest(q, s)
    <1> DEFINE r == [kind |-> kind, by |-> s, path |-> dir, page |-> page, version |-> v]
               q == [p EXCEPT !.reqs = Append(@, r)]
    <1>1. p \in Panels /\ p.reqs \in Seq(Requests \cup {Ended}) /\ r \in Requests
        BY PanelParts DEF Fits, Requests
    <1>2. Send(p, kind, s, dir, page, v) = q
        BY DEF Send
    <1>3. Append(p.reqs, r) \in Seq(Requests \cup {Ended})
        BY <1>1
    <1>4. /\ q.shown = p.shown /\ q.kept = p.kept /\ q.version = p.version /\ q.busy = p.busy
          /\ q.reqs = Append(p.reqs, r) /\ q \in Panels
        BY <1>1, <1>3 DEF Panels
    <1>5. r.kind = kind /\ r.by = s /\ r.version = v
        OBVIOUS
    <1> HIDE DEF q, r
    <1>6. Fits(q)
        BY <1>4 DEF Fits
    <1>7. /\ Len(q.reqs) = Len(p.reqs) + 1 /\ q.reqs[Len(p.reqs) + 1] = r
          /\ \A n \in 1..Len(p.reqs) : n \in 1..Len(q.reqs) /\ q.reqs[n] = p.reqs[n]
          /\ Len(p.reqs) + 1 \in 1..Len(q.reqs)
        BY <1>1, <1>3, <1>4
    <1>8. \A t : HasRequest(p, t) => HasRequest(q, t)
        BY <1>4, <1>7 DEF HasRequest
    <1>9. kind \in {"refresh", "more"} /\ v = p.version[s] => HasRequest(q, s)
        BY <1>4, <1>5, <1>7 DEF HasRequest
    <1> QED BY <1>2, <1>4, <1>6, <1>8, <1>9

LEMMA BeginParts ==
    ASSUME NEW p, Fits(p), NEW kind \in {"refresh", "create", "delete"}, NEW s \in Sessions,
           NEW dir \in Paths, NEW v \in Nat
    PROVE  LET q == Begin(p, kind, s, dir, v)
           IN  /\ Fits(q) /\ q.shown = p.shown /\ q.kept = p.kept /\ q.version = p.version
               /\ \A t : HasRequest(p, t) => HasRequest(q, t)
               /\ kind = "refresh" /\ v = p.version[s] => HasRequest(q, s)
    <1> DEFINE q == Send(p, kind, s, dir, 1, v)
               r == [q EXCEPT !.busy = @ \cup {<<kind, dir>>}]
    <1>1. /\ Fits(q) /\ q.shown = p.shown /\ q.kept = p.kept /\ q.version = p.version
          /\ \A t : HasRequest(p, t) => HasRequest(q, t)
          /\ kind = "refresh" /\ v = p.version[s] => HasRequest(q, s)
        BY SendParts DEF Kinds
    <1>2. Begin(p, kind, s, dir, v) = r
        BY DEF Begin
    <1> HIDE DEF q
    <1>3. q.busy \cup {<<kind, dir>>} \in SUBSET (Kinds \X Paths)
        BY <1>1, PanelParts DEF Fits, Kinds
    <1>4. /\ r.shown = q.shown /\ r.kept = q.kept /\ r.version = q.version /\ r.reqs = q.reqs
          /\ r \in Panels
        BY <1>1, <1>3 DEF Fits, Panels
    <1> HIDE DEF r
    <1>5. Fits(r)
        BY <1>1, <1>4 DEF Fits
    <1> QED BY <1>1, <1>2, <1>4, <1>5, SameRequests

\* A page of a further listing is answered.
Answered(p, n) == [p EXCEPT !.reqs[n] = Ended]

\* A request is answered: it no longer counts, and it did not if it was
\* overtaken or of another session.
LEMMA EndParts ==
    ASSUME NEW p, Fits(p), NEW n \in 1..Len(p.reqs)
    PROVE  /\ Fits(Answered(p, n)) /\ Fits(End(p, n))
           /\ \A q \in {Answered(p, n), End(p, n)} :
                /\ q.shown = p.shown /\ q.kept = p.kept /\ q.version = p.version
                /\ \A t : HasRequest(p, t) =>
                     \/ HasRequest(q, t)
                     \/ /\ p.reqs[n].kind \in {"refresh", "more"}
                        /\ p.reqs[n].by = t /\ p.version[t] = p.reqs[n].version
    <1> DEFINE e == Answered(p, n)
               b == p.busy \ {<<p.reqs[n].kind, p.reqs[n].path>>}
    <1>1. /\ p \in Panels /\ p.reqs \in Seq(Requests \cup {Ended})
          /\ b \in SUBSET (Kinds \X Paths)
        BY PanelParts DEF Fits
    <1> DEFINE r == [p.reqs EXCEPT ![n] = Ended]
    <1>2. /\ r \in Seq(Requests \cup {Ended}) /\ Len(r) = Len(p.reqs)
          /\ \A m \in 1..Len(p.reqs) : m /= n => r[m] = p.reqs[m]
        BY <1>1
    <1> HIDE DEF b
    <1>3. ASSUME NEW q \in {e, End(p, n)}
          PROVE  /\ q.shown = p.shown /\ q.kept = p.kept /\ q.version = p.version
                 /\ q.reqs = r /\ q \in Panels
        <2>1. CASE q = e
            BY <1>1, <1>2, <2>1 DEF Panels, Answered
        <2>2. CASE q = End(p, n)
            <3>1. q = [p EXCEPT !.reqs = r, !.busy = b]
                BY <1>1, <2>2 DEF End, Panels, b
            <3> HIDE DEF r
            <3> QED BY <1>1, <1>2, <3>1 DEF Panels
        <2> QED BY <2>1, <2>2
    <1> HIDE DEF e, r
    <1>4. ASSUME NEW q \in {e, End(p, n)}
          PROVE  /\ Fits(q)
                 /\ \A t : HasRequest(p, t) =>
                     \/ HasRequest(q, t)
                     \/ /\ p.reqs[n].kind \in {"refresh", "more"}
                        /\ p.reqs[n].by = t /\ p.version[t] = p.reqs[n].version
        <2>1. Fits(q)
            BY <1>3, <1>4 DEF Fits
        <2> QED BY <1>2, <1>3, <1>4, <2>1 DEF HasRequest
    <1> QED BY <1>3, <1>4 DEF e

---------------------------------------------------------------------------
\* The handlers that are functions on the panel

\* What a handler finds and leaves, when session s is the active one
Sound(p, s) == Fits(p) /\ FlagsBut(p, None) /\ p.shown.owner \in {s, None}

LEMMA LoadedFlags ==
    ASSUME NEW p, Fits(p), NEW x \in Sessions \cup {None}, FlagsBut(p, x),
           x = None \/ p.shown.owner = x
    PROVE  FlagsBut(Loaded(p), None)
    <1>1. \A s : HasRequest(p, s) <=> HasRequest(Loaded(p), s)
        BY LoadedParts, SameRequests
    <1> QED BY <1>1, LoadedParts, ExplorerAssumption DEF FlagsBut

\* After the panel was stored every flag has a request, also the kept one of
\* the session shown.
LEMMA PersistFlags ==
    ASSUME NEW p, Fits(p), FlagsBut(p, None)
    PROVE  /\ FlagsBut(Persist(p), None)
           /\ \A s \in Sessions : Persist(p).kept[s].loading => HasRequest(Persist(p), s)
    <1>1. \A s : HasRequest(p, s) <=> HasRequest(Persist(p), s)
        BY PersistParts, SameRequests
    <1>2. FlagsBut(Persist(p), None)
        BY <1>1, PersistParts DEF FlagsBut
    <1>3. ASSUME NEW s \in Sessions, Persist(p).kept[s].loading
          PROVE  HasRequest(Persist(p), s)
        <2>1. CASE p.shown.owner = s
            <3>1. Persist(p).kept[s] = p.shown
                BY <2>1, PersistParts DEF Stored
            <3> QED BY <1>1, <1>3, <2>1, <3>1, ExplorerAssumption DEF FlagsBut
        <2>2. CASE p.shown.owner /= s
            BY <1>2, <1>3, <2>2, PersistParts, ExplorerAssumption DEF FlagsBut
        <2> QED BY <2>1, <2>2
    <1> QED BY <1>2, <1>3

\* A refresh without a live connection
LEMMA RefuseSound ==
    ASSUME NEW p, NEW s \in Sessions, Sound(p, s)
    PROVE  Sound(Refuse(p, s), s)
    <1> DEFINE q == ApplyError(p, s)
               st == [q.shown EXCEPT !.error = TRUE, !.initialized = TRUE, !.loading = FALSE]
               r == [q EXCEPT !.shown = st]
    <1>1. /\ Fits(q) /\ q.version = p.version /\ q.reqs = p.reqs
          /\ q.shown.owner = p.shown.owner /\ ~q.kept[s].loading
          /\ \A t \in Sessions \ {s} : q.kept[t] = p.kept[t]
        BY ApplyErrorParts DEF Sound
    <1>2. Refuse(p, s) = Persist(r)
        BY <1>1 DEF Refuse, Fits, Panels
    <1> HIDE DEF q
    <1>3. /\ st \in States /\ st.owner = q.shown.owner /\ st.items = q.shown.items
          /\ st.next = q.shown.next /\ ~st.loading
        BY <1>1, PanelParts DEF Fits, States
    <1>4. ListedOn(st.items, st.owner) /\ (st.owner = None => st.next = 0 /\ ~st.loading)
        BY <1>1, <1>3 DEF Fits
    <1> HIDE DEF st
    <1>5. /\ Fits(r) /\ r.shown = st /\ r.version = q.version /\ r.reqs = q.reqs
          /\ r.kept = q.kept
        BY <1>1, <1>3, <1>4, ShowParts
    <1> HIDE DEF r
    <1>6. \A t : HasRequest(p, t) <=> HasRequest(r, t)
        BY <1>1, <1>5, SameRequests
    <1>7. FlagsBut(r, None)
        BY <1>1, <1>3, <1>5, <1>6 DEF FlagsBut, Sound
    <1> QED BY <1>1, <1>2, <1>3, <1>5, <1>7, PersistParts, PersistFlags DEF Sound

\* A refresh up to the request: the older ones of the session no longer count,
\* but its flag is set anew, or cleared if the same listing is under way.
LEMMA RefreshSound ==
    ASSUME NEW p, NEW s \in Sessions, Sound(p, s), NEW dir \in Paths
    PROVE  Sound(Refresh(p, s, dir), s)
    <1> DEFINE v == p.version[s] + 1
               q == [p EXCEPT !.version[s] = @ + 1]
               a == IF q.shown.owner = s THEN q ELSE Activate(q, s)
               st == [a.shown EXCEPT !.error = FALSE]
               b == [a EXCEPT !.shown = st]
               l == Loading(b, s)
    <1>1. p \in Panels /\ v \in Nat /\ s /= None
        BY PanelParts, ExplorerAssumption DEF Sound, Fits
    <1>2. /\ Fits(q) /\ q.shown = p.shown /\ q.kept = p.kept /\ q.reqs = p.reqs
          /\ q.busy = p.busy /\ q.version[s] = v
          /\ \A t \in Sessions \ {s} : q.version[t] = p.version[t]
        BY VersionParts DEF Sound
    <1>4. Refresh(p, s, dir) =
            LET k == Loading([a EXCEPT !.shown.error = FALSE], s)
            IN  IF <<"refresh", dir>> \in p.busy THEN Loaded(k)
                ELSE Begin(k, "refresh", s, dir, q.version[s])
        BY DEF Refresh, Duplicate
    <1> HIDE DEF q
    <1>7. /\ Fits(a) /\ a.shown.owner = s /\ a.version = q.version /\ a.reqs = p.reqs
          /\ \A t \in Sessions \ {s} : a.kept[t] = p.kept[t]
        BY <1>2, ActivateParts, KeptParts
    <1> HIDE DEF a
    <1>5. Refresh(p, s, dir) =
            IF <<"refresh", dir>> \in p.busy THEN Loaded(l) ELSE Begin(l, "refresh", s, dir, v)
        <2>1. [a EXCEPT !.shown.error = FALSE] = b
            BY <1>7 DEF Fits, Panels
        <2> HIDE DEF b
        <2> QED BY <1>2, <1>4, <2>1
    <1>8. /\ st \in States /\ st.owner = s /\ st.items = a.shown.items
        BY <1>7, PanelParts DEF Fits, States
    <1>9. ListedOn(st.items, st.owner)
        BY <1>7, <1>8 DEF Fits
    <1> HIDE DEF st
    <1>10. /\ Fits(b) /\ b.shown = st /\ b.version = q.version /\ b.reqs = p.reqs /\ b.kept = a.kept
        BY <1>1, <1>7, <1>8, <1>9, ShowParts
    <1> HIDE DEF b
    <1>11. /\ Fits(l) /\ l.shown.owner = s /\ l.version = q.version /\ l.reqs = p.reqs
           /\ \A t \in Sessions \ {s} : l.kept[t] = p.kept[t]
        BY <1>7, <1>8, <1>10, LoadingParts
    <1> HIDE DEF l
    <1>12. FlagsBut(l, s)
        <2>1. \A t \in Sessions \ {s} : HasRequest(p, t) <=> HasRequest(l, t)
            BY <1>2, <1>11, SameRequests
        <2> QED BY <1>1, <1>11, <2>1, ExplorerAssumption DEF FlagsBut, Sound
    <1>13. CASE <<"refresh", dir>> \in p.busy
        BY <1>5, <1>11, <1>12, <1>13, LoadedParts, LoadedFlags DEF Sound
    <1>14. CASE <<"refresh", dir>> \notin p.busy
        <2> DEFINE r == Begin(l, "refresh", s, dir, v)
        <2>1. /\ Fits(r) /\ r.shown = l.shown /\ r.kept = l.kept
              /\ \A t : HasRequest(l, t) => HasRequest(r, t)
              /\ HasRequest(r, s)
            <3>1. v \in Nat /\ v = l.version[s] /\ "refresh" \in {"refresh", "create", "delete"}
                BY <1>1, <1>2, <1>11
            <3> HIDE DEF v
            <3> QED BY <1>11, <3>1, BeginParts
        <2>2. Refresh(p, s, dir) = r
            BY <1>5, <1>14
        <2> HIDE DEF r, v
        <2> QED BY <1>11, <1>12, <2>1, <2>2 DEF Sound, FlagsBut
    <1> QED BY <1>13, <1>14

LEMMA AutomaticSound ==
    ASSUME NEW p, NEW s \in Sessions, Sound(p, s), NEW rdy
    PROVE  Sound(Automatic(p, s, rdy), s)
    <1>1. p.shown.path \in Paths
        BY PanelParts DEF Sound, Fits, States
    <1> QED BY <1>1, RefuseSound, RefreshSound DEF Automatic

\* The watcher of the active session
LEMMA WatchSound ==
    ASSUME NEW p, NEW a, Sound(p, a), NEW s \in Sessions \cup {None}, NEW rdy
    PROVE  /\ Sound(Watch(p, s, rdy), s)
           /\ (s = None \/ rdy[s] = "none") => Watch(p, s, rdy).shown.owner = None
    <1>1. /\ Fits(Persist(p)) /\ FlagsBut(Persist(p), None)
          /\ \A t \in Sessions : Persist(p).kept[t].loading => HasRequest(Persist(p), t)
        BY PersistParts, PersistFlags DEF Sound
    <1>2. Sound(Clear(Persist(p)), s) /\ Clear(Persist(p)).shown.owner = None
        <2>1. \A t : HasRequest(Persist(p), t) <=> HasRequest(Clear(Persist(p)), t)
            BY <1>1, ClearParts, SameRequests
        <2> QED BY <1>1, <2>1, ClearParts, BlankFits DEF Sound, FlagsBut
    <1>3. ASSUME s \in Sessions
          PROVE  LET q == IF p.shown.owner = s THEN p ELSE Activate(Persist(p), s)
                 IN  Sound(IF q.shown.initialized THEN q ELSE Automatic(q, s, rdy), s)
        <2> DEFINE q == IF p.shown.owner = s THEN p ELSE Activate(Persist(p), s)
                   r == Activate(Persist(p), s)
        <2>1. \A t : HasRequest(Persist(p), t) <=> HasRequest(r, t)
            BY <1>1, <1>3, ActivateParts, SameRequests
        <2>2. Fits(r) /\ r.shown.owner = s
            BY <1>1, <1>3, ActivateParts, KeptParts
        <2>3. r.shown.loading => HasRequest(r, s)
            BY <1>1, <1>3, <2>1, ActivateParts, KeptParts
        <2>4. \A t \in Sessions \ {s} : r.kept[t].loading => HasRequest(r, t)
            BY <1>1, <1>3, <2>1, ActivateParts
        <2>5. Sound(r, s)
            BY <2>2, <2>3, <2>4 DEF Sound, FlagsBut
        <2>6. Sound(q, s)
            BY <2>5 DEF Sound
        <2> HIDE DEF q
        <2>7. Sound(IF q.shown.initialized THEN q ELSE Automatic(q, s, rdy), s)
            BY <1>3, <2>6, AutomaticSound
        <2> QED BY <2>7 DEF q
    <1>4. s \in Sessions => s /= None
        BY ExplorerAssumption
    <1>5. CASE s = None \/ rdy[s] = "none"
        BY <1>2, <1>5 DEF Watch
    <1>6. CASE s \in Sessions /\ rdy[s] /= "none"
        BY <1>3, <1>4, <1>6 DEF Watch
    <1> QED BY <1>5, <1>6

---------------------------------------------------------------------------
\* The actions

\* A sound panel of the active session is what is needed of the next state.
LEMMA BecomesSound ==
    ASSUME NEW p, Becomes(p), active' \in Sessions \cup {None}, Sound(p, active')
    PROVE  IInv'
    <1>1. /\ shown' = p.shown /\ kept' = p.kept /\ version' = p.version
          /\ busy' = p.busy /\ reqs' = p.reqs
        BY DEF Becomes
    <1>2. p \in Panels
        BY DEF Sound, Fits
    <1>3. p = [shown |-> p.shown, kept |-> p.kept, version |-> p.version, busy |-> p.busy,
               reqs |-> p.reqs]
        BY <1>2 DEF Panels
    <1>4. Panel' = p
        BY <1>1, <1>3 DEF Panel
    <1> QED BY <1>1, <1>4 DEF IInv, Sound

LEMMA PanelSound ==
    ASSUME IInv
    PROVE  /\ Sound(Panel, active) /\ Panel \in Panels
           /\ Panel.shown = shown /\ Panel.kept = kept /\ Panel.version = version
           /\ Panel.busy = busy /\ Panel.reqs = reqs
           /\ shown \in States /\ shown.path \in Paths /\ shown.owner \in Sessions \cup {None}
           /\ shown.items \in Seq(Entries)
           /\ kept \in [Sessions -> States] /\ reqs \in Seq(Requests \cup {Ended})
           /\ version \in [Sessions -> Nat]
    <1>1. Sound(Panel, active) /\ Panel \in Panels
        BY DEF IInv, Sound, Fits, Panel
    <1>2. /\ Panel.shown = shown /\ Panel.kept = kept /\ Panel.version = version
          /\ Panel.busy = busy /\ Panel.reqs = reqs
        BY DEF Panel
    <1> QED BY <1>1, <1>2, PanelParts DEF States

LEMMA PersistSound ==
    ASSUME NEW p, NEW s, Sound(p, s)
    PROVE  Sound(Persist(p), s)
    BY PersistParts, PersistFlags DEF Sound

LEMMA SwitchSound ==
    ASSUME IInv, Switch
    PROVE  IInv'
    <1>1. PICK s \in Sessions \cup {None} : active' = s /\ Becomes(Watch(Panel, s, terminal))
        BY DEF Switch
    <1>2. Sound(Watch(Panel, s, terminal), s)
        BY PanelSound, WatchSound
    <1> QED BY <1>1, <1>2, BecomesSound

LEMMA TerminalsSound ==
    ASSUME IInv, Terminals
    PROVE  IInv'
    <1>1. PICK s \in Sessions, t \in {"none", "tab", "ready"} :
            /\ active' = active
            /\ \/ s = active /\ Becomes(Watch(Panel, s, [terminal EXCEPT ![s] = t]))
               \/ Becomes(Panel)
        BY DEF Terminals
    <1>2. s = active => Sound(Watch(Panel, s, [terminal EXCEPT ![s] = t]), active)
        BY PanelSound, WatchSound
    <1> QED BY <1>1, <1>2, PanelSound, BecomesSound DEF IInv

LEMMA CloseSessionSound ==
    ASSUME IInv, CloseSession
    PROVE  IInv'
    <1>1. PICK s \in Sessions :
            /\ active' = active
            /\ LET new == [terminal EXCEPT ![s] = "none"]
                   p == IF s = active THEN Watch(Panel, s, new) ELSE Panel
               IN  Becomes(Forget(p, s))
        BY DEF CloseSession
    <1> DEFINE new == [terminal EXCEPT ![s] = "none"]
               p == IF s = active THEN Watch(Panel, s, new) ELSE Panel
               q == Forget(p, s)
    <1>2. Sound(p, active)
        BY PanelSound, WatchSound
    <1>3. Becomes(q)
        BY <1>1
    <1> HIDE DEF p
    <1>4. /\ Fits(q) /\ q.version = p.version /\ q.reqs = p.reqs /\ q.kept[s] = Blank(None)
          /\ q.shown = IF p.shown.owner = s THEN Blank(None) ELSE p.shown
          /\ \A t \in Sessions \ {s} : q.kept[t] = p.kept[t]
        BY <1>2, ForgetParts DEF Sound
    <1> HIDE DEF q
    <1>5. \A t : HasRequest(p, t) <=> HasRequest(q, t)
        BY <1>4, SameRequests
    <1>6. Sound(q, active)
        BY <1>2, <1>4, <1>5, BlankFits, ExplorerAssumption DEF Sound, FlagsBut
    <1> QED BY <1>1, <1>3, <1>6, BecomesSound DEF IInv

LEMMA RefreshByUserSound ==
    ASSUME IInv, NEW dir \in Paths, RefreshByUser(dir)
    PROVE  IInv'
    <1>1. /\ active \in Sessions /\ active' = active
          /\ \/ Becomes(Refresh(Panel, active, dir)) \/ Becomes(Refuse(Panel, active))
        BY DEF RefreshByUser, windowVars, IInv
    <1>2. Sound(Refresh(Panel, active, dir), active) /\ Sound(Refuse(Panel, active), active)
        BY <1>1, PanelSound, RefreshSound, RefuseSound
    <1> QED BY <1>1, <1>2, BecomesSound

LEMMA ListSound ==
    ASSUME IInv, SelectItem \/ OpenItem
    PROVE  IInv'
    <1>1. CASE SelectItem
        BY <1>1, PanelSound, PersistSound, BecomesSound DEF SelectItem, windowVars, IInv
    <1>2. CASE OpenItem
        <2>1. PICK dir \in Paths :
                \/ Becomes(Refresh(Persist(Panel), active, dir))
                \/ Becomes(Refuse(Persist(Panel), active))
            BY <1>2 DEF OpenItem
        <2>2. active \in Sessions /\ active' = active
            BY <1>2 DEF OpenItem, ShowsList, HasTerminal, windowVars, IInv
        <2>3. /\ Sound(Refresh(Persist(Panel), active, dir), active)
              /\ Sound(Refuse(Persist(Panel), active), active)
            BY <2>2, PanelSound, PersistSound, RefreshSound, RefuseSound
        <2> QED BY <2>1, <2>2, <2>3, BecomesSound
    <1> QED BY <1>1, <1>2

\* A further page: its request carries the version that it sets.
LEMMA LoadMoreSound ==
    ASSUME IInv, LoadMore
    PROVE  IInv'
    <1> DEFINE v == version[active] + 1
               q == [Panel EXCEPT !.version[active] = @ + 1]
               l == Loading(q, active)
               r == Send(l, "more", active, shown.path, shown.next, v)
    <1>1. /\ shown.next /= 0 /\ shown.next \in Nat /\ active' = active
          /\ active \in Sessions /\ shown.owner = active
        BY PanelSound DEF LoadMore, ShowsList, HasTerminal, windowVars, IInv, Fits, States, Panel
    <1>2. Becomes(r)
        <2>1. [Panel EXCEPT !.version[active] = v] = q
            BY PanelSound
        <2> QED BY <2>1 DEF LoadMore
    <1>3. /\ Fits(q) /\ q.shown = shown /\ q.kept = kept /\ q.reqs = reqs
          /\ q.version[active] = v /\ v \in Nat
          /\ \A t \in Sessions \ {active} : q.version[t] = version[t]
        <2>1. v \in Nat
            BY <1>1, PanelSound
        <2>2. Fits(Panel)
            BY PanelSound DEF Sound
        <2>3. /\ Fits(q) /\ q.shown = Panel.shown /\ q.kept = Panel.kept /\ q.reqs = Panel.reqs
              /\ q.version[active] = Panel.version[active] + 1
              /\ \A t \in Sessions \ {active} : q.version[t] = Panel.version[t]
            BY <1>1, <2>2, VersionParts
        <2> HIDE DEF q
        <2> QED BY <2>1, <2>3, PanelSound
    <1> HIDE DEF q, v
    <1>4. /\ Fits(l) /\ l.shown.owner = active /\ l.version = q.version /\ l.reqs = reqs
          /\ \A t \in Sessions \ {active} : l.kept[t] = kept[t]
        BY <1>1, <1>3, LoadingParts
    <1> HIDE DEF l
    <1>5. /\ Fits(r) /\ r.shown = l.shown /\ r.kept = l.kept /\ r.version = l.version
          /\ \A t : HasRequest(l, t) => HasRequest(r, t)
          /\ HasRequest(r, active)
        <2>1. "more" \in Kinds /\ "more" \in {"refresh", "more"} /\ v = l.version[active]
            BY <1>3, <1>4 DEF Kinds
        <2> QED BY <1>1, <1>3, <1>4, <2>1, PanelSound, SendParts
    <1> HIDE DEF r
    <1>6. \A t \in Sessions \ {active} : HasRequest(Panel, t) <=> HasRequest(l, t)
        BY <1>3, <1>4, PanelSound, SameRequests
    <1>7. Sound(r, active)
        BY <1>1, <1>4, <1>5, <1>6, PanelSound, ExplorerAssumption DEF Sound, FlagsBut
    <1> QED BY <1>1, <1>2, <1>7, BecomesSound

LEMMA OperateSound ==
    ASSUME IInv, NEW kind \in {"create", "delete"}, NEW dir \in Paths, Operate(kind, dir)
    PROVE  IInv'
    <1> DEFINE q == Begin(Panel, kind, Operand, dir, 0)
    <1>1. Becomes(q) /\ active' = active /\ Operand \in Sessions
        BY PanelSound DEF Operate, Operand, windowVars, IInv
    <1>2. /\ Fits(q) /\ q.shown = shown /\ q.kept = kept /\ q.version = version
          /\ \A t : HasRequest(Panel, t) => HasRequest(q, t)
        <2>1. Fits(Panel) /\ 0 \in Nat /\ kind \in {"refresh", "create", "delete"}
            BY PanelSound DEF Sound
        <2>2. /\ Fits(q) /\ q.shown = Panel.shown /\ q.kept = Panel.kept
              /\ q.version = Panel.version
              /\ \A t : HasRequest(Panel, t) => HasRequest(q, t)
            BY <1>1, <2>1, BeginParts
        <2> HIDE DEF q
        <2> QED BY <2>2, PanelSound
    <1> HIDE DEF q
    <1>3. Sound(q, active)
        BY <1>2, PanelSound DEF Sound, FlagsBut
    <1> QED BY <1>1, <1>3, BecomesSound DEF IInv

---------------------------------------------------------------------------
\* The answers

LEMMA RequestParts ==
    ASSUME IInv, NEW n \in 1..Len(reqs), Running(n, Kinds)
    PROVE  /\ n \in Nat /\ reqs[n].by \in Sessions /\ reqs[n].path \in Paths
           /\ reqs[n].page \in Nat /\ \A next \in Cursors(reqs[n].page) : next \in Nat
    <1>1. reqs[n] \in Requests \cup {Ended} /\ reqs[n].kind \in Kinds /\ n \in Nat
        BY PanelSound DEF Running
    <1>2. Ended.kind \notin Kinds
        BY DEF Ended, Kinds
    <1>3. reqs[n] \in Requests
        BY <1>1, <1>2
    <1> QED BY <1>1, <1>3 DEF Requests, Cursors

\* The flags after an answer: those of its session are excepted if it counts,
\* and all have their requests if it does not.
LEMMA AnsweredFlags ==
    ASSUME IInv, NEW n \in 1..Len(reqs), Running(n, Kinds),
           NEW q \in {Answered(Panel, n), End(Panel, n)}
    PROVE  /\ Fits(q) /\ q.shown = shown /\ q.kept = kept /\ q.version = version
           /\ FlagsBut(q, reqs[n].by)
           /\ ~Running(n, {"refresh", "more"}) \/ ~Current(n) => Sound(q, active)
    <1>1. Fits(Panel) /\ n \in 1..Len(Panel.reqs)
        BY PanelSound DEF Sound
    <1>2. /\ Fits(q) /\ q.shown = shown /\ q.kept = kept /\ q.version = version
          /\ \A t : HasRequest(Panel, t) =>
               \/ HasRequest(q, t)
               \/ reqs[n].kind \in {"refresh", "more"} /\ reqs[n].by = t
                  /\ version[t] = reqs[n].version
        <2>1. /\ Fits(q) /\ q.shown = Panel.shown /\ q.kept = Panel.kept
              /\ q.version = Panel.version
              /\ \A t : HasRequest(Panel, t) =>
                   \/ HasRequest(q, t)
                   \/ /\ Panel.reqs[n].kind \in {"refresh", "more"}
                      /\ Panel.reqs[n].by = t /\ Panel.version[t] = Panel.reqs[n].version
            BY <1>1, EndParts
        <2> QED BY <2>1, PanelSound
    <1>3. FlagsBut(q, reqs[n].by)
        <2>1. \A t : HasRequest(Panel, t) => HasRequest(q, t) \/ t = reqs[n].by
            BY <1>2
        <2>2. FlagsBut(Panel, None) /\ (shown.owner = None => ~shown.loading)
            BY PanelSound DEF Sound, Fits
        <2> QED BY <1>2, <2>1, <2>2, PanelSound, ExplorerAssumption DEF FlagsBut
    <1>4. ~Running(n, {"refresh", "more"}) \/ ~Current(n) => Sound(q, active)
        BY <1>2, PanelSound DEF Sound, FlagsBut, Running, Current
    <1> QED BY <1>2, <1>3, <1>4

\* A page that counts: the flag of its session is cleared, and that of what is
\* shown, which is the session itself or not touched.
LEMMA SettleSound ==
    ASSUME NEW p, NEW s \in Sessions, Fits(p), FlagsBut(p, s),
           active \in Sessions \cup {None}, p.shown.owner \in {active, None},
           NEW dir \in Paths, NEW items \in Seq(Entries), ListedOn(items, s), NEW next \in Nat
    PROVE  Sound(Settle(ApplyPage(p, s, dir, items, next), s), active)
    <1> DEFINE q == ApplyPage(p, s, dir, items, next)
    <1>1. /\ Fits(q) /\ q.shown = p.shown /\ q.version = p.version /\ q.reqs = p.reqs
          /\ q.kept[s].owner = s /\ ~q.kept[s].loading
          /\ \A t \in Sessions \ {s} : q.kept[t] = p.kept[t]
        BY ApplyPageParts
    <1> HIDE DEF q
    <1>2. \A t : HasRequest(p, t) <=> HasRequest(q, t)
        BY <1>1, SameRequests
    <1>3. s /= None
        BY ExplorerAssumption
    <1>4. CASE active = s
        <2> DEFINE r == Sync(q, s)
        <2>1. /\ Fits(r) /\ r.shown.owner = s /\ r.kept = q.kept
              /\ r.version = q.version /\ r.reqs = q.reqs
            BY <1>1, SyncParts
        <2>2. Settle(q, s) = Loaded(r)
            BY <1>4 DEF Settle
        <2> HIDE DEF r
        <2>3. \A t : HasRequest(q, t) <=> HasRequest(r, t)
            BY <2>1, SameRequests
        <2>4. FlagsBut(r, s)
            <3>1. ASSUME NEW t \in Sessions \ {s}, r.kept[t].loading
                  PROVE  HasRequest(r, t)
                <4>1. p.kept[t].loading /\ t /= p.shown.owner
                    BY <1>1, <1>4, <2>1, <3>1, ExplorerAssumption
                <4> QED BY <1>2, <2>3, <4>1 DEF FlagsBut
            <3> QED BY <2>1, <3>1 DEF FlagsBut
        <2>5. FlagsBut(Loaded(r), None)
            BY <2>1, <2>4, LoadedFlags
        <2> QED BY <1>4, <2>1, <2>2, <2>5, LoadedParts DEF Sound, q
    <1>5. CASE active /= s
        <2>1. Settle(q, s) = Loaded(q)
            BY <1>5 DEF Settle
        <2>2. FlagsBut(q, None)
            BY <1>1, <1>2, <1>3, <1>5 DEF FlagsBut
        <2>3. FlagsBut(Loaded(q), None)
            BY <1>1, <2>2, LoadedFlags
        <2> QED BY <1>1, <2>1, <2>3, LoadedParts DEF Sound, q
    <1> QED BY <1>4, <1>5

LEMMA PagesParts ==
    ASSUME IInv, NEW n \in 1..Len(reqs), Running(n, Kinds)
    PROVE  Pages(n) \in Seq(Entries) /\ ListedOn(Pages(n), reqs[n].by)
    BY RequestParts DEF Pages, Entries, ListedOn

LEMMA ListedSound ==
    ASSUME IInv, NEW n \in 1..Len(reqs), Listed(n)
    PROVE  IInv'
    <1> DEFINE s == reqs[n].by
               p == End(Panel, n)
    <1>1. PICK next \in Cursors(1) :
            Becomes(IF Current(n)
                    THEN Settle(ApplyPage(p, s, reqs[n].path, Pages(n), next), s) ELSE p)
        BY DEF Listed
    <1>2. next \in Nat /\ Running(n, Kinds) /\ active' = active
        BY DEF Listed, Running, Kinds, Cursors, windowVars
    <1>3. Fits(p) /\ p.shown = shown /\ FlagsBut(p, s) /\ (~Current(n) => Sound(p, active))
        BY <1>2, AnsweredFlags
    <1>4. s \in Sessions /\ reqs[n].path \in Paths
          /\ Pages(n) \in Seq(Entries) /\ ListedOn(Pages(n), s)
        BY <1>2, RequestParts, PagesParts
    <1>5. active \in Sessions \cup {None} /\ shown.owner \in {active, None}
        BY DEF IInv
    <1> HIDE DEF p, s
    <1>6. Sound(Settle(ApplyPage(p, s, reqs[n].path, Pages(n), next), s), active)
        BY <1>2, <1>3, <1>4, <1>5, SettleSound
    <1> QED BY <1>1, <1>2, <1>3, <1>5, <1>6, BecomesSound

LEMMA MoreListedSound ==
    ASSUME IInv, NEW n \in 1..Len(reqs), MoreListed(n)
    PROVE  IInv'
    <1> DEFINE s == reqs[n].by
               p == Answered(Panel, n)
               items == Kept(p, s).items \o Pages(n)
    <1>1. PICK next \in Cursors(reqs[n].page) :
            Becomes(IF Current(n)
                    THEN Settle(ApplyPage(p, s, shown.path, items, next), s) ELSE p)
        BY DEF MoreListed, Answered
    <1>2. Running(n, Kinds) /\ active' = active
        BY DEF MoreListed, Running, Kinds, windowVars
    <1>3. Fits(p) /\ p.shown = shown /\ FlagsBut(p, s) /\ (~Current(n) => Sound(p, active))
        BY <1>2, AnsweredFlags
    <1>4. /\ s \in Sessions /\ next \in Nat
          /\ Pages(n) \in Seq(Entries) /\ ListedOn(Pages(n), s)
        BY <1>2, RequestParts, PagesParts
    <1>5. /\ active \in Sessions \cup {None} /\ shown.owner \in {active, None}
          /\ shown.path \in Paths
        BY PanelSound DEF IInv
    <1> HIDE DEF p, s
    <1>6. Kept(p, s).items \in Seq(Entries) /\ ListedOn(Kept(p, s).items, s)
        BY <1>3, <1>4, KeptParts DEF States
    <1>7. items \in Seq(Entries) /\ ListedOn(items, s)
        BY <1>4, <1>6 DEF ListedOn
    <1> HIDE DEF items
    <1>8. Sound(Settle(ApplyPage(p, s, shown.path, items, next), s), active)
        BY <1>3, <1>4, <1>5, <1>7, SettleSound
    <1> QED BY <1>1, <1>2, <1>3, <1>5, <1>8, BecomesSound

LEMMA ListFailedSound ==
    ASSUME IInv, NEW n \in 1..Len(reqs), ListFailed(n)
    PROVE  IInv'
    <1> DEFINE s == reqs[n].by
               p == End(Panel, n)
               q == ApplyError(p, s)
    <1>1. Becomes(IF Current(n) THEN Loaded(q) ELSE p)
        BY DEF ListFailed
    <1>2. Running(n, Kinds) /\ active' = active
        BY DEF ListFailed, Running, Kinds, windowVars
    <1>3. Fits(p) /\ p.shown = shown /\ FlagsBut(p, s) /\ (~Current(n) => Sound(p, active))
        BY <1>2, AnsweredFlags
    <1>4. s \in Sessions /\ s /= None
        BY <1>2, RequestParts, ExplorerAssumption
    <1>5. active \in Sessions \cup {None} /\ shown.owner \in {active, None}
        BY DEF IInv
    <1> HIDE DEF p, s
    <1>6. /\ Fits(q) /\ q.version = p.version /\ q.reqs = p.reqs
          /\ q.shown.owner = p.shown.owner /\ q.shown.loading = p.shown.loading
          /\ ~q.kept[s].loading
          /\ \A t \in Sessions \ {s} : q.kept[t] = p.kept[t]
        BY <1>3, <1>4, ApplyErrorParts
    <1> HIDE DEF q
    <1>7. \A t : HasRequest(p, t) <=> HasRequest(q, t)
        BY <1>6, SameRequests
    <1>8. FlagsBut(Loaded(q), None)
        <2>1. CASE shown.owner = s
            <3>1. FlagsBut(q, s)
                BY <1>3, <1>6, <1>7, <2>1 DEF FlagsBut
            <3> QED BY <1>3, <1>4, <1>6, <2>1, <3>1, LoadedFlags
        <2>2. CASE shown.owner /= s
            <3>1. FlagsBut(q, None)
                BY <1>3, <1>4, <1>6, <1>7, <2>2 DEF FlagsBut
            <3> QED BY <1>6, <3>1, LoadedFlags
        <2> QED BY <2>1, <2>2
    <1>9. Sound(Loaded(q), active)
        BY <1>3, <1>5, <1>6, <1>8, LoadedParts DEF Sound
    <1> QED BY <1>1, <1>2, <1>3, <1>5, <1>9, BecomesSound

\* Other entries are shown of the same state.
LEMMA ItemsSound ==
    ASSUME NEW p, NEW s, Sound(p, s), NEW items \in Seq(Entries),
           ListedOn(items, p.shown.owner)
    PROVE  LET q == [p EXCEPT !.shown.items = items]
           IN  /\ Sound(q, s) /\ q.shown.items = items /\ q.shown.owner = p.shown.owner
               /\ q.kept = p.kept
    <1> DEFINE st == [p.shown EXCEPT !.items = items]
               q == [p EXCEPT !.shown = st]
    <1>1. p \in Panels /\ p.shown \in States
        BY PanelParts DEF Sound, Fits
    <1>2. [p EXCEPT !.shown.items = items] = q
        BY <1>1 DEF Panels
    <1>3. /\ st \in States /\ st.owner = p.shown.owner /\ st.items = items
          /\ st.next = p.shown.next /\ st.loading = p.shown.loading
        BY <1>1 DEF States
    <1> HIDE DEF st
    <1>4. /\ Fits(q) /\ q.shown = st /\ q.version = p.version /\ q.reqs = p.reqs
          /\ q.kept = p.kept
        BY <1>3, ShowParts DEF Sound, Fits
    <1> HIDE DEF q
    <1>5. \A t : HasRequest(p, t) <=> HasRequest(q, t)
        BY <1>4, SameRequests
    <1>6. Sound(q, s)
        BY <1>3, <1>4, <1>5 DEF Sound, FlagsBut
    <1> QED BY <1>2, <1>3, <1>4, <1>6

\* The array that is shown may be the one that is kept.
LEMMA KeptItemsSound ==
    ASSUME NEW p, NEW s, Sound(p, s), p.shown.owner \in Sessions,
           NEW items \in Seq(Entries), ListedOn(items, p.shown.owner)
    PROVE  Sound([p EXCEPT !.kept[p.shown.owner].items = items], s)
    <1> DEFINE o == p.shown.owner
               k == [p.kept[o] EXCEPT !.items = items]
               q == [p EXCEPT !.kept[o] = k]
    <1>1. p \in Panels /\ p.kept[o] \in States /\ o \in Sessions
          /\ p.kept \in [Sessions -> States]
        BY PanelParts DEF Sound, Fits
    <1>2. [p EXCEPT !.kept[o].items = items] = q
        BY <1>1 DEF Panels
    <1>3. /\ k \in States /\ k.owner = p.kept[o].owner /\ k.items = items
          /\ k.loading = p.kept[o].loading
        BY <1>1 DEF States
    <1>4. k.owner \in {o, None}
        BY <1>1, <1>3 DEF Sound, Fits
    <1> HIDE DEF k
    <1>5. /\ Fits(q) /\ q.shown = p.shown /\ q.version = p.version /\ q.reqs = p.reqs
          /\ \A t \in Sessions \ {o} : q.kept[t] = p.kept[t]
        <2>1. Fits(p) /\ ListedOn(k.items, o)
            BY <1>3 DEF Sound
        <2> HIDE DEF o
        <2> QED BY <1>1, <1>3, <1>4, <2>1, KeepParts
    <1> HIDE DEF q
    <1>6. \A t : HasRequest(p, t) <=> HasRequest(q, t)
        BY <1>5, SameRequests
    <1>7. Sound(q, s)
        BY <1>5, <1>6 DEF Sound, FlagsBut
    <1> QED BY <1>2, <1>7

LEMMA CreatedSound ==
    ASSUME IInv, NEW n \in 1..Len(reqs), Created(n)
    PROVE  IInv'
    <1> DEFINE p == End(Panel, n)
               new == [by |-> reqs[n].by, dir |-> reqs[n].path, page |-> 0, n |-> n]
               items == <<new>> \o shown.items
               r == [p EXCEPT !.shown.items = items]
               q == IF shown.path /= reqs[n].path THEN p
                    ELSE IF shown.owner /= None /\ kept[shown.owner].items = shown.items
                    THEN [r EXCEPT !.kept[shown.owner].items = items] ELSE r
    <1>1. Running(n, Kinds) /\ ~Running(n, {"refresh", "more"}) /\ active' = active
        BY DEF Created, Running, Kinds, windowVars
    <1>2. Sound(p, active) /\ p.shown = shown /\ p.kept = kept
        BY <1>1, AnsweredFlags
    <1>3. items \in Seq(Entries) /\ ListedOn(items, shown.owner)
        <2>1. new \in Entries /\ new.page = 0 /\ shown.items \in Seq(Entries)
            BY <1>1, RequestParts, PanelSound DEF Entries
        <2>2. ListedOn(shown.items, shown.owner)
            BY <1>2 DEF Sound, Fits
        <2> HIDE DEF new
        <2> QED BY <2>1, <2>2 DEF ListedOn
    <1>4. \E toolbar \in BOOLEAN :
               Becomes(IF ~toolbar \/ active = None THEN q
                       ELSE IF Ready(active) THEN Refresh(q, active, q.shown.path)
                       ELSE Refuse(q, active))
        <2>1. [p EXCEPT !.shown.items = <<new>> \o @] = r
            BY <1>2 DEF Sound, Fits, Panels
        <2>2. r.shown.items = items
            BY <1>2, <1>3, ItemsSound
        <2> QED BY <2>1, <2>2 DEF Created
    <1> HIDE DEF p, items
    <1>5. Sound(r, active) /\ r.shown.owner = shown.owner
        BY <1>2, <1>3, ItemsSound
    <1> HIDE DEF r
    <1>6. shown.owner /= None => Sound([r EXCEPT !.kept[shown.owner].items = items], active)
        <2>1. shown.owner \in Sessions \cup {None}
            BY PanelSound
        <2> QED BY <1>3, <1>5, <2>1, KeptItemsSound
    <1>7. Sound(q, active)
        BY <1>2, <1>5, <1>6
    <1> HIDE DEF q
    <1>8. active \in Sessions \cup {None} /\ q.shown.path \in Paths
        BY <1>7, PanelParts DEF IInv, Sound, Fits, States
    <1>9. active /= None => /\ Sound(Refresh(q, active, q.shown.path), active)
                            /\ Sound(Refuse(q, active), active)
        BY <1>7, <1>8, RefreshSound, RefuseSound
    <1> QED BY <1>1, <1>4, <1>7, <1>8, <1>9, BecomesSound

\* Entries that pass a filter are entries.
LEMMA FilterParts ==
    ASSUME NEW items \in Seq(Entries), NEW pass, pass \subseteq 1..Len(items),
           NEW s, ListedOn(items, s), NEW left \in Filter(items, pass)
    PROVE  left \in Seq(Entries) /\ ListedOn(left, s)
    <1>1. PICK len \in 0..Len(items) : \E place \in [1..len -> pass] :
            left = [i \in 1..len |-> items[place[i]]]
        BY DEF Filter
    <1>2. PICK place \in [1..len -> pass] : left = [i \in 1..len |-> items[place[i]]]
        BY <1>1
    <1>3. \A i \in 1..len : place[i] \in 1..Len(items) /\ items[place[i]] \in Entries
        <2>1. \A j \in 1..Len(items) : items[j] \in Entries
            OBVIOUS
        <2>2. \A i \in 1..len : place[i] \in pass
            OBVIOUS
        <2> QED BY <2>1, <2>2
    <1>4. left \in Seq(Entries) /\ Len(left) = len /\ len \in Nat
        BY <1>2, <1>3
    <1> QED BY <1>2, <1>3, <1>4 DEF ListedOn

LEMMA DeletedSound ==
    ASSUME IInv, NEW n \in 1..Len(reqs), Deleted(n)
    PROVE  IInv'
    <1> DEFINE p == End(Panel, n)
               others == {i \in 1..Len(shown.items) :
                            ~(shown.items[i].page = 0 /\ shown.items[i].dir = reqs[n].path)}
    <1>1. Running(n, Kinds) /\ ~Running(n, {"refresh", "more"}) /\ active' = active
        BY DEF Deleted, Running, Kinds, windowVars
    <1>2. Sound(p, active) /\ p.shown = shown
        BY <1>1, AnsweredFlags
    <1>3. PICK left \in Filter(shown.items, others) :
            LET q == [p EXCEPT !.shown.items = left] IN Becomes(Persist(q)) \/ Becomes(q)
        BY DEF Deleted
    <1> DEFINE q == [p EXCEPT !.shown.items = left]
    <1>4. others \subseteq 1..Len(shown.items) /\ ListedOn(shown.items, shown.owner)
        BY <1>2 DEF Sound, Fits
    <1> HIDE DEF p, others
    <1>5. left \in Seq(Entries) /\ ListedOn(left, shown.owner)
        BY <1>3, <1>4, PanelSound, FilterParts
    <1>6. Sound(q, active)
        BY <1>2, <1>5, ItemsSound
    <1>7. Becomes(Persist(q)) \/ Becomes(q)
        BY <1>3
    <1> HIDE DEF q
    <1> QED BY <1>1, <1>6, <1>7, PersistSound, BecomesSound DEF IInv

LEMMA OperationFailedSound ==
    ASSUME IInv, NEW n \in 1..Len(reqs), OperationFailed(n)
    PROVE  IInv'
    <1>1. Running(n, Kinds) /\ ~Running(n, {"refresh", "more"}) /\ active' = active
          /\ Becomes(End(Panel, n))
        BY DEF OperationFailed, Running, Kinds, windowVars
    <1>2. Sound(End(Panel, n), active)
        BY <1>1, AnsweredFlags
    <1> QED BY <1>1, <1>2, BecomesSound DEF IInv

---------------------------------------------------------------------------
\* The invariant and what follows from it

LEMMA InitInv ==
    ASSUME Init
    PROVE  IInv
    <1>1. /\ Panel.shown = Blank(None) /\ Panel.kept = [s \in Sessions |-> Blank(None)]
          /\ Panel.version = [s \in Sessions |-> 0] /\ Panel.reqs = <<>> /\ Panel \in Panels
          /\ active = None
        BY BlankFits DEF Init, Panel, Panels
    <1>2. \A s \in Sessions : Panel.kept[s] = Blank(None)
        BY <1>1
    <1>3. shown.owner = None
        BY BlankFits DEF Init
    <1>4. Fits(Panel)
        BY <1>1, <1>2, BlankFits DEF Fits
    <1>5. FlagsBut(Panel, None)
        BY <1>1, <1>2, BlankFits DEF FlagsBut
    <1> QED BY <1>1, <1>3, <1>4, <1>5 DEF IInv

LEMMA StepInv ==
    ASSUME IInv, [Next]_vars
    PROVE  IInv'
    <1>1. CASE UNCHANGED vars
        <2>1. Panel' = Panel /\ active' = active
            BY <1>1 DEF vars, Panel
        <2> QED BY <1>1, <2>1 DEF vars, IInv
    <1>2. CASE Switch
        BY <1>2, SwitchSound
    <1>3. CASE Terminals
        BY <1>3, TerminalsSound
    <1>4. CASE CloseSession
        BY <1>4, CloseSessionSound
    <1>5. CASE RefreshAgain \/ OpenBreadcrumb
        BY <1>5, RefreshByUserSound, PanelSound DEF RefreshAgain, OpenBreadcrumb
    <1>6. CASE SelectItem \/ OpenItem
        BY <1>6, ListSound
    <1>7. CASE LoadMore
        BY <1>7, LoadMoreSound
    <1>8. CASE FromMenus \/ FromToolbar
        BY <1>8, OperateSound, PanelSound DEF FromMenus, FromToolbar
    <1>9. ASSUME NEW n \in 1..Len(reqs), Answer(n)
          PROVE  IInv'
        BY <1>9, ListedSound, MoreListedSound, ListFailedSound, CreatedSound, DeletedSound,
           OperationFailedSound DEF Answer
    <1> QED BY <1>1, <1>2, <1>3, <1>4, <1>5, <1>6, <1>7, <1>8, <1>9 DEF Next

\* The panel fits its sessions and every loading flag has a request, after any
\* history of switches, terminals, refreshes and answers in any order
\* (sftpStore.ts, manageSftpFiles.ts).
THEOREM Invariance == Spec => []IInv
    BY InitInv, StepInv, PTL DEF Spec

\* The pages kept for a session and those on the screen were listed on that
\* session, for any number of sessions, directories and requests.
THEOREM PagesStayWithTheirSession == Spec => []PagesOfSession
    <1>1. ASSUME IInv
          PROVE  PagesOfSession
        <2>1. /\ kept \in [Sessions -> States] /\ shown.items \in Seq(Entries)
              /\ Panel.shown = shown /\ Panel.kept = kept
            BY <1>1, PanelSound DEF States
        <2>2. \A s \in Sessions : DOMAIN kept[s].items = 1..Len(kept[s].items)
            BY <2>1 DEF States
        <2>3. DOMAIN shown.items = 1..Len(shown.items)
            BY <2>1
        <2> QED BY <1>1, <2>1, <2>2, <2>3 DEF IInv, Fits, ListedOn, PagesOfSession
    <1> QED BY <1>1, Invariance, PTL

\* The loading state always has a request of the session shown that will end
\* it, for any number of sessions, directories and requests.
THEOREM LoadingIsAnswered == Spec => []LoadingHasRequest
    <1>1. ASSUME IInv
          PROVE  LoadingHasRequest
        <2>1. /\ Panel.shown = shown /\ Panel.reqs = reqs /\ Panel.version = version
            BY DEF Panel
        <2>2. shown.loading => HasRequest(Panel, shown.owner)
            BY <1>1, <2>1 DEF IInv, Fits, FlagsBut
        <2> QED BY <2>1, <2>2 DEF HasRequest, LoadingHasRequest, Running, Current
    <1> QED BY <1>1, Invariance, PTL

---------------------------------------------------------------------------
\* The order of pages and listings

\* A page x can follow the pages of a list; 0 stands for no page.
Continues(items, x) ==
    /\ InOrder(items)
    /\ \A i \in 1..Len(items) :
        /\ x /= 0 /\ items[i].page /= 0
        /\ \A k \in (i + 1)..Len(items) : items[k].page = 0
        => x = items[i].page + 1

\* The states of a session: what is kept for it, and the panel that shows it
Of(p, s) == {p.kept[s]} \cup (IF p.shown.owner = s THEN {p.shown} ELSE {})

\* The panel has the pages that are kept for the session it shows.
Shared(p) ==
    /\ p.shown.owner \in Sessions =>
         Numbers(p.shown.items) = Numbers(p.kept[p.shown.owner].items)
    /\ \A s \in Sessions : p.kept[s].owner = None => Numbers(p.kept[s].items) = {}

\* The cursor of a list is behind its last page.
ListsInOrder(p) ==
    \A s \in Sessions : \A st \in Of(p, s) :
        /\ Continues(st.items, st.next)
        /\ \A m \in Numbers(st.items) : m <= Len(p.reqs)

\* Listings are told apart by their versions.
Listing(r) == r.kind \in {"refresh", "more"}
VersionsInOrder(p) ==
    /\ \A n \in 1..Len(p.reqs) : Listing(p.reqs[n]) =>
         /\ p.reqs[n].version <= p.version[p.reqs[n].by]
         /\ p.reqs[n].page /= 0 /\ (p.reqs[n].kind = "refresh" => p.reqs[n].page = 1)
    /\ \A m, n \in 1..Len(p.reqs) :
         /\ Listing(p.reqs[m]) /\ Listing(p.reqs[n])
         /\ p.reqs[m].by = p.reqs[n].by /\ p.reqs[m].version = p.reqs[n].version
         => m = n

\* The listing that counts is newer than what its session has, and continues it.
AwaitedFits(p) ==
    \A n \in 1..Len(p.reqs) :
        Listing(p.reqs[n]) /\ p.reqs[n].version = p.version[p.reqs[n].by] =>
            \A st \in Of(p, p.reqs[n].by) :
                /\ \A m \in Numbers(st.items) : m < n
                /\ p.reqs[n].kind = "more" => Continues(st.items, p.reqs[n].page)

Ordered(p) == Shared(p) /\ ListsInOrder(p) /\ VersionsInOrder(p) /\ AwaitedFits(p)
OrderInv == Ordered(Panel)

LEMMA ListingParts ==
    ASSUME NEW p \in Panels, NEW n \in 1..Len(p.reqs), Listing(p.reqs[n])
    PROVE  p.reqs[n] \in Requests /\ p.reqs[n].by \in Sessions /\ p.reqs[n].page \in Nat
           /\ p.reqs[n].version \in Nat
    <1>1. p.reqs[n] \in Requests \cup {Ended}
        BY PanelParts
    <1>2. Ended.kind \notin {"refresh", "more"}
        BY DEF Ended
    <1> QED BY <1>1, <1>2 DEF Listing, Requests

\* What session s has in q it had in p, but for entries that are not pages, or
\* it has no pages.
Alike(l, m) == Numbers(l) = Numbers(m) /\ \A x : Continues(m, x) => Continues(l, x)
Like(st, tt) == st.next = tt.next /\ Alike(st.items, tt.items)
Carries(p, q) ==
    \A s \in Sessions : \A st \in Of(q, s) :
        Numbers(st.items) = {} \/ \E tt \in Of(p, s) : Like(st, tt)

LEMMA EmptyContinues ==
    ASSUME NEW l, Numbers(l) = {}, NEW x
    PROVE  Continues(l, x)
    <1>1. \A i \in 1..Len(l) : l[i].page = 0
        BY DEF Numbers
    <1> QED BY <1>1 DEF Continues, InOrder

LEMMA SameLike ==
    ASSUME NEW st, NEW tt, st.items = tt.items, st.next = tt.next
    PROVE  Like(st, tt)
    BY DEF Like, Alike

LEMMA OfParts ==
    ASSUME NEW p, NEW s, NEW st
    PROVE  st \in Of(p, s) <=> st = p.kept[s] \/ (p.shown.owner = s /\ st = p.shown)
    BY DEF Of

LEMMA CarriesTrans ==
    ASSUME NEW p, NEW q, NEW r, Carries(p, q), Carries(q, r)
    PROVE  Carries(p, r)
    <1> SUFFICES ASSUME NEW s \in Sessions, NEW st \in Of(r, s), Numbers(st.items) /= {}
                 PROVE  \E tt \in Of(p, s) : Like(st, tt)
        BY DEF Carries
    <1>1. PICK tt \in Of(q, s) : Like(st, tt)
        BY DEF Carries
    <1>2. Numbers(tt.items) /= {}
        BY <1>1 DEF Like, Alike
    <1>3. PICK uu \in Of(p, s) : Like(tt, uu)
        BY <1>2 DEF Carries
    <1>4. Like(st, uu)
        BY <1>1, <1>3 DEF Like, Alike
    <1> QED BY <1>4

LEMMA NumbersAreNumbers ==
    ASSUME NEW p \in Panels, NEW s \in Sessions, NEW m \in Numbers(p.kept[s].items)
    PROVE  m \in Nat /\ m <= m
    <1>1. p.kept[s].items \in Seq(Entries)
        BY PanelParts DEF States
    <1>2. PICK i \in 1..Len(p.kept[s].items) : m = p.kept[s].items[i].n
        BY DEF Numbers
    <1>3. p.kept[s].items[i] \in Entries
        BY <1>1, <1>2
    <1> QED BY <1>2, <1>3 DEF Entries

LEMMA CarriesMoves ==
    ASSUME NEW p, NEW q, Shared(p), Carries(p, q), p \in Panels
    PROVE  MovesForward(p.kept, q.kept)
    <1> SUFFICES ASSUME NEW s \in Sessions, Numbers(q.kept[s].items) /= {},
                        NEW m \in Numbers(p.kept[s].items)
                 PROVE  \E n \in Numbers(q.kept[s].items) : m <= n
        BY DEF MovesForward
    <1>1. PICK tt \in Of(p, s) : Like(q.kept[s], tt)
        BY OfParts DEF Carries
    <1>2. Numbers(q.kept[s].items) = Numbers(tt.items)
        BY <1>1 DEF Like, Alike
    <1>3. Numbers(tt.items) = Numbers(p.kept[s].items)
        BY OfParts DEF Shared
    <1>4. m <= m
        BY NumbersAreNumbers
    <1> QED BY <1>2, <1>3, <1>4

\* Nothing is asked for and nothing new is shown.
LEMMA CarriesOrder ==
    ASSUME NEW p, NEW q, Ordered(p), Shared(q), Carries(p, q), p \in Panels,
           q.reqs = p.reqs, q.version = p.version
    PROVE  Ordered(q)
    <1>1. ASSUME NEW s \in Sessions, NEW st \in Of(q, s)
          PROVE  /\ Continues(st.items, st.next)
                 /\ \A m \in Numbers(st.items) : m <= Len(q.reqs)
        <2>1. CASE Numbers(st.items) = {}
            BY <2>1, EmptyContinues
        <2>2. CASE Numbers(st.items) /= {}
            <3>1. PICK tt \in Of(p, s) : Like(st, tt)
                BY <2>2 DEF Carries
            <3>2. /\ Continues(tt.items, tt.next)
                  /\ \A m \in Numbers(tt.items) : m <= Len(p.reqs)
                BY DEF Ordered, ListsInOrder
            <3> QED BY <3>1, <3>2 DEF Like, Alike
        <2> QED BY <2>1, <2>2
    <1>2. VersionsInOrder(q)
        BY DEF Ordered, VersionsInOrder
    <1>3. ASSUME NEW n \in 1..Len(q.reqs), Listing(q.reqs[n]),
                 q.reqs[n].version = q.version[q.reqs[n].by],
                 NEW st \in Of(q, q.reqs[n].by)
          PROVE  /\ \A m \in Numbers(st.items) : m < n
                 /\ q.reqs[n].kind = "more" => Continues(st.items, q.reqs[n].page)
        <2>1. CASE Numbers(st.items) = {}
            BY <2>1, EmptyContinues
        <2>2. CASE Numbers(st.items) /= {}
            <3>1. q.reqs[n].by \in Sessions
                BY <1>3, ListingParts
            <3>2. PICK tt \in Of(p, q.reqs[n].by) : Like(st, tt)
                BY <2>2, <3>1 DEF Carries
            <3>3. /\ \A m \in Numbers(tt.items) : m < n
                  /\ p.reqs[n].kind = "more" => Continues(tt.items, p.reqs[n].page)
                BY <1>3, <3>2 DEF Ordered, AwaitedFits
            <3> QED BY <3>2, <3>3 DEF Like, Alike
        <2> QED BY <2>1, <2>2
    <1> QED BY <1>1, <1>2, <1>3 DEF Ordered, ListsInOrder, AwaitedFits

---------------------------------------------------------------------------
\* The functions on the panel keep what the lists have

LEMMA NoPages ==
    /\ Numbers(<<>>) = {}
    /\ \A s : Numbers(Blank(s).items) = {}
    BY DEF Numbers, Blank

LEMMA KeptLists ==
    ASSUME NEW p, Shared(p), NEW s \in Sessions
    PROVE  /\ Numbers(Kept(p, s).items) = Numbers(p.kept[s].items)
           /\ Numbers(Kept(p, s).items) = {} \/ Kept(p, s) = p.kept[s]
    BY NoPages DEF Kept, Shared

LEMMA PersistLists ==
    ASSUME NEW p, Fits(p), Shared(p)
    PROVE  Shared(Persist(p)) /\ Carries(p, Persist(p))
    <1> DEFINE q == Persist(p)
    <1>1. /\ q.shown = p.shown
          /\ \A s \in Sessions \ {p.shown.owner} : q.kept[s] = p.kept[s]
          /\ p.shown.owner \in Sessions => q.kept[p.shown.owner] = p.shown
        BY PersistParts DEF Stored
    <1> HIDE DEF q
    <1>2. Shared(q)
        BY <1>1, ExplorerAssumption DEF Shared
    <1>3. ASSUME NEW s \in Sessions, NEW st \in Of(q, s)
          PROVE  st \in Of(p, s)
        BY <1>1, OfParts
    <1> QED BY <1>2, <1>3, SameLike DEF Carries, q

LEMMA ActivateLists ==
    ASSUME NEW p, Fits(p), Shared(p), NEW s \in Sessions
    PROVE  Shared(Activate(p, s)) /\ Carries(p, Activate(p, s))
    <1> DEFINE q == Activate(p, s)
    <1>1. /\ q.shown = Kept(p, s) /\ q.kept[s] = Kept(p, s) /\ q.shown.owner = s
          /\ \A t \in Sessions \ {s} : q.kept[t] = p.kept[t]
        BY ActivateParts, KeptParts
    <1> HIDE DEF q
    <1>2. Shared(q)
        BY <1>1, ExplorerAssumption DEF Shared
    <1>3. ASSUME NEW t \in Sessions, NEW st \in Of(q, t)
          PROVE  Numbers(st.items) = {} \/ st \in Of(p, t)
        BY <1>1, OfParts, KeptLists
    <1> QED BY <1>2, <1>3, SameLike DEF Carries, q

LEMMA ClearLists ==
    ASSUME NEW p, Fits(p), Shared(p)
    PROVE  Shared(Clear(p)) /\ Carries(p, Clear(p))
    <1> DEFINE q == Clear(p)
    <1>1. q.shown = Blank(None) /\ q.kept = p.kept /\ q.shown.owner = None
        BY ClearParts, BlankFits
    <1> HIDE DEF q
    <1>2. Shared(q)
        BY <1>1, ExplorerAssumption DEF Shared
    <1>3. ASSUME NEW t \in Sessions, NEW st \in Of(q, t)
          PROVE  st \in Of(p, t)
        BY <1>1, OfParts, ExplorerAssumption
    <1> QED BY <1>2, <1>3, SameLike DEF Carries, q

LEMMA ForgetLists ==
    ASSUME NEW p, Fits(p), Shared(p), NEW s \in Sessions
    PROVE  Shared(Forget(p, s)) /\ Carries(p, Forget(p, s))
    <1> DEFINE q == Forget(p, s)
    <1>1. /\ q.shown = IF p.shown.owner = s THEN Blank(None) ELSE p.shown
          /\ q.kept[s] = Blank(None) /\ \A t \in Sessions \ {s} : q.kept[t] = p.kept[t]
          /\ Blank(None).owner = None
        BY ForgetParts, BlankFits
    <1> HIDE DEF q
    <1>2. Shared(q)
        BY <1>1, NoPages, ExplorerAssumption DEF Shared
    <1>3. ASSUME NEW t \in Sessions, NEW st \in Of(q, t)
          PROVE  Numbers(st.items) = {} \/ st \in Of(p, t)
        BY <1>1, OfParts, NoPages
    <1> QED BY <1>2, <1>3, SameLike DEF Carries, q

LEMMA LoadedLists ==
    ASSUME NEW p, Fits(p), Shared(p)
    PROVE  Shared(Loaded(p)) /\ Carries(p, Loaded(p))
    <1> DEFINE q == Loaded(p)
    <1>1. /\ q.shown.owner = p.shown.owner
          /\ q.shown.items = p.shown.items /\ q.shown.next = p.shown.next
          /\ \A s \in Sessions \ {p.shown.owner} : q.kept[s] = p.kept[s]
          /\ p.shown.owner \in Sessions => q.kept[p.shown.owner] = q.shown
        BY LoadedParts DEF Stored
    <1> HIDE DEF q
    <1>2. Shared(q)
        BY <1>1, ExplorerAssumption DEF Shared
    <1>3. ASSUME NEW s \in Sessions, NEW st \in Of(q, s)
          PROVE  \E tt \in Of(p, s) : Like(st, tt)
        <2>1. st = p.kept[s] \/ (p.shown.owner = s /\ st = q.shown)
            BY <1>1, OfParts
        <2>2. CASE st = p.kept[s]
            BY <2>2, OfParts, SameLike
        <2>3. CASE p.shown.owner = s /\ st = q.shown
            <3>1. p.shown \in Of(p, s) /\ st.items = p.shown.items /\ st.next = p.shown.next
                BY <1>1, <2>3, OfParts
            <3> QED BY <3>1, SameLike
        <2> QED BY <2>1, <2>2, <2>3
    <1> QED BY <1>2, <1>3 DEF Carries, q

LEMMA LoadingLists ==
    ASSUME NEW p, Fits(p), Shared(p), NEW s \in Sessions, p.shown.owner = s
    PROVE  Shared(Loading(p, s)) /\ Carries(p, Loading(p, s))
    <1> DEFINE q == Loading(p, s)
    <1>1. /\ q.shown.owner = s
          /\ q.shown.items = p.shown.items /\ q.shown.next = p.shown.next
          /\ \A t \in Sessions \ {s} : q.kept[t] = p.kept[t]
          /\ q.kept[s] = q.shown
        BY LoadingParts DEF Stored
    <1> HIDE DEF q
    <1>2. Shared(q)
        BY <1>1, ExplorerAssumption DEF Shared
    <1>3. ASSUME NEW t \in Sessions, NEW st \in Of(q, t)
          PROVE  \E tt \in Of(p, t) : Like(st, tt)
        <2>1. (t /= s /\ st = p.kept[t]) \/ (t = s /\ st = q.shown)
            BY <1>1, OfParts
        <2> QED BY <1>1, <2>1, OfParts, SameLike
    <1> QED BY <1>2, <1>3 DEF Carries, q

LEMMA ApplyErrorLists ==
    ASSUME NEW p, Fits(p), Shared(p), NEW s \in Sessions
    PROVE  Shared(ApplyError(p, s)) /\ Carries(p, ApplyError(p, s))
    <1> DEFINE q == ApplyError(p, s)
    <1>1. /\ q.shown.owner = p.shown.owner
          /\ q.shown.items = p.shown.items /\ q.shown.next = p.shown.next
          /\ q.kept[s].owner = s
          /\ q.kept[s].items = Kept(p, s).items /\ q.kept[s].next = Kept(p, s).next
          /\ \A t \in Sessions \ {s} : q.kept[t] = p.kept[t]
        BY ApplyErrorParts
    <1> HIDE DEF q
    <1>4. \A t \in Sessions : Numbers(q.kept[t].items) = Numbers(p.kept[t].items)
        BY <1>1, KeptLists
    <1>2. Shared(q)
        BY <1>1, <1>4, ExplorerAssumption DEF Shared
    <1>3. ASSUME NEW t \in Sessions, NEW st \in Of(q, t), Numbers(st.items) /= {}
          PROVE  \E tt \in Of(p, t) : Like(st, tt)
        <2>1. CASE st = q.kept[t]
            <3>1. CASE t = s
                <4>1. st.items = Kept(p, s).items /\ st.next = Kept(p, s).next
                    BY <1>1, <2>1, <3>1
                <4>2. Kept(p, s) = p.kept[s]
                    BY <1>3, <4>1, KeptLists
                <4>3. p.kept[s] \in Of(p, t)
                    BY <3>1, OfParts
                <4> QED BY <4>1, <4>2, <4>3, SameLike
            <3>2. CASE t /= s
                BY <1>1, <2>1, <3>2, OfParts, SameLike
            <3> QED BY <3>1, <3>2
        <2>2. CASE p.shown.owner = t /\ st = q.shown
            BY <1>1, <2>2, OfParts, SameLike
        <2> QED BY <1>1, <2>1, <2>2, OfParts
    <1> QED BY <1>2, <1>3 DEF Carries, q

---------------------------------------------------------------------------
\* Requests and their versions

\* No listing of session s counts.
NoneAwaited(p, s) ==
    \A n \in 1..Len(p.reqs) :
        Listing(p.reqs[n]) /\ p.reqs[n].by = s => p.reqs[n].version /= p.version[s]

LEMMA SameCarries ==
    ASSUME NEW p, NEW q, q.shown = p.shown, q.kept = p.kept
    PROVE  /\ \A s : Of(q, s) = Of(p, s)
           /\ Carries(p, q) /\ (Shared(p) => Shared(q))
    <1>1. \A s : Of(q, s) = Of(p, s)
        BY DEF Of
    <1>2. Carries(p, q)
        BY <1>1, SameLike DEF Carries
    <1> QED BY <1>1, <1>2 DEF Shared

LEMMA VersionOrder ==
    ASSUME NEW p, Fits(p), Ordered(p), NEW s \in Sessions
    PROVE  LET q == [p EXCEPT !.version[s] = @ + 1]
           IN  Ordered(q) /\ Carries(p, q) /\ NoneAwaited(q, s)
    <1> DEFINE q == [p EXCEPT !.version[s] = @ + 1]
    <1>1. /\ q.shown = p.shown /\ q.kept = p.kept /\ q.reqs = p.reqs
          /\ q.version[s] = p.version[s] + 1 /\ p.version[s] \in Nat
          /\ \A t \in Sessions \ {s} : q.version[t] = p.version[t]
        BY VersionParts, PanelParts DEF Fits
    <1> HIDE DEF q
    <1>2. /\ Carries(p, q) /\ Shared(q) /\ \A t : Of(q, t) = Of(p, t)
        BY <1>1, SameCarries DEF Ordered
    <1>3. ListsInOrder(q)
        BY <1>1, <1>2 DEF Ordered, ListsInOrder
    <1>4. ASSUME NEW n \in 1..Len(q.reqs), Listing(q.reqs[n])
          PROVE  /\ q.reqs[n] = p.reqs[n] /\ q.reqs[n].by \in Sessions
                 /\ q.reqs[n].version \in Nat
                 /\ q.reqs[n].version <= p.version[q.reqs[n].by]
        BY <1>1, <1>4, ListingParts DEF Fits, Ordered, VersionsInOrder
    <1>5. NoneAwaited(q, s)
        BY <1>1, <1>4 DEF NoneAwaited
    <1>6. VersionsInOrder(q)
        <2>1. ASSUME NEW n \in 1..Len(q.reqs), Listing(q.reqs[n])
              PROVE  q.reqs[n].version <= q.version[q.reqs[n].by]
            <3>1. CASE q.reqs[n].by = s
                BY <1>1, <1>4, <2>1, <3>1
            <3>2. CASE q.reqs[n].by /= s
                BY <1>1, <1>4, <2>1, <3>2
            <3> QED BY <3>1, <3>2
        <2> QED BY <1>1, <2>1 DEF Ordered, VersionsInOrder
    <1>7. AwaitedFits(q)
        <2> SUFFICES ASSUME NEW n \in 1..Len(q.reqs), Listing(q.reqs[n]),
                            q.reqs[n].version = q.version[q.reqs[n].by],
                            NEW st \in Of(q, q.reqs[n].by)
                     PROVE  /\ \A m \in Numbers(st.items) : m < n
                            /\ q.reqs[n].kind = "more" => Continues(st.items, q.reqs[n].page)
            BY DEF AwaitedFits
        <2>1. q.reqs[n].by \in Sessions \ {s}
            BY <1>4, <1>5 DEF NoneAwaited
        <2> QED BY <1>1, <1>2, <2>1 DEF Ordered, AwaitedFits
    <1> QED BY <1>2, <1>3, <1>5, <1>6, <1>7 DEF Ordered, q

\* A request is made, with the version that its session has then.
LEMMA AskOrder ==
    ASSUME NEW p, Fits(p), Ordered(p), NEW q, NEW r,
           q.shown = p.shown, q.kept = p.kept, q.version = p.version,
           q.reqs = Append(p.reqs, r),
           Listing(r) =>
             /\ r.by \in Sessions /\ r.version = p.version[r.by] /\ NoneAwaited(p, r.by)
             /\ r.page /= 0 /\ (r.kind = "refresh" => r.page = 1)
             /\ r.kind = "more" => \A st \in Of(p, r.by) : Continues(st.items, r.page)
    PROVE  Ordered(q) /\ Carries(p, q)
    <1> DEFINE new == Len(p.reqs) + 1
    <1>1. /\ Carries(p, q) /\ Shared(q) /\ \A t : Of(q, t) = Of(p, t)
        BY SameCarries DEF Ordered
    <1>2. /\ Len(p.reqs) \in Nat /\ Len(q.reqs) = new /\ q.reqs[new] = r
          /\ \A n \in 1..Len(q.reqs) : n \in Nat
          /\ \A n \in 1..Len(q.reqs) : n /= new => n \in 1..Len(p.reqs) /\ q.reqs[n] = p.reqs[n]
        BY PanelParts DEF Fits
    <1>3. \A s \in Sessions : \A st \in Of(p, s) : \A m \in Numbers(st.items) :
            m \in Nat /\ m <= Len(p.reqs)
        <2> SUFFICES ASSUME NEW s \in Sessions, NEW st \in Of(p, s), NEW m \in Numbers(st.items)
                     PROVE  m \in Nat /\ m <= Len(p.reqs)
            OBVIOUS
        <2>1. st \in States
            BY OfParts, PanelParts DEF Fits
        <2>2. PICK i \in 1..Len(st.items) : m = st.items[i].n
            BY DEF Numbers
        <2>3. st.items[i] \in Entries
            BY <2>1, <2>2 DEF States
        <2>4. m \in Nat
            BY <2>2, <2>3 DEF Entries
        <2> QED BY <2>4 DEF Ordered, ListsInOrder
    <1> HIDE DEF new
    <1>4. ListsInOrder(q)
        BY <1>1, <1>2, <1>3 DEF Ordered, ListsInOrder, new
    <1>5. VersionsInOrder(q)
        <2>1. ASSUME NEW n \in 1..Len(q.reqs), Listing(q.reqs[n])
              PROVE  /\ q.reqs[n].version <= q.version[q.reqs[n].by]
                     /\ q.reqs[n].page /= 0 /\ (q.reqs[n].kind = "refresh" => q.reqs[n].page = 1)
            <3>1. CASE n = new
                BY <1>2, <2>1, <3>1, PanelParts DEF Fits
            <3>2. CASE n /= new
                BY <1>2, <2>1, <3>2 DEF Ordered, VersionsInOrder
            <3> QED BY <3>1, <3>2
        <2>2. ASSUME NEW n \in 1..Len(q.reqs), NEW m \in 1..Len(q.reqs),
                     Listing(q.reqs[m]), Listing(q.reqs[n]),
                     q.reqs[m].by = q.reqs[n].by, q.reqs[m].version = q.reqs[n].version
              PROVE  m = n
            <3>1. CASE n = new /\ m /= new
                BY <1>2, <2>2, <3>1 DEF NoneAwaited
            <3>2. CASE n /= new /\ m = new
                BY <1>2, <2>2, <3>2 DEF NoneAwaited
            <3>3. CASE n /= new /\ m /= new
                BY <1>2, <2>2, <3>3 DEF Ordered, VersionsInOrder
            <3> QED BY <3>1, <3>2, <3>3
        <2> QED BY <2>1, <2>2 DEF VersionsInOrder
    <1>6. AwaitedFits(q)
        <2> SUFFICES ASSUME NEW n \in 1..Len(q.reqs), Listing(q.reqs[n]),
                            q.reqs[n].version = q.version[q.reqs[n].by],
                            NEW st \in Of(q, q.reqs[n].by)
                     PROVE  /\ \A m \in Numbers(st.items) : m < n
                            /\ q.reqs[n].kind = "more" => Continues(st.items, q.reqs[n].page)
            BY DEF AwaitedFits
        <2>1. CASE n = new
            <3>1. r.by \in Sessions /\ st \in Of(p, r.by) /\ Listing(r)
                BY <1>1, <1>2, <2>1
            <3>2. \A m \in Numbers(st.items) : m < n
                <4>1. \A m \in Numbers(st.items) : m \in Nat /\ m <= Len(p.reqs)
                    BY <1>3, <3>1
                <4>2. n = Len(p.reqs) + 1 /\ Len(p.reqs) \in Nat
                    BY <1>2, <2>1 DEF new
                <4> QED BY <4>1, <4>2
            <3> QED BY <1>1, <1>2, <2>1, <3>1, <3>2
        <2>2. CASE n /= new
            BY <1>1, <1>2, <2>2 DEF Ordered, AwaitedFits
        <2> QED BY <2>1, <2>2
    <1> QED BY <1>1, <1>4, <1>5, <1>6 DEF Ordered

LEMMA RequestLists ==
    ASSUME NEW p \in Panels
    PROVE  /\ \A kind, s, dir, page, v :
                Send(p, kind, s, dir, page, v).reqs =
                    Append(p.reqs, [kind |-> kind, by |-> s, path |-> dir, page |-> page,
                                    version |-> v])
           /\ \A kind, s, dir, v :
                Begin(p, kind, s, dir, v).reqs =
                    Append(p.reqs, [kind |-> kind, by |-> s, path |-> dir, page |-> 1,
                                    version |-> v])
           /\ \A n : Answered(p, n).reqs = [p.reqs EXCEPT ![n] = Ended]
           /\ \A n : End(p, n).reqs = [p.reqs EXCEPT ![n] = Ended]
    BY DEF Panels, Send, Begin, Answered, End

LEMMA BeginOrder ==
    ASSUME NEW p, Fits(p), Ordered(p), NEW kind \in {"refresh", "create", "delete"},
           NEW s \in Sessions, NEW dir \in Paths, NEW v \in Nat,
           kind = "refresh" => v = p.version[s] /\ NoneAwaited(p, s)
    PROVE  Ordered(Begin(p, kind, s, dir, v)) /\ Carries(p, Begin(p, kind, s, dir, v))
    <1> DEFINE q == Begin(p, kind, s, dir, v)
               r == [kind |-> kind, by |-> s, path |-> dir, page |-> 1, version |-> v]
    <1>1. q.shown = p.shown /\ q.kept = p.kept /\ q.version = p.version
        BY BeginParts
    <1>2. q.reqs = Append(p.reqs, r)
        BY RequestLists DEF Fits
    <1>3. Listing(r) => kind = "refresh"
        BY DEF Listing
    <1>4. r.kind = kind /\ r.by = s /\ r.page = 1 /\ r.version = v
        OBVIOUS
    <1> HIDE DEF q, r
    <1> QED BY <1>1, <1>2, <1>3, <1>4, AskOrder DEF q

\* A request is answered; the one that counted was the only one.
LEMMA AnswerOrder ==
    ASSUME NEW p, Fits(p), Ordered(p), NEW n \in 1..Len(p.reqs),
           NEW q \in {Answered(p, n), End(p, n)}
    PROVE  /\ Ordered(q) /\ Carries(p, q)
           /\ Listing(p.reqs[n]) /\ p.reqs[n].version = p.version[p.reqs[n].by]
                => NoneAwaited(q, p.reqs[n].by)
    <1>1. /\ q.shown = p.shown /\ q.kept = p.kept /\ q.version = p.version
          /\ q.reqs = [p.reqs EXCEPT ![n] = Ended]
        BY EndParts, RequestLists DEF Fits
    <1>2. /\ Carries(p, q) /\ Shared(q) /\ \A t : Of(q, t) = Of(p, t)
        BY <1>1, SameCarries DEF Ordered
    <1>3. ~Listing(Ended)
        BY DEF Listing, Ended
    <1>4. /\ Len(q.reqs) = Len(p.reqs) /\ q.reqs[n] = Ended
          /\ \A m \in 1..Len(p.reqs) : m /= n => q.reqs[m] = p.reqs[m]
        BY <1>1, PanelParts DEF Fits
    <1>5. \A m \in 1..Len(q.reqs) : Listing(q.reqs[m]) => m /= n /\ q.reqs[m] = p.reqs[m]
        BY <1>3, <1>4
    <1>6. ListsInOrder(q)
        BY <1>2, <1>4 DEF Ordered, ListsInOrder
    <1>7. VersionsInOrder(q)
        BY <1>1, <1>4, <1>5 DEF Ordered, VersionsInOrder
    <1>8. AwaitedFits(q)
        BY <1>1, <1>2, <1>4, <1>5 DEF Ordered, AwaitedFits
    <1>9. ASSUME Listing(p.reqs[n]), p.reqs[n].version = p.version[p.reqs[n].by]
          PROVE  NoneAwaited(q, p.reqs[n].by)
        BY <1>1, <1>4, <1>5, <1>9 DEF Ordered, VersionsInOrder, NoneAwaited
    <1> QED BY <1>2, <1>6, <1>7, <1>8, <1>9 DEF Ordered

---------------------------------------------------------------------------
\* Lists of pages

LEMMA NextPage ==
    ASSUME NEW l, InOrder(l), NEW j \in 1..Len(l), NEW i \in 1..(j - 1),
           l[i].page /= 0, l[j].page /= 0, \A k \in (i + 1)..(j - 1) : l[k].page = 0
    PROVE  l[j].page = l[i].page + 1
    BY DEF InOrder

\* A list in another one: all its entries in their order, and all the pages.
LEMMA WithinAlike ==
    ASSUME NEW m \in Seq(Entries), NEW l \in Seq(Entries),
           NEW place \in [1..Len(l) -> 1..Len(m)],
           \A i \in 1..Len(l) : l[i] = m[place[i]],
           \A i, j \in 1..Len(l) : i < j => place[i] < place[j],
           \A k \in 1..Len(m) : m[k].page /= 0 => \E i \in 1..Len(l) : place[i] = k
    PROVE  Alike(l, m) /\ Alike(m, l)
    <1>1. Len(l) \in Nat /\ Len(m) \in Nat /\ \A i \in 1..Len(l) : place[i] \in 1..Len(m)
        OBVIOUS
    <1>2. \A i, j \in 1..Len(l) : place[i] < place[j] => i < j
        <2> SUFFICES ASSUME NEW i \in 1..Len(l), NEW j \in 1..Len(l),
                            place[i] < place[j], ~(i < j)
                     PROVE  FALSE
            OBVIOUS
        <2>1. i = j \/ j < i
            BY <1>1
        <2>2. place[i] \in Nat /\ place[j] \in Nat
            BY <1>1
        <2> QED BY <2>1, <2>2
    <1>3. \A k \in 1..Len(m) : m[k].page /= 0 =>
            \E i \in 1..Len(l) : place[i] = k /\ l[i] = m[k]
        OBVIOUS
    <1>4. Numbers(l) = Numbers(m)
        <2>1. ASSUME NEW n \in Numbers(l)
              PROVE  n \in Numbers(m)
            BY <1>1, <2>1 DEF Numbers
        <2>2. ASSUME NEW n \in Numbers(m)
              PROVE  n \in Numbers(l)
            <3>1. PICK k \in 1..Len(m) : m[k].page /= 0 /\ n = m[k].n
                BY <2>2 DEF Numbers
            <3>2. PICK i \in 1..Len(l) : l[i] = m[k]
                BY <1>3, <3>1
            <3> QED BY <3>1, <3>2 DEF Numbers
        <2> QED BY <2>1, <2>2
    <1>5. ASSUME InOrder(m)
          PROVE  InOrder(l)
        <2> SUFFICES ASSUME NEW j \in 1..Len(l), NEW i \in 1..(j - 1),
                            l[i].page /= 0, l[j].page /= 0,
                            \A k \in (i + 1)..(j - 1) : l[k].page = 0
                     PROVE  l[j].page = l[i].page + 1
            BY DEF InOrder
        <2>1. i \in 1..Len(l) /\ i < j
            BY <1>1
        <2>2. place[i] \in 1..(place[j] - 1) /\ place[j] \in 1..Len(m)
            BY <1>1, <2>1
        <2>3. ASSUME NEW k \in (place[i] + 1)..(place[j] - 1), m[k].page /= 0
              PROVE  FALSE
            <3>1. k \in 1..Len(m) /\ place[i] < k /\ k < place[j]
                BY <2>2
            <3>2. PICK h \in 1..Len(l) : place[h] = k /\ l[h] = m[k]
                BY <1>3, <2>3, <3>1
            <3>3. i < h /\ h < j
                BY <1>2, <2>1, <3>1, <3>2
            <3>4. h \in (i + 1)..(j - 1)
                BY <2>1, <3>3
            <3> QED BY <2>3, <3>2, <3>4
        <2>4. \A k \in (place[i] + 1)..(place[j] - 1) : m[k].page = 0
            BY <2>3
        <2>5. l[i] = m[place[i]] /\ l[j] = m[place[j]]
            BY <2>1
        <2>6. m[place[i]].page /= 0 /\ m[place[j]].page /= 0
            BY <2>5
        <2> DEFINE a == place[i]
                   b == place[j]
        <2>7. a \in 1..(b - 1) /\ b \in 1..Len(m) /\ \A k \in (a + 1)..(b - 1) : m[k].page = 0
            BY <2>2, <2>4
        <2>8. m[a].page /= 0 /\ m[b].page /= 0 /\ l[i] = m[a] /\ l[j] = m[b]
            BY <2>5, <2>6
        <2> HIDE DEF a, b
        <2>9. m[b].page = m[a].page + 1
            BY <1>5, <2>7, <2>8, NextPage
        <2> QED BY <2>8, <2>9
    <1>6. ASSUME InOrder(l)
          PROVE  InOrder(m)
        <2> SUFFICES ASSUME NEW b \in 1..Len(m), NEW a \in 1..(b - 1),
                            m[a].page /= 0, m[b].page /= 0,
                            \A k \in (a + 1)..(b - 1) : m[k].page = 0
                     PROVE  m[b].page = m[a].page + 1
            BY DEF InOrder
        <2>1. a \in 1..Len(m) /\ a < b
            BY <1>1
        <2>2. PICK i \in 1..Len(l) : place[i] = a /\ l[i] = m[a]
            BY <1>3, <2>1
        <2>3. PICK j \in 1..Len(l) : place[j] = b /\ l[j] = m[b]
            BY <1>3
        <2>4. i \in 1..(j - 1)
            BY <1>2, <2>1, <2>2, <2>3
        <2>5. ASSUME NEW k \in (i + 1)..(j - 1)
              PROVE  l[k].page = 0
            <3>1. k \in 1..Len(l) /\ i < k /\ k < j
                BY <2>4
            <3>2. place[i] < place[k] /\ place[k] < place[j] /\ place[k] \in Nat
                BY <1>1, <3>1
            <3>3. place[k] \in (a + 1)..(b - 1)
                BY <2>1, <2>2, <2>3, <3>2
            <3> QED BY <3>1, <3>3
        <2> QED BY <1>6, <2>2, <2>3, <2>4, <2>5, NextPage
    <1>7. ASSUME NEW x, Continues(m, x)
          PROVE  Continues(l, x)
        <2> SUFFICES ASSUME NEW i \in 1..Len(l), x /= 0, l[i].page /= 0,
                            \A k \in (i + 1)..Len(l) : l[k].page = 0
                     PROVE  x = l[i].page + 1
            BY <1>5, <1>7 DEF Continues
        <2>1. place[i] \in 1..Len(m) /\ m[place[i]] = l[i]
            BY <1>1
        <2>2. ASSUME NEW k \in (place[i] + 1)..Len(m), m[k].page /= 0
              PROVE  FALSE
            <3>1. k \in 1..Len(m) /\ place[i] < k
                BY <2>1
            <3>2. PICK h \in 1..Len(l) : place[h] = k /\ l[h] = m[k]
                BY <1>3, <2>2, <3>1
            <3>3. h \in (i + 1)..Len(l)
                BY <1>1, <1>2, <3>1, <3>2
            <3> QED BY <2>2, <3>2, <3>3
        <2> QED BY <1>7, <2>1, <2>2 DEF Continues
    <1>8. ASSUME NEW x, Continues(l, x)
          PROVE  Continues(m, x)
        <2> SUFFICES ASSUME NEW a \in 1..Len(m), x /= 0, m[a].page /= 0,
                            \A k \in (a + 1)..Len(m) : m[k].page = 0
                     PROVE  x = m[a].page + 1
            BY <1>6, <1>8 DEF Continues
        <2>1. PICK i \in 1..Len(l) : place[i] = a /\ l[i] = m[a]
            BY <1>3
        <2>2. ASSUME NEW k \in (i + 1)..Len(l)
              PROVE  l[k].page = 0
            <3>1. k \in 1..Len(l) /\ i < k
                BY <1>1
            <3>2. place[i] < place[k] /\ place[k] \in 1..Len(m)
                BY <1>1, <3>1
            <3>3. place[k] \in (a + 1)..Len(m)
                BY <1>1, <2>1, <3>2
            <3> QED BY <3>1, <3>3
        <2> QED BY <1>8, <2>1, <2>2 DEF Continues
    <1> QED BY <1>4, <1>7, <1>8 DEF Alike

\* A new entry in front of a list
LEMMA PrependAlike ==
    ASSUME NEW m \in Seq(Entries), NEW e \in Entries, e.page = 0
    PROVE  Alike(<<e>> \o m, m)
    <1> DEFINE l == <<e>> \o m
               place == [i \in 1..Len(m) |-> i + 1]
    <1>1. /\ l \in Seq(Entries) /\ Len(l) = Len(m) + 1 /\ l[1] = e
          /\ \A i \in 1..Len(m) : l[i + 1] = m[i]
        OBVIOUS
    <1> HIDE DEF l
    <1>2. /\ place \in [1..Len(m) -> 1..Len(l)]
          /\ \A i \in 1..Len(m) : place[i] = i + 1
        BY <1>1
    <1>3. \A k \in 1..Len(l) : l[k].page /= 0 => \E i \in 1..Len(m) : place[i] = k
        <2> SUFFICES ASSUME NEW k \in 1..Len(l), l[k].page /= 0
                     PROVE  \E i \in 1..Len(m) : place[i] = k
            OBVIOUS
        <2>1. k /= 1
            BY <1>1
        <2>2. k - 1 \in 1..Len(m)
            BY <1>1, <2>1
        <2>3. place[k - 1] = k
            BY <1>2, <2>2
        <2> QED BY <2>2, <2>3
    <1> HIDE DEF place
    <1>4. /\ \A i \in 1..Len(m) : m[i] = l[place[i]]
          /\ \A i, j \in 1..Len(m) : i < j => place[i] < place[j]
        BY <1>1, <1>2
    <1> QED BY <1>1, <1>2, <1>3, <1>4, WithinAlike DEF l

\* What is left when entries that are not pages are taken out
LEMMA FilterAlike ==
    ASSUME NEW m \in Seq(Entries), NEW pass, pass \subseteq 1..Len(m),
           \A i \in 1..Len(m) : m[i].page /= 0 => i \in pass,
           NEW l \in Filter(m, pass)
    PROVE  l \in Seq(Entries) /\ Alike(l, m)
    <1>1. PICK len \in 0..Len(m) :
            \E place \in [1..len -> pass] :
                /\ l = [i \in 1..len |-> m[place[i]]] /\ Range(place) = pass
                /\ \A i, j \in 1..len : i < j => place[i] < place[j]
        BY DEF Filter
    <1>2. PICK place \in [1..len -> pass] :
            /\ l = [i \in 1..len |-> m[place[i]]] /\ Range(place) = pass
            /\ \A i, j \in 1..len : i < j => place[i] < place[j]
        BY <1>1
    <1>3. /\ place \in [1..len -> 1..Len(m)]
          /\ \A k \in pass : \E i \in 1..len : place[i] = k
        BY <1>2 DEF Range
    <1>4. \A i \in 1..len : m[place[i]] \in Entries
        <2>1. \A j \in 1..Len(m) : m[j] \in Entries
            OBVIOUS
        <2> QED BY <1>3, <2>1
    <1>5. l \in Seq(Entries) /\ Len(l) = len /\ \A i \in 1..len : l[i] = m[place[i]]
        BY <1>2, <1>4
    <1>6. \A k \in 1..Len(m) : m[k].page /= 0 => \E i \in 1..Len(l) : place[i] = k
        BY <1>3, <1>5
    <1>7. place \in [1..Len(l) -> 1..Len(m)]
        BY <1>3, <1>5
    <1> QED BY <1>2, <1>5, <1>6, <1>7, WithinAlike

\* A page that continues a list
LEMMA AppendPage ==
    ASSUME NEW m \in Seq(Entries), NEW e \in Entries, e.page /= 0, Continues(m, e.page)
    PROVE  LET l == m \o <<e>>
           IN  /\ Numbers(l) = Numbers(m) \cup {e.n}
               /\ Continues(l, 0) /\ Continues(l, e.page + 1)
    <1> DEFINE l == m \o <<e>>
               last == Len(m) + 1
    <1>1. /\ Len(m) \in Nat /\ Len(l) = last /\ l[last] = e
          /\ \A i \in 1..Len(m) : l[i] = m[i]
        OBVIOUS
    <1> HIDE DEF l
    <1>2. Numbers(l) = Numbers(m) \cup {e.n}
        <2>1. \A i \in 1..Len(l) : i \in 1..Len(m) \/ i = last
            BY <1>1
        <2>2. last \in 1..Len(l) /\ \A i \in 1..Len(m) : i \in 1..Len(l)
            BY <1>1
        <2> HIDE DEF last
        <2>3. ASSUME NEW n \in Numbers(l)
              PROVE  n \in Numbers(m) \cup {e.n}
            <3>1. PICK i \in 1..Len(l) : l[i].page /= 0 /\ n = l[i].n
                BY <2>3 DEF Numbers
            <3> QED BY <1>1, <2>1, <3>1 DEF Numbers
        <2>4. ASSUME NEW n \in Numbers(m) \cup {e.n}
              PROVE  n \in Numbers(l)
            <3>1. CASE n = e.n
                BY <1>1, <2>2, <3>1 DEF Numbers
            <3>2. CASE n \in Numbers(m)
                <4>1. PICK i \in 1..Len(m) : m[i].page /= 0 /\ n = m[i].n
                    BY <3>2 DEF Numbers
                <4>2. i \in 1..Len(l) /\ l[i] = m[i]
                    BY <1>1, <2>2
                <4> QED BY <4>1, <4>2 DEF Numbers
            <3> QED BY <2>4, <3>1, <3>2
        <2> QED BY <2>3, <2>4
    <1>3. InOrder(l)
        <2> SUFFICES ASSUME NEW j \in 1..Len(l), NEW i \in 1..(j - 1),
                            l[i].page /= 0, l[j].page /= 0,
                            \A k \in (i + 1)..(j - 1) : l[k].page = 0
                     PROVE  l[j].page = l[i].page + 1
            BY DEF InOrder
        <2>1. i \in 1..Len(m) /\ l[i] = m[i]
            BY <1>1
        <2>2. \A k \in (i + 1)..(j - 1) : k \in 1..Len(m) /\ m[k].page = 0
            BY <1>1, <2>1
        <2>3. CASE j = last
            <3>1. \A k \in (i + 1)..Len(m) : m[k].page = 0
                BY <1>1, <2>2, <2>3
            <3> QED BY <1>1, <2>1, <2>3, <3>1 DEF Continues
        <2>4. CASE j /= last
            <3>1. j \in 1..Len(m) /\ l[j] = m[j]
                BY <1>1, <2>4
            <3> QED BY <2>1, <2>2, <3>1 DEF Continues, InOrder
        <2> QED BY <2>3, <2>4
    <1>4. ASSUME NEW i \in 1..Len(l), \A k \in (i + 1)..Len(l) : l[k].page = 0
          PROVE  l[i] = e
        <2>1. i = last
            <3> SUFFICES ASSUME i /= last
                         PROVE  FALSE
                OBVIOUS
            <3>1. last \in (i + 1)..Len(l)
                BY <1>1
            <3> QED BY <1>1, <1>4, <3>1
        <2> QED BY <1>1, <2>1
    <1>5. Continues(l, 0) /\ Continues(l, e.page + 1)
        BY <1>3, <1>4 DEF Continues
    <1> QED BY <1>2, <1>5 DEF l

LEMMA FirstPage ==
    ASSUME NEW e \in Entries, e.page /= 0
    PROVE  Numbers(<<e>>) = {e.n} /\ Continues(<<e>>, 0) /\ Continues(<<e>>, e.page + 1)
    <1>1. <<>> \in Seq(Entries) /\ <<>> \o <<e>> = <<e>>
        OBVIOUS
    <1>2. Continues(<<>>, e.page)
        BY NoPages, EmptyContinues
    <1> QED BY <1>1, <1>2, NoPages, AppendPage

---------------------------------------------------------------------------
\* The handlers keep the order

LEMMA CarriesNumbers ==
    ASSUME NEW p, NEW q, Shared(p), Carries(p, q), NEW s \in Sessions
    PROVE  Numbers(q.kept[s].items) \in {{}, Numbers(p.kept[s].items)}
    <1> SUFFICES ASSUME Numbers(q.kept[s].items) /= {}
                 PROVE  Numbers(q.kept[s].items) = Numbers(p.kept[s].items)
        OBVIOUS
    <1>1. PICK tt \in Of(p, s) : Like(q.kept[s], tt)
        BY OfParts DEF Carries
    <1>2. Numbers(tt.items) = Numbers(p.kept[s].items)
        BY OfParts DEF Shared
    <1> QED BY <1>1, <1>2 DEF Like, Alike

\* The panel shows the same list.
LEMMA ShowLists ==
    ASSUME NEW p, NEW q, q.kept = p.kept, q.shown.owner = p.shown.owner,
           q.shown.items = p.shown.items, q.shown.next = p.shown.next
    PROVE  Carries(p, q) /\ (Shared(p) => Shared(q))
    <1>1. ASSUME NEW s \in Sessions, NEW st \in Of(q, s)
          PROVE  \E tt \in Of(p, s) : Like(st, tt)
        <2>1. CASE st = p.kept[s]
            BY <2>1, OfParts, SameLike
        <2>2. CASE p.shown.owner = s /\ st = q.shown
            <3>1. p.shown \in Of(p, s) /\ st.items = p.shown.items /\ st.next = p.shown.next
                BY <2>2, OfParts
            <3> QED BY <3>1, SameLike
        <2> QED BY <2>1, <2>2, OfParts
    <1> QED BY <1>1 DEF Carries, Shared

\* What a handler makes of a panel in order
Keeps(p, q) == Fits(q) /\ Ordered(q) /\ Carries(p, q)

LEMMA KeepsTrans ==
    ASSUME NEW p, NEW q, NEW r, Keeps(p, q), Keeps(q, r)
    PROVE  Keeps(p, r)
    BY CarriesTrans DEF Keeps

LEMMA KeepsByLists ==
    ASSUME NEW p, NEW q, Fits(p), Ordered(p), Fits(q), Shared(q), Carries(p, q),
           q.reqs = p.reqs, q.version = p.version
    PROVE  Keeps(p, q)
    BY CarriesOrder DEF Keeps, Fits

LEMMA PersistOrder ==
    ASSUME NEW p, Fits(p), Ordered(p)
    PROVE  Keeps(p, Persist(p))
    BY PersistParts, PersistLists, KeepsByLists DEF Ordered

LEMMA LoadedOrder ==
    ASSUME NEW p, Fits(p), Ordered(p)
    PROVE  Keeps(p, Loaded(p))
    BY LoadedParts, LoadedLists, KeepsByLists DEF Ordered

LEMMA ActivateOrder ==
    ASSUME NEW p, Fits(p), Ordered(p), NEW s \in Sessions
    PROVE  Keeps(p, Activate(p, s))
    BY ActivateParts, ActivateLists, KeepsByLists DEF Ordered

LEMMA ClearOrder ==
    ASSUME NEW p, Fits(p), Ordered(p)
    PROVE  Keeps(p, Clear(p))
    BY ClearParts, ClearLists, KeepsByLists DEF Ordered

LEMMA ForgetOrder ==
    ASSUME NEW p, Fits(p), Ordered(p), NEW s \in Sessions
    PROVE  Keeps(p, Forget(p, s))
    BY ForgetParts, ForgetLists, KeepsByLists DEF Ordered

LEMMA ApplyErrorOrder ==
    ASSUME NEW p, Fits(p), Ordered(p), NEW s \in Sessions
    PROVE  Keeps(p, ApplyError(p, s))
    BY ApplyErrorParts, ApplyErrorLists, KeepsByLists DEF Ordered

LEMMA RefuseOrder ==
    ASSUME NEW p, Fits(p), Ordered(p), NEW s \in Sessions
    PROVE  Keeps(p, Refuse(p, s))
    <1> DEFINE q == ApplyError(p, s)
               st == [q.shown EXCEPT !.error = TRUE, !.initialized = TRUE, !.loading = FALSE]
               r == [q EXCEPT !.shown = st]
    <1>1. Keeps(p, q)
        BY ApplyErrorOrder
    <1>2. Refuse(p, s) = Persist(r)
        BY <1>1 DEF Refuse, Keeps, Fits, Panels
    <1> HIDE DEF q
    <1>3. /\ st \in States /\ st.owner = q.shown.owner /\ st.items = q.shown.items
          /\ st.next = q.shown.next /\ ~st.loading
        BY <1>1, PanelParts DEF Keeps, Fits, States
    <1>4. ListedOn(st.items, st.owner) /\ (st.owner = None => st.next = 0 /\ ~st.loading)
        BY <1>1, <1>3 DEF Keeps, Fits
    <1> HIDE DEF st
    <1>5. /\ Fits(r) /\ r.shown = st /\ r.version = q.version /\ r.reqs = q.reqs
          /\ r.kept = q.kept
        BY <1>1, <1>3, <1>4, ShowParts DEF Keeps
    <1> HIDE DEF r
    <1>6. Carries(q, r) /\ Shared(r)
        BY <1>1, <1>3, <1>5, ShowLists DEF Keeps, Ordered
    <1>7. Keeps(q, r)
        BY <1>1, <1>5, <1>6, KeepsByLists DEF Keeps
    <1>8. Keeps(r, Persist(r))
        BY <1>7, PersistOrder DEF Keeps
    <1> QED BY <1>1, <1>2, <1>7, <1>8, KeepsTrans

LEMMA RefreshOrder ==
    ASSUME NEW p, NEW s \in Sessions, Fits(p), Ordered(p), NEW dir \in Paths
    PROVE  Keeps(p, Refresh(p, s, dir))
    <1> DEFINE v == p.version[s] + 1
               q == [p EXCEPT !.version[s] = @ + 1]
               a == IF q.shown.owner = s THEN q ELSE Activate(q, s)
               st == [a.shown EXCEPT !.error = FALSE]
               b == [a EXCEPT !.shown = st]
               l == Loading(b, s)
    <1>1. p \in Panels /\ v \in Nat /\ s /= None
        BY PanelParts, ExplorerAssumption DEF Fits
    <1>2. /\ Fits(q) /\ q.version[s] = v
          /\ Ordered(q) /\ Carries(p, q) /\ NoneAwaited(q, s)
        BY VersionParts, VersionOrder
    <1>3. Refresh(p, s, dir) =
            LET k == Loading([a EXCEPT !.shown.error = FALSE], s)
            IN  IF <<"refresh", dir>> \in p.busy THEN Loaded(k)
                ELSE Begin(k, "refresh", s, dir, q.version[s])
        BY DEF Refresh, Duplicate
    <1> HIDE DEF q
    <1>4. Keeps(p, q)
        BY <1>2 DEF Keeps
    <1>5. a.shown.owner = s /\ a.version = q.version /\ a.reqs = q.reqs /\ Keeps(p, a)
        <2>1. CASE q.shown.owner = s
            BY <1>4, <2>1
        <2>2. CASE q.shown.owner /= s
            <3>1. Keeps(q, a)
                BY <1>2, <2>2, ActivateOrder
            <3>2. a.shown.owner = s /\ a.version = q.version /\ a.reqs = q.reqs
                BY <1>2, <2>2, ActivateParts, KeptParts
            <3> HIDE DEF a
            <3> QED BY <1>4, <3>1, <3>2, KeepsTrans
        <2> QED BY <2>1, <2>2
    <1> HIDE DEF a
    <1>6. Refresh(p, s, dir) =
            IF <<"refresh", dir>> \in p.busy THEN Loaded(l) ELSE Begin(l, "refresh", s, dir, v)
        <2>1. [a EXCEPT !.shown.error = FALSE] = b
            BY <1>5 DEF Keeps, Fits, Panels
        <2> HIDE DEF b
        <2> QED BY <1>2, <1>3, <2>1
    <1>7. /\ st \in States /\ st.owner = s /\ st.items = a.shown.items /\ st.next = a.shown.next
        BY <1>5, PanelParts DEF Keeps, Fits, States
    <1>8. ListedOn(st.items, st.owner)
        BY <1>5, <1>7 DEF Keeps, Fits
    <1> HIDE DEF st
    <1>9. /\ Fits(b) /\ b.shown = st /\ b.version = q.version /\ b.reqs = q.reqs /\ b.kept = a.kept
        BY <1>1, <1>5, <1>7, <1>8, ShowParts DEF Keeps
    <1> HIDE DEF b
    <1>10. Carries(a, b) /\ Shared(b)
        BY <1>5, <1>7, <1>9, ShowLists DEF Keeps, Ordered
    <1>11. Keeps(a, b)
        BY <1>5, <1>9, <1>10, KeepsByLists DEF Keeps
    <1>12. b.shown.owner = s
        BY <1>7, <1>9
    <1>13. /\ Fits(l) /\ l.version = q.version /\ l.reqs = q.reqs
           /\ Shared(l) /\ Carries(b, l)
        BY <1>9, <1>11, <1>12, LoadingParts, LoadingLists DEF Keeps, Ordered
    <1> HIDE DEF l
    <1>14. Keeps(b, l)
        BY <1>9, <1>11, <1>13, KeepsByLists DEF Keeps
    <1>15. Keeps(p, l)
        BY <1>5, <1>11, <1>14, KeepsTrans
    <1>16. CASE <<"refresh", dir>> \in p.busy
        <2>1. Keeps(l, Loaded(l))
            BY <1>15, LoadedOrder DEF Keeps
        <2> QED BY <1>6, <1>15, <1>16, <2>1, KeepsTrans
    <1>17. CASE <<"refresh", dir>> \notin p.busy
        <2> DEFINE r == Begin(l, "refresh", s, dir, v)
        <2>1. NoneAwaited(l, s) /\ v = l.version[s]
            BY <1>2, <1>13 DEF NoneAwaited
        <2>2. "refresh" \in {"refresh", "create", "delete"}
            OBVIOUS
        <2> HIDE DEF v
        <2>3. Fits(r)
            BY <1>1, <1>13, <2>2, BeginParts
        <2>4. Ordered(r) /\ Carries(l, r)
            BY <1>1, <1>13, <1>15, <2>1, <2>2, BeginOrder DEF Keeps
        <2>5. Refresh(p, s, dir) = r
            BY <1>6, <1>17
        <2> HIDE DEF r
        <2>6. Keeps(l, r)
            BY <2>3, <2>4 DEF Keeps
        <2> QED BY <1>15, <2>5, <2>6, KeepsTrans
    <1> QED BY <1>16, <1>17

LEMMA KeepsSame ==
    ASSUME NEW p, Fits(p), Ordered(p)
    PROVE  Keeps(p, p)
    BY SameCarries DEF Keeps

LEMMA AutomaticOrder ==
    ASSUME NEW p, NEW s \in Sessions, Fits(p), Ordered(p), NEW rdy
    PROVE  Keeps(p, Automatic(p, s, rdy))
    <1>1. p.shown.path \in Paths
        BY PanelParts DEF Fits, States
    <1> QED BY <1>1, KeepsSame, RefuseOrder, RefreshOrder DEF Automatic

LEMMA WatchOrder ==
    ASSUME NEW p, NEW s \in Sessions \cup {None}, Fits(p), Ordered(p), NEW rdy
    PROVE  Keeps(p, Watch(p, s, rdy))
    <1>1. Keeps(p, Persist(p))
        BY PersistOrder
    <1>2. Keeps(p, Clear(Persist(p)))
        <2>1. Keeps(Persist(p), Clear(Persist(p)))
            BY <1>1, ClearOrder DEF Keeps
        <2> QED BY <1>1, <2>1, KeepsTrans
    <1>3. ASSUME s \in Sessions
          PROVE  LET q == IF p.shown.owner = s THEN p ELSE Activate(Persist(p), s)
                 IN  Keeps(p, IF q.shown.initialized THEN q ELSE Automatic(q, s, rdy))
        <2> DEFINE r == Activate(Persist(p), s)
                   q == IF p.shown.owner = s THEN p ELSE r
        <2>1. Keeps(Persist(p), r)
            BY <1>1, <1>3, ActivateOrder DEF Keeps
        <2>2. Keeps(p, r)
            BY <1>1, <2>1, KeepsTrans
        <2> HIDE DEF r
        <2>3. Keeps(p, q)
            BY <2>2, KeepsSame
        <2> HIDE DEF q
        <2>4. Keeps(q, Automatic(q, s, rdy))
            BY <1>3, <2>3, AutomaticOrder DEF Keeps
        <2>5. Keeps(p, IF q.shown.initialized THEN q ELSE Automatic(q, s, rdy))
            BY <2>3, <2>4, KeepsTrans
        <2> QED BY <2>5 DEF q, r
    <1>4. s \in Sessions => s /= None
        BY ExplorerAssumption
    <1>5. CASE s = None \/ rdy[s] = "none"
        BY <1>2, <1>5 DEF Watch
    <1>6. CASE s \in Sessions /\ rdy[s] /= "none"
        BY <1>3, <1>4, <1>6 DEF Watch
    <1> QED BY <1>5, <1>6

\* A page that counts becomes the list of its session.
LEMMA SettleOrder ==
    ASSUME NEW p, NEW s \in Sessions, Fits(p), Ordered(p), NoneAwaited(p, s),
           active \in Sessions \cup {None}, p.shown.owner \in {active, None},
           NEW dir \in Paths, NEW items \in Seq(Entries), ListedOn(items, s), NEW next \in Nat,
           Continues(items, next), \A m \in Numbers(items) : m <= Len(p.reqs),
           \A m \in Numbers(p.kept[s].items) : \E n \in Numbers(items) : m <= n
    PROVE  LET q == Settle(ApplyPage(p, s, dir, items, next), s)
           IN  q \in Panels /\ Ordered(q) /\ MovesForward(p.kept, q.kept)
    <1> DEFINE a == ApplyPage(p, s, dir, items, next)
               b == IF active = s THEN Sync(a, s) ELSE a
               q == Settle(a, s)
    <1>1. /\ Fits(a) /\ a.shown = p.shown /\ a.version = p.version /\ a.reqs = p.reqs
          /\ a.kept[s].owner = s /\ a.kept[s].items = items /\ a.kept[s].next = next
          /\ \A t \in Sessions \ {s} : a.kept[t] = p.kept[t]
        BY ApplyPageParts
    <1>2. q = Loaded(b)
        BY DEF Settle
    <1> HIDE DEF a
    <1>3. s /= None
        BY ExplorerAssumption
    <1>4. /\ Fits(b) /\ b.kept = a.kept /\ b.version = p.version /\ b.reqs = p.reqs
          /\ \/ b.shown.owner = s /\ b.shown.items = items /\ b.shown.next = next
             \/ b.shown.owner /= s /\ b.shown = p.shown
        <2>1. CASE active = s
            BY <1>1, <2>1, SyncParts
        <2>2. CASE active /= s
            BY <1>1, <1>3, <2>2
        <2> QED BY <2>1, <2>2
    <1> HIDE DEF b, q
    <1>5. Shared(b)
        <2>1. \A t \in Sessions \ {s} : b.kept[t] = p.kept[t]
            BY <1>1, <1>4
        <2>2. b.kept[s].owner = s /\ b.kept[s].items = items
            BY <1>1, <1>4
        <2> QED BY <1>3, <1>4, <2>1, <2>2 DEF Ordered, Shared
    <1>6. ASSUME NEW t \in Sessions, NEW st \in Of(b, t)
          PROVE  \/ t = s /\ st.items = items /\ st.next = next
                 \/ t /= s /\ st \in Of(p, t)
        BY <1>1, <1>4, OfParts
    <1>7. ListsInOrder(b)
        BY <1>4, <1>6 DEF Ordered, ListsInOrder
    <1>8. VersionsInOrder(b) /\ NoneAwaited(b, s)
        BY <1>4 DEF Ordered, VersionsInOrder, NoneAwaited
    <1>9. AwaitedFits(b)
        <2> SUFFICES ASSUME NEW n \in 1..Len(b.reqs), Listing(b.reqs[n]),
                            b.reqs[n].version = b.version[b.reqs[n].by],
                            NEW st \in Of(b, b.reqs[n].by)
                     PROVE  /\ \A m \in Numbers(st.items) : m < n
                            /\ b.reqs[n].kind = "more" => Continues(st.items, b.reqs[n].page)
            BY DEF AwaitedFits
        <2>1. b.reqs[n].by \in Sessions /\ b.reqs[n].by /= s
            BY <1>4, <1>8, ListingParts DEF NoneAwaited, Fits
        <2> QED BY <1>4, <1>6, <2>1 DEF Ordered, AwaitedFits
    <1>10. Keeps(b, q)
        BY <1>2, <1>4, <1>5, <1>7, <1>8, <1>9, LoadedOrder DEF Ordered
    <1>11. MovesForward(p.kept, q.kept)
        <2> SUFFICES ASSUME NEW t \in Sessions, Numbers(q.kept[t].items) /= {},
                            NEW m \in Numbers(p.kept[t].items)
                     PROVE  \E n \in Numbers(q.kept[t].items) : m <= n
            BY DEF MovesForward
        <2>1. Numbers(q.kept[t].items) = Numbers(b.kept[t].items)
            BY <1>5, <1>10, CarriesNumbers DEF Keeps
        <2>2. CASE t = s
            BY <1>1, <1>4, <2>1, <2>2
        <2>3. CASE t /= s
            <3>1. b.kept[t] = p.kept[t]
                BY <1>1, <1>4, <2>3
            <3>2. m <= m
                BY NumbersAreNumbers DEF Fits
            <3> QED BY <2>1, <3>1, <3>2
        <2> QED BY <2>2, <2>3
    <1> QED BY <1>10, <1>11 DEF Keeps, Fits, q, a

---------------------------------------------------------------------------
\* The actions keep the order

Forward == OrderInv' /\ MovesForward(kept, kept')

LEMMA BecomesForward ==
    ASSUME NEW p \in Panels, Becomes(p), Ordered(p), MovesForward(kept, p.kept)
    PROVE  Forward
    <1>1. /\ shown' = p.shown /\ kept' = p.kept /\ version' = p.version
          /\ busy' = p.busy /\ reqs' = p.reqs
        BY DEF Becomes
    <1>2. p = [shown |-> p.shown, kept |-> p.kept, version |-> p.version, busy |-> p.busy,
               reqs |-> p.reqs]
        BY DEF Panels
    <1>3. Panel' = p
        BY <1>1, <1>2 DEF Panel
    <1> QED BY <1>1, <1>3 DEF Forward, OrderInv

LEMMA KeepsForward ==
    ASSUME IInv, OrderInv, NEW p, Becomes(p), Keeps(Panel, p)
    PROVE  Forward
    <1>1. MovesForward(kept, p.kept)
        BY PanelSound, CarriesMoves DEF OrderInv, Ordered, Keeps
    <1> QED BY <1>1, BecomesForward DEF Keeps, Fits

LEMMA PanelOrder ==
    ASSUME IInv, OrderInv
    PROVE  Fits(Panel) /\ Ordered(Panel) /\ Keeps(Panel, Panel)
    BY KeepsSame DEF IInv, OrderInv

LEMMA SwitchForward ==
    ASSUME IInv, OrderInv, Switch
    PROVE  Forward
    <1>1. PICK s \in Sessions \cup {None} : Becomes(Watch(Panel, s, terminal))
        BY DEF Switch
    <1>2. Keeps(Panel, Watch(Panel, s, terminal))
        BY PanelOrder, WatchOrder
    <1> QED BY <1>1, <1>2, KeepsForward

LEMMA TerminalsForward ==
    ASSUME IInv, OrderInv, Terminals
    PROVE  Forward
    <1>1. PICK s \in Sessions, t \in {"none", "tab", "ready"} :
            \/ Becomes(Watch(Panel, s, [terminal EXCEPT ![s] = t]))
            \/ Becomes(Panel)
        BY DEF Terminals
    <1>2. Keeps(Panel, Watch(Panel, s, [terminal EXCEPT ![s] = t]))
        BY PanelOrder, WatchOrder
    <1> QED BY <1>1, <1>2, PanelOrder, KeepsForward

LEMMA CloseSessionForward ==
    ASSUME IInv, OrderInv, CloseSession
    PROVE  Forward
    <1>1. PICK s \in Sessions :
            LET new == [terminal EXCEPT ![s] = "none"]
                p == IF s = active THEN Watch(Panel, s, new) ELSE Panel
            IN  Becomes(Forget(p, s))
        BY DEF CloseSession
    <1> DEFINE new == [terminal EXCEPT ![s] = "none"]
               p == IF s = active THEN Watch(Panel, s, new) ELSE Panel
    <1>2. Keeps(Panel, p)
        BY PanelOrder, WatchOrder
    <1>3. Becomes(Forget(p, s))
        BY <1>1
    <1> HIDE DEF p
    <1>4. Keeps(p, Forget(p, s))
        BY <1>2, ForgetOrder DEF Keeps
    <1>5. Keeps(Panel, Forget(p, s))
        BY <1>2, <1>4, KeepsTrans
    <1> QED BY <1>3, <1>5, KeepsForward

LEMMA RefreshByUserForward ==
    ASSUME IInv, OrderInv, NEW dir \in Paths, RefreshByUser(dir)
    PROVE  Forward
    <1>1. /\ active \in Sessions
          /\ \/ Becomes(Refresh(Panel, active, dir)) \/ Becomes(Refuse(Panel, active))
        BY DEF RefreshByUser, IInv
    <1>2. Keeps(Panel, Refresh(Panel, active, dir)) /\ Keeps(Panel, Refuse(Panel, active))
        BY <1>1, PanelOrder, RefreshOrder, RefuseOrder
    <1> QED BY <1>1, <1>2, KeepsForward

LEMMA ListForward ==
    ASSUME IInv, OrderInv, SelectItem \/ OpenItem
    PROVE  Forward
    <1> DEFINE p == Persist(Panel)
    <1>1. Keeps(Panel, p)
        BY PanelOrder, PersistOrder
    <1>2. CASE SelectItem
        BY <1>1, <1>2, KeepsForward DEF SelectItem
    <1>3. CASE OpenItem
        <2>1. PICK dir \in Paths : Becomes(Refresh(p, active, dir)) \/ Becomes(Refuse(p, active))
            BY <1>3 DEF OpenItem
        <2>2. active \in Sessions
            BY <1>3 DEF OpenItem, ShowsList, HasTerminal, IInv
        <2> HIDE DEF p
        <2>3. Keeps(p, Refresh(p, active, dir)) /\ Keeps(p, Refuse(p, active))
            BY <1>1, <2>2, RefreshOrder, RefuseOrder DEF Keeps
        <2>4. Keeps(Panel, Refresh(p, active, dir)) /\ Keeps(Panel, Refuse(p, active))
            BY <1>1, <2>3, KeepsTrans
        <2> QED BY <2>1, <2>4, KeepsForward
    <1> QED BY <1>2, <1>3

\* A further page is asked for at the cursor of the list, which is stored then.
LEMMA LoadMoreForward ==
    ASSUME IInv, OrderInv, LoadMore
    PROVE  Forward
    <1> DEFINE v == version[active] + 1
               q == [Panel EXCEPT !.version[active] = @ + 1]
               l == Loading(q, active)
               r == Send(l, "more", active, shown.path, shown.next, v)
    <1>1. /\ shown.next /= 0 /\ shown.next \in Nat
          /\ active \in Sessions /\ shown.owner = active
        BY PanelSound DEF LoadMore, ShowsList, HasTerminal, IInv, Fits, States, Panel
    <1>2. Becomes(r)
        <2>1. [Panel EXCEPT !.version[active] = v] = q
            BY PanelSound
        <2> QED BY <2>1 DEF LoadMore
    <1>3. v \in Nat
        BY <1>1, PanelSound
    <1>4. /\ Fits(q) /\ Ordered(q) /\ Carries(Panel, q) /\ NoneAwaited(q, active)
          /\ q.shown = shown /\ q.version[active] = v
        <2>1. /\ Fits(q) /\ q.shown = Panel.shown
              /\ q.version[active] = Panel.version[active] + 1
            BY <1>1, PanelOrder, VersionParts
        <2>2. Ordered(q) /\ Carries(Panel, q) /\ NoneAwaited(q, active)
            BY <1>1, PanelOrder, VersionOrder
        <2> HIDE DEF q
        <2> QED BY <2>1, <2>2, PanelSound
    <1>5. Keeps(Panel, q)
        BY <1>4 DEF Keeps
    <1> HIDE DEF q, v
    <1>6. /\ Fits(l) /\ Stored(l) /\ l.version = q.version /\ l.reqs = q.reqs
          /\ l.shown.owner = active /\ l.shown.items = shown.items /\ l.shown.next = shown.next
          /\ Shared(l) /\ Carries(q, l)
        BY <1>1, <1>4, LoadingParts, LoadingLists DEF Ordered
    <1> HIDE DEF l
    <1>7. Keeps(q, l)
        BY <1>4, <1>6, KeepsByLists
    <1>8. \A st \in Of(l, active) : Continues(st.items, shown.next)
        <2>1. \A st \in Of(l, active) : st = l.shown
            BY <1>1, <1>6, OfParts DEF Stored
        <2>2. l.shown \in Of(l, active)
            BY <1>6, OfParts
        <2>3. Continues(l.shown.items, l.shown.next)
            BY <1>1, <1>7, <2>2 DEF Keeps, Ordered, ListsInOrder
        <2> QED BY <1>6, <2>1, <2>3
    <1>9. Fits(r) /\ r.shown = l.shown /\ r.kept = l.kept /\ r.version = l.version
        <2>1. "more" \in Kinds
            BY DEF Kinds
        <2> QED BY <1>1, <1>3, <1>6, <2>1, PanelSound, SendParts
    <1> DEFINE m == [kind |-> "more", by |-> active, path |-> shown.path, page |-> shown.next,
                     version |-> v]
    <1>10. r.reqs = Append(l.reqs, m)
        BY <1>6, RequestLists DEF Fits
    <1>11. m.kind = "more" /\ m.by = active /\ m.page = shown.next /\ m.version = v
        OBVIOUS
    <1> HIDE DEF r, m
    <1>12. NoneAwaited(l, active) /\ l.version[active] = v
        BY <1>4, <1>6 DEF NoneAwaited
    <1>13. Ordered(r) /\ Carries(l, r)
        BY <1>1, <1>6, <1>7, <1>8, <1>9, <1>10, <1>11, <1>12, AskOrder DEF Keeps
    <1>14. Keeps(l, r)
        BY <1>9, <1>13 DEF Keeps
    <1>15. Keeps(Panel, r)
        BY <1>5, <1>7, <1>14, KeepsTrans
    <1> QED BY <1>2, <1>15, KeepsForward

LEMMA OperateForward ==
    ASSUME IInv, OrderInv, NEW kind \in {"create", "delete"}, NEW dir \in Paths,
           Operate(kind, dir)
    PROVE  Forward
    <1> DEFINE q == Begin(Panel, kind, Operand, dir, 0)
    <1>1. Becomes(q) /\ Operand \in Sessions
        BY PanelSound DEF Operate, Operand, IInv
    <1>2. Keeps(Panel, q)
        <2>1. 0 \in Nat /\ kind \in {"refresh", "create", "delete"} /\ kind /= "refresh"
            OBVIOUS
        <2>2. Fits(q)
            BY <1>1, <2>1, PanelOrder, BeginParts
        <2>3. Ordered(q) /\ Carries(Panel, q)
            BY <1>1, <2>1, PanelOrder, BeginOrder
        <2> QED BY <2>2, <2>3 DEF Keeps
    <1> QED BY <1>1, <1>2, KeepsForward

LEMMA AnsweredOrder ==
    ASSUME IInv, OrderInv, NEW n \in 1..Len(reqs), NEW q \in {Answered(Panel, n), End(Panel, n)}
    PROVE  /\ Keeps(Panel, q) /\ q.shown = shown /\ q.kept = kept /\ Len(q.reqs) = Len(reqs)
           /\ Listing(reqs[n]) /\ Current(n) => NoneAwaited(q, reqs[n].by)
    <1>1. n \in 1..Len(Panel.reqs)
        BY PanelSound
    <1>2. /\ Fits(q) /\ q.shown = Panel.shown /\ q.kept = Panel.kept
          /\ q.version = Panel.version
        BY <1>1, PanelOrder, EndParts
    <1>3. /\ Ordered(q) /\ Carries(Panel, q)
          /\ Listing(Panel.reqs[n]) /\ Panel.reqs[n].version = Panel.version[Panel.reqs[n].by]
               => NoneAwaited(q, Panel.reqs[n].by)
        BY <1>1, PanelOrder, AnswerOrder
    <1>4. Len(q.reqs) = Len(reqs)
        <2>1. q.reqs = [reqs EXCEPT ![n] = Ended]
            BY PanelSound, RequestLists
        <2> QED BY <2>1, PanelSound
    <1> QED BY <1>2, <1>3, <1>4, PanelSound DEF Keeps, Current

\* What an answer that counts finds, and its page
LEMMA AwaitedParts ==
    ASSUME IInv, OrderInv, NEW n \in 1..Len(reqs), Listing(reqs[n]), Current(n)
    PROVE  LET e == Pages(n)[1]
               s == reqs[n].by
           IN  /\ Running(n, Kinds) /\ s \in Sessions /\ reqs[n].path \in Paths
               /\ Pages(n) = <<e>> /\ e \in Entries /\ e.page = reqs[n].page /\ e.n = n
               /\ e.page /= 0 /\ e.page \in Nat
               /\ reqs[n].kind = "refresh" => e.page = 1
               /\ n \in Nat /\ n <= Len(reqs)
               /\ \A m \in Numbers(kept[s].items) : m \in Nat /\ m < n
               /\ reqs[n].kind = "more" => Continues(kept[s].items, e.page)
    <1> DEFINE e == [by |-> reqs[n].by, dir |-> reqs[n].path, page |-> reqs[n].page, n |-> n]
    <1>1. Running(n, Kinds)
        BY DEF Listing, Running, Kinds
    <1>2. n \in Nat /\ reqs[n].by \in Sessions /\ reqs[n].path \in Paths /\ reqs[n].page \in Nat
        BY <1>1, RequestParts
    <1>3. Pages(n) = <<e>> /\ Pages(n)[1] = e
        BY DEF Pages
    <1>4. e \in Entries /\ e.page = reqs[n].page /\ e.n = n
        BY <1>2 DEF Entries
    <1> HIDE DEF e
    <1>5. reqs[n].page /= 0 /\ (reqs[n].kind = "refresh" => reqs[n].page = 1)
        BY PanelSound DEF OrderInv, Ordered, VersionsInOrder
    <1>6. kept[reqs[n].by] \in Of(Panel, reqs[n].by)
        BY PanelSound, OfParts
    <1>7. \A m \in Numbers(kept[reqs[n].by].items) : m \in Nat
        BY <1>2, PanelSound, NumbersAreNumbers
    <1>8. /\ \A m \in Numbers(kept[reqs[n].by].items) : m < n
          /\ reqs[n].kind = "more" => Continues(kept[reqs[n].by].items, reqs[n].page)
        BY <1>6, PanelSound DEF OrderInv, Ordered, AwaitedFits, Current
    <1> QED BY <1>1, <1>2, <1>3, <1>4, <1>5, <1>7, <1>8

LEMMA ListedForward ==
    ASSUME IInv, OrderInv, NEW n \in 1..Len(reqs), Listed(n)
    PROVE  Forward
    <1> DEFINE s == reqs[n].by
               p == End(Panel, n)
               e == Pages(n)[1]
    <1>1. PICK next \in Cursors(1) :
            Becomes(IF Current(n)
                    THEN Settle(ApplyPage(p, s, reqs[n].path, Pages(n), next), s) ELSE p)
        BY DEF Listed
    <1>2. Listing(reqs[n]) /\ reqs[n].kind = "refresh"
        BY DEF Listed, Running, Listing
    <1>3. next \in Nat /\ (next = 0 \/ next = 2)
        BY DEF Cursors
    <1>4. /\ Keeps(Panel, p) /\ p.shown = shown /\ p.kept = kept /\ Len(p.reqs) = Len(reqs)
          /\ Current(n) => NoneAwaited(p, s)
        BY <1>2, AnsweredOrder
    <1>5. CASE ~Current(n)
        BY <1>1, <1>4, <1>5, KeepsForward
    <1>6. CASE Current(n)
        <2>1. /\ Running(n, Kinds) /\ s \in Sessions /\ reqs[n].path \in Paths
              /\ Pages(n) = <<e>> /\ e \in Entries /\ e.n = n /\ e.page = 1
              /\ n \in Nat /\ n <= Len(reqs)
              /\ \A m \in Numbers(kept[s].items) : m \in Nat /\ m < n
            BY <1>2, <1>6, AwaitedParts
        <2>2. Pages(n) \in Seq(Entries) /\ ListedOn(Pages(n), s)
            BY <2>1, PagesParts
        <2>3. active \in Sessions \cup {None} /\ shown.owner \in {active, None}
            BY DEF IInv
        <2>4. Becomes(Settle(ApplyPage(p, s, reqs[n].path, Pages(n), next), s))
            BY <1>1, <1>6
        <2> HIDE DEF p, s, e
        <2>5. Numbers(Pages(n)) = {n} /\ Continues(Pages(n), 0) /\ Continues(Pages(n), 2)
            BY <2>1, FirstPage
        <2>6. \A m \in Numbers(p.kept[s].items) : \E k \in Numbers(Pages(n)) : m <= k
            <3>1. \A m \in Numbers(p.kept[s].items) : m \in Nat /\ m < n
                BY <1>4, <2>1
            <3>2. n \in Numbers(Pages(n)) /\ n \in Nat
                BY <2>1, <2>5
            <3>3. \A m \in Numbers(p.kept[s].items) : m <= n
                BY <3>1, <3>2
            <3> QED BY <3>2, <3>3
        <2>7. Continues(Pages(n), next) /\ \A m \in Numbers(Pages(n)) : m <= Len(p.reqs)
            BY <1>3, <1>4, <2>1, <2>5
        <2> DEFINE q == Settle(ApplyPage(p, s, reqs[n].path, Pages(n), next), s)
        <2>8. q \in Panels /\ Ordered(q) /\ MovesForward(p.kept, q.kept)
            BY <1>3, <1>4, <1>6, <2>1, <2>2, <2>3, <2>6, <2>7, SettleOrder DEF Keeps
        <2> HIDE DEF q
        <2> QED BY <1>4, <2>4, <2>8, BecomesForward DEF q
    <1> QED BY <1>5, <1>6

LEMMA MoreListedForward ==
    ASSUME IInv, OrderInv, NEW n \in 1..Len(reqs), MoreListed(n)
    PROVE  Forward
    <1> DEFINE s == reqs[n].by
               p == Answered(Panel, n)
               e == Pages(n)[1]
               items == Kept(p, s).items \o Pages(n)
    <1>1. PICK next \in Cursors(reqs[n].page) :
            Becomes(IF Current(n)
                    THEN Settle(ApplyPage(p, s, shown.path, items, next), s) ELSE p)
        BY DEF MoreListed, Answered
    <1>2. Listing(reqs[n]) /\ reqs[n].kind = "more"
        BY DEF MoreListed, Running, Listing
    <1>3. /\ Keeps(Panel, p) /\ p.shown = shown /\ p.kept = kept /\ Len(p.reqs) = Len(reqs)
          /\ Current(n) => NoneAwaited(p, s)
        BY <1>2, AnsweredOrder
    <1>4. CASE ~Current(n)
        BY <1>1, <1>3, <1>4, KeepsForward
    <1>5. CASE Current(n)
        <2>1. /\ Running(n, Kinds) /\ s \in Sessions
              /\ Pages(n) = <<e>> /\ e \in Entries /\ e.n = n
              /\ e.page = reqs[n].page /\ e.page /= 0 /\ e.page \in Nat
              /\ n \in Nat /\ n <= Len(reqs)
              /\ \A m \in Numbers(kept[s].items) : m \in Nat /\ m < n
              /\ Continues(kept[s].items, e.page)
            BY <1>2, <1>5, AwaitedParts
        <2>2. Pages(n) \in Seq(Entries) /\ ListedOn(Pages(n), s)
            BY <2>1, PagesParts
        <2>3. /\ active \in Sessions \cup {None} /\ shown.owner \in {active, None}
              /\ shown.path \in Paths
            BY PanelSound DEF IInv
        <2>4. next \in Nat /\ (next = 0 \/ next = e.page + 1)
            BY <2>1 DEF Cursors
        <2>5. Becomes(Settle(ApplyPage(p, s, shown.path, items, next), s))
            BY <1>1, <1>5
        <2> HIDE DEF p, s, e
        <2>6. /\ Kept(p, s).items \in Seq(Entries) /\ ListedOn(Kept(p, s).items, s)
            BY <1>3, <2>1, KeptParts DEF Keeps, States
        <2>7. /\ Numbers(Kept(p, s).items) = Numbers(kept[s].items)
              /\ Continues(Kept(p, s).items, e.page)
            BY <1>3, <2>1, KeptLists, EmptyContinues DEF Keeps, Ordered
        <2>8. /\ Numbers(items) = Numbers(kept[s].items) \cup {n}
              /\ Continues(items, 0) /\ Continues(items, e.page + 1)
            BY <2>1, <2>6, <2>7, AppendPage
        <2>9. items \in Seq(Entries) /\ ListedOn(items, s)
            BY <2>2, <2>6 DEF ListedOn
        <2> HIDE DEF items
        <2>10. \A m \in Numbers(p.kept[s].items) : \E k \in Numbers(items) : m <= k
            BY <1>3, <2>1, <2>8
        <2>11. \A m \in Numbers(items) : m <= Len(p.reqs)
            <3>1. Len(reqs) \in Nat
                BY PanelSound
            <3> QED BY <1>3, <2>1, <2>8, <3>1
        <2>12. Continues(items, next)
            BY <2>4, <2>8
        <2> DEFINE q == Settle(ApplyPage(p, s, shown.path, items, next), s)
        <2>13. q \in Panels /\ Ordered(q) /\ MovesForward(p.kept, q.kept)
            BY <1>3, <1>5, <2>1, <2>3, <2>4, <2>9, <2>10, <2>11, <2>12, SettleOrder DEF Keeps
        <2> HIDE DEF q
        <2> QED BY <1>3, <2>5, <2>13, BecomesForward DEF q
    <1> QED BY <1>4, <1>5

LEMMA ListFailedForward ==
    ASSUME IInv, OrderInv, NEW n \in 1..Len(reqs), ListFailed(n)
    PROVE  Forward
    <1> DEFINE s == reqs[n].by
               p == End(Panel, n)
               q == ApplyError(p, s)
    <1>1. Becomes(IF Current(n) THEN Loaded(q) ELSE p)
        BY DEF ListFailed
    <1>2. s \in Sessions
        BY RequestParts DEF ListFailed, Running, Kinds
    <1>3. Keeps(Panel, p)
        BY AnsweredOrder
    <1> HIDE DEF p, s
    <1>4. Keeps(p, q)
        BY <1>2, <1>3, ApplyErrorOrder DEF Keeps
    <1> HIDE DEF q
    <1>5. Keeps(q, Loaded(q))
        BY <1>4, LoadedOrder DEF Keeps
    <1>6. Keeps(Panel, Loaded(q))
        BY <1>3, <1>4, <1>5, KeepsTrans
    <1> QED BY <1>1, <1>3, <1>6, KeepsForward

\* The list that is shown gets other entries and keeps its pages.
LEMMA ItemsOrder ==
    ASSUME NEW p, NEW s, Sound(p, s), Ordered(p), NEW items \in Seq(Entries),
           ListedOn(items, p.shown.owner), Alike(items, p.shown.items)
    PROVE  Keeps(p, [p EXCEPT !.shown.items = items])
    <1> DEFINE q == [p EXCEPT !.shown.items = items]
    <1>1. Fits(q)
        BY ItemsSound DEF Sound
    <1>2. p \in Panels /\ p.shown \in States
        BY PanelParts DEF Sound, Fits
    <1>3. /\ q.kept = p.kept /\ q.reqs = p.reqs /\ q.version = p.version
          /\ q.shown = [p.shown EXCEPT !.items = items]
        BY <1>2 DEF Panels
    <1>4. q.shown.owner = p.shown.owner /\ q.shown.items = items /\ q.shown.next = p.shown.next
        BY <1>2, <1>3 DEF States
    <1> HIDE DEF q
    <1>5. Like(q.shown, p.shown)
        BY <1>4 DEF Like
    <1>6. Shared(q)
        BY <1>3, <1>4 DEF Ordered, Shared, Alike
    <1>7. ASSUME NEW t \in Sessions, NEW st \in Of(q, t)
          PROVE  \E tt \in Of(p, t) : Like(st, tt)
        <2>1. CASE st = p.kept[t]
            BY <2>1, OfParts, SameLike
        <2>2. CASE p.shown.owner = t /\ st = q.shown
            BY <1>5, <2>2, OfParts
        <2>3. st = q.kept[t] \/ (q.shown.owner = t /\ st = q.shown)
            BY OfParts
        <2> QED BY <1>3, <1>4, <2>1, <2>2, <2>3
    <1>8. Carries(p, q)
        BY <1>7 DEF Carries
    <1>9. Fits(p)
        BY DEF Sound
    <1> QED BY <1>1, <1>3, <1>6, <1>8, <1>9, KeepsByLists DEF q

LEMMA KeptItemsOrder ==
    ASSUME NEW p, NEW s, Sound(p, s), Ordered(p), p.shown.owner \in Sessions,
           NEW items \in Seq(Entries), ListedOn(items, p.shown.owner),
           Alike(items, p.kept[p.shown.owner].items)
    PROVE  Keeps(p, [p EXCEPT !.kept[p.shown.owner].items = items])
    <1> DEFINE o == p.shown.owner
               q == [p EXCEPT !.kept[o].items = items]
    <1>1. Fits(q)
        BY KeptItemsSound DEF Sound
    <1>2. p \in Panels /\ p.kept \in [Sessions -> States] /\ o \in Sessions /\ p.kept[o] \in States
        BY PanelParts DEF Sound, Fits
    <1>3. /\ q.shown = p.shown /\ q.reqs = p.reqs /\ q.version = p.version
          /\ q.kept = [p.kept EXCEPT ![o] = [p.kept[o] EXCEPT !.items = items]]
        BY <1>2 DEF Panels
    <1>4. /\ q.kept[o].owner = p.kept[o].owner /\ q.kept[o].items = items
          /\ q.kept[o].next = p.kept[o].next
          /\ \A t \in Sessions \ {o} : q.kept[t] = p.kept[t]
        BY <1>2, <1>3 DEF States
    <1>5. Alike(items, p.kept[o].items)
        OBVIOUS
    <1> HIDE DEF q
    <1>6. Like(q.kept[o], p.kept[o])
        BY <1>4, <1>5 DEF Like
    <1>7. Shared(q)
        <2>1. \A t \in Sessions : Numbers(q.kept[t].items) = Numbers(p.kept[t].items)
                                  /\ q.kept[t].owner = p.kept[t].owner
            BY <1>4, <1>5 DEF Alike
        <2> HIDE DEF o
        <2> QED BY <1>3, <2>1 DEF Ordered, Shared
    <1>8. ASSUME NEW t \in Sessions, NEW st \in Of(q, t)
          PROVE  \E tt \in Of(p, t) : Like(st, tt)
        <2>1. CASE st = q.kept[t] /\ t = o
            BY <1>6, <2>1, OfParts
        <2>2. CASE st = q.kept[t] /\ t /= o
            BY <1>4, <2>2, OfParts, SameLike
        <2>3. CASE p.shown.owner = t /\ st = p.shown
            BY <2>3, OfParts, SameLike
        <2>4. st = q.kept[t] \/ (q.shown.owner = t /\ st = q.shown)
            BY OfParts
        <2> QED BY <1>3, <2>1, <2>2, <2>3, <2>4
    <1>9. Carries(p, q)
        BY <1>8 DEF Carries
    <1>10. Fits(p)
        BY DEF Sound
    <1> QED BY <1>1, <1>3, <1>7, <1>9, <1>10, KeepsByLists DEF q

LEMMA CreatedForward ==
    ASSUME IInv, OrderInv, NEW n \in 1..Len(reqs), Created(n)
    PROVE  Forward
    <1> DEFINE p == End(Panel, n)
               new == [by |-> reqs[n].by, dir |-> reqs[n].path, page |-> 0, n |-> n]
               items == <<new>> \o shown.items
               r == [p EXCEPT !.shown.items = items]
               k == [r EXCEPT !.kept[shown.owner].items = items]
               q == IF shown.path /= reqs[n].path THEN p
                    ELSE IF shown.owner /= None /\ kept[shown.owner].items = shown.items
                    THEN k ELSE r
    <1>1. Running(n, Kinds) /\ ~Running(n, {"refresh", "more"})
        BY DEF Created, Running, Kinds
    <1>2. Sound(p, active) /\ p.shown = shown /\ p.kept = kept
        BY <1>1, AnsweredFlags
    <1>3. Keeps(Panel, p)
        BY AnsweredOrder
    <1>4. items \in Seq(Entries) /\ ListedOn(items, shown.owner) /\ Alike(items, shown.items)
        <2>1. new \in Entries /\ new.page = 0 /\ shown.items \in Seq(Entries)
            BY <1>1, RequestParts, PanelSound DEF Entries
        <2>2. ListedOn(shown.items, shown.owner)
            BY <1>2 DEF Sound, Fits
        <2> HIDE DEF new
        <2>3. Alike(items, shown.items)
            BY <2>1, PrependAlike
        <2> QED BY <2>1, <2>2, <2>3 DEF ListedOn
    <1>5. \E toolbar \in BOOLEAN :
               Becomes(IF ~toolbar \/ active = None THEN q
                       ELSE IF Ready(active) THEN Refresh(q, active, q.shown.path)
                       ELSE Refuse(q, active))
        <2>1. [p EXCEPT !.shown.items = <<new>> \o @] = r
            BY <1>2 DEF Sound, Fits, Panels
        <2>2. r.shown.items = items
            BY <1>2, <1>4, ItemsSound
        <2> QED BY <2>1, <2>2 DEF Created
    <1> HIDE DEF p, items
    <1>6. Keeps(p, r) /\ Sound(r, active) /\ r.shown.owner = shown.owner /\ r.kept = kept
        <2>1. Sound(r, active) /\ r.shown.owner = shown.owner /\ r.kept = kept
            BY <1>2, <1>4, ItemsSound
        <2>2. Keeps(p, r)
            BY <1>2, <1>3, <1>4, ItemsOrder DEF Keeps
        <2> QED BY <2>1, <2>2
    <1> HIDE DEF r
    <1>7. ASSUME shown.owner /= None, kept[shown.owner].items = shown.items
          PROVE  Keeps(r, k)
        <2>1. shown.owner \in Sessions
            BY <1>7, PanelSound
        <2> QED BY <1>4, <1>6, <1>7, <2>1, KeptItemsOrder DEF Keeps
    <1> HIDE DEF k
    <1>8. Keeps(Panel, q)
        <2>1. Keeps(Panel, r)
            BY <1>3, <1>6, KeepsTrans
        <2>2. ASSUME shown.owner /= None, kept[shown.owner].items = shown.items
              PROVE  Keeps(Panel, k)
            BY <1>7, <2>1, <2>2, KeepsTrans
        <2> QED BY <1>3, <2>1, <2>2
    <1> HIDE DEF q
    <1>9. active \in Sessions \cup {None} /\ q.shown.path \in Paths
        BY <1>8, PanelParts DEF IInv, Keeps, Fits, States
    <1>10. ASSUME active /= None
           PROVE  /\ Keeps(Panel, Refresh(q, active, q.shown.path))
                  /\ Keeps(Panel, Refuse(q, active))
        <2>1. /\ Keeps(q, Refresh(q, active, q.shown.path))
              /\ Keeps(q, Refuse(q, active))
            BY <1>8, <1>9, <1>10, RefreshOrder, RefuseOrder DEF Keeps
        <2> QED BY <1>8, <2>1, KeepsTrans
    <1> QED BY <1>5, <1>8, <1>10, KeepsForward

LEMMA DeletedForward ==
    ASSUME IInv, OrderInv, NEW n \in 1..Len(reqs), Deleted(n)
    PROVE  Forward
    <1> DEFINE p == End(Panel, n)
               others == {i \in 1..Len(shown.items) :
                            ~(shown.items[i].page = 0 /\ shown.items[i].dir = reqs[n].path)}
    <1>1. Running(n, Kinds) /\ ~Running(n, {"refresh", "more"})
        BY DEF Deleted, Running, Kinds
    <1>2. Sound(p, active) /\ p.shown = shown /\ Keeps(Panel, p)
        BY <1>1, AnsweredFlags, AnsweredOrder
    <1>3. PICK left \in Filter(shown.items, others) :
            LET q == [p EXCEPT !.shown.items = left] IN Becomes(Persist(q)) \/ Becomes(q)
        BY DEF Deleted
    <1> DEFINE q == [p EXCEPT !.shown.items = left]
    <1>4. /\ others \subseteq 1..Len(shown.items) /\ ListedOn(shown.items, shown.owner)
          /\ \A i \in 1..Len(shown.items) : shown.items[i].page /= 0 => i \in others
        BY <1>2 DEF Sound, Fits
    <1> HIDE DEF p, others
    <1>5. left \in Seq(Entries) /\ ListedOn(left, shown.owner) /\ Alike(left, shown.items)
        <2>1. left \in Seq(Entries) /\ ListedOn(left, shown.owner)
            BY <1>3, <1>4, PanelSound, FilterParts
        <2>2. Alike(left, shown.items)
            BY <1>3, <1>4, PanelSound, FilterAlike
        <2> QED BY <2>1, <2>2
    <1>6. Keeps(p, q)
        BY <1>2, <1>5, ItemsOrder DEF Keeps
    <1>7. Becomes(Persist(q)) \/ Becomes(q)
        BY <1>3
    <1> HIDE DEF q
    <1>8. Keeps(Panel, q)
        BY <1>2, <1>6, KeepsTrans
    <1>9. Keeps(Panel, Persist(q))
        <2>1. Keeps(q, Persist(q))
            BY <1>8, PersistOrder DEF Keeps
        <2> QED BY <1>8, <2>1, KeepsTrans
    <1> QED BY <1>7, <1>8, <1>9, KeepsForward

LEMMA OperationFailedForward ==
    ASSUME IInv, OrderInv, NEW n \in 1..Len(reqs), OperationFailed(n)
    PROVE  Forward
    <1>1. Becomes(End(Panel, n))
        BY DEF OperationFailed
    <1>2. Keeps(Panel, End(Panel, n))
        BY AnsweredOrder
    <1> QED BY <1>1, <1>2, KeepsForward

LEMMA InitOrder ==
    ASSUME Init
    PROVE  OrderInv
    <1>1. /\ Panel.shown = Blank(None) /\ Panel.kept = [s \in Sessions |-> Blank(None)]
          /\ Panel.reqs = <<>>
        BY DEF Init, Panel
    <1>2. \A s \in Sessions : Panel.kept[s] = Blank(None)
        BY <1>1
    <1>3. Shared(Panel)
        BY <1>1, <1>2, NoPages DEF Shared
    <1>4. ListsInOrder(Panel)
        <2>1. ASSUME NEW s \in Sessions, NEW st \in Of(Panel, s)
              PROVE  Numbers(st.items) = {}
            <3>1. st = Blank(None)
                BY <1>1, <1>2, OfParts
            <3> QED BY <3>1, NoPages
        <2> QED BY <2>1, EmptyContinues DEF ListsInOrder
    <1>5. VersionsInOrder(Panel) /\ AwaitedFits(Panel)
        BY <1>1 DEF VersionsInOrder, AwaitedFits
    <1> QED BY <1>3, <1>4, <1>5 DEF OrderInv, Ordered

LEMMA StepForward ==
    ASSUME IInv, OrderInv, [Next]_vars
    PROVE  OrderInv' /\ (MovesForward(kept, kept') \/ UNCHANGED vars)
    <1>1. CASE UNCHANGED vars
        <2>1. Panel' = Panel
            BY <1>1 DEF vars, Panel
        <2> QED BY <1>1, <2>1 DEF OrderInv
    <1>2. CASE Switch
        BY <1>2, SwitchForward DEF Forward
    <1>3. CASE Terminals
        BY <1>3, TerminalsForward DEF Forward
    <1>4. CASE CloseSession
        BY <1>4, CloseSessionForward DEF Forward
    <1>5. CASE RefreshAgain \/ OpenBreadcrumb
        BY <1>5, RefreshByUserForward, PanelSound DEF RefreshAgain, OpenBreadcrumb, Forward
    <1>6. CASE SelectItem \/ OpenItem
        BY <1>6, ListForward DEF Forward
    <1>7. CASE LoadMore
        BY <1>7, LoadMoreForward DEF Forward
    <1>8. CASE FromMenus \/ FromToolbar
        BY <1>8, OperateForward, PanelSound DEF FromMenus, FromToolbar, Forward
    <1>9. ASSUME NEW n \in 1..Len(reqs), Answer(n)
          PROVE  Forward
        BY <1>9, ListedForward, MoreListedForward, ListFailedForward, CreatedForward,
           DeletedForward, OperationFailedForward DEF Answer
    <1> QED BY <1>1, <1>2, <1>3, <1>4, <1>5, <1>6, <1>7, <1>8, <1>9 DEF Next, Forward

LEMMA OrderIsKept == Spec => [](IInv /\ OrderInv)
    BY InitInv, InitOrder, StepInv, StepForward, PTL DEF Spec

\* The pages kept for a session follow each other without a gap and none twice,
\* for any number of sessions, directories, requests and pages: an answer that
\* counts is the only one that is awaited, and it continues the list (loadMore).
THEOREM PagesStayInOrder == Spec => []PagesInOrder
    <1>1. ASSUME IInv, OrderInv
          PROVE  PagesInOrder
        BY <1>1, PanelSound, OfParts DEF OrderInv, Ordered, ListsInOrder, Continues, PagesInOrder
    <1> QED BY <1>1, OrderIsKept, PTL

\* No listing of a session is replaced by one that was asked for earlier, in
\* whatever order the answers arrive and whatever is shown meanwhile (refresh).
THEOREM ListingsStayForward == Spec => ListingsMoveForward
    <1>1. ASSUME IInv, OrderInv, [Next]_vars
          PROVE  [MovesForward(kept, kept')]_vars
        BY <1>1, StepForward
    <1> QED BY <1>1, OrderIsKept, PTL DEF Spec, ListingsMoveForward
===========================================================================
