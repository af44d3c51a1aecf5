--------------------------- MODULE PgThreadProofs ---------------------------
(***************************************************************************)
(* Proofs about PgThread: type correctness, the ownership of memory        *)
(* contexts, and that the call path frees its results and keeps the        *)
(* promise of NativeCall, for any number of threads, contexts, inputs and  *)
(* keys, and whether or not malloc may fail.                               *)
(***************************************************************************)
EXTENDS PgThread, FiniteSetTheorems, TLAPS

(* A step of one thread, as Next offers it. *)
ThreadStep(t) ==
  \/ \E k \in Kinds, i \in Inputs : Begin(t, k, i, "on")
  \/ Refuse(t) \/ LibraryStep(t) \/ ThreadExit(t) \/ ThreadStart(t)

-----------------------------------------------------------------------------
(* What the proofs use of the assumptions on the constants. *)
LEMMA Bounds ==
  KeyLimit \in Nat /\ StackSize \in Nat \ {0} /\ MaxFree \in Nat \ {0}
BY ThreadAssumption

LEMMA NullIsNoContext == NoContext \notin Contexts
BY ThreadAssumption

(* malloc returns what is free: the choice constant yields fresh contexts. *)
LEMMA FreshIsFree == \A S \in SUBSET Contexts : Fresh(S) \subseteq S
BY ThreadAssumption

LEMMA FreshTlsType == FreshTls \in TlsType
BY Bounds DEF FreshTls, TlsType, Settings

LEMMA IdleCallType ==
  IdleCall \in CallType /\ [IdleCall EXCEPT !.pc = "gone"] \in CallType
BY DEF IdleCall, CallType, Labels, Pieces, Settings

-----------------------------------------------------------------------------
(* The inductive invariant.                                                *)

(* What holds of the thread-local state at each label: which pointers are  *)
(* set, that the call's context exists from EnterContext to LeaveContext   *)
(* and the freelist is empty meanwhile, and that handler, error stack and  *)
(* settings are back to their initial values outside the labels that       *)
(* change them.  Past pg_query_init the exit hook is stored, unless there  *)
(* was no key or no memory for it.                                         *)
Within == {"try", "body", "catch", "after", "leave"}

LocalInv(t) ==
  LET L == tls[t]
      pc == call[t].pc
  IN  /\ ~L.init => L = FreshTls /\ pc \in {"idle", "init", "gone"}
      /\ L.init => /\ L.top # NoContext /\ L.err # NoContext /\ L.top # L.err
                   /\ pc \notin {"init", "gone"}
      /\ pc \notin {"idle", "gone"} => call[t].kind \in Kinds
      /\ call[t].ctx # NoContext <=> pc \in Within
      /\ pc \in Within => L.free = {}
      /\ \A c, d \in L.free : c = d
      /\ L.hook \in {NoContext, L.top}
      /\ L.init /\ pc \notin {"key", "hook"} =>
           L.hook = L.top \/ KeyLimit = 0 \/ MayRunOut
      /\ pc = "hook" => exitKey # 0 \/ KeyLimit = 0 \/ MayRunOut
      /\ pc # "catch" => L.depth = 0
      /\ L.exc => pc = "body"
      /\ L.scs = "on" /\ call[t].option = "on"
      /\ pc \notin Within => L.current = L.top

LocalsInv ==
  /\ TypeOK
  /\ keysMade # 0 => exitKey # 0
  /\ vm # "aborted"
  /\ \A t \in Threads : LocalInv(t)

(* The other threads' state is theirs. *)
LEMMA OthersUntouched ==
  ASSUME TypeOK, NEW t \in Threads, ThreadStep(t)
  PROVE  \A u \in Threads \ {t} : tls'[u] = tls[u] /\ call'[u] = call[u]
<1>. USE DEF TypeOK, Goto, Die
<1>1. ASSUME NEW k \in Kinds, NEW i \in Inputs, Begin(t, k, i, "on")
      PROVE  \A u \in Threads \ {t} : tls'[u] = tls[u] /\ call'[u] = call[u]
  BY <1>1 DEF Begin
<1>2. CASE Refuse(t)
  BY <1>2 DEF Refuse
<1>3. CASE InitMemory(t)
  BY <1>3 DEF InitMemory
<1>4. CASE CreateKey(t)
  BY <1>4 DEF CreateKey
<1>5. CASE SetHook(t)
  BY <1>5 DEF SetHook
<1>6. CASE EnterContext(t)
  BY <1>6 DEF EnterContext
<1>7. CASE BeginTry(t)
  BY <1>7 DEF BeginTry
<1>8. CASE BodySucceeds(t)
  BY <1>8 DEF BodySucceeds
<1>9. CASE BodyRaises(t)
  BY <1>9 DEF BodyRaises
<1>10. CASE BodyJumpsAstray(t)
  BY <1>10 DEF BodyJumpsAstray
<1>11. CASE Catch(t)
  BY <1>11 DEF Catch
<1>12. CASE After(t)
  BY <1>12 DEF After
<1>13. CASE LeaveContext(t)
  BY <1>13 DEF LeaveContext
<1>14. CASE Reply(t)
  BY <1>14 DEF Reply
<1>15. CASE ThreadExit(t)
  BY <1>15 DEF ThreadExit
<1>16. CASE ThreadStart(t)
  BY <1>16 DEF ThreadStart
<1>. QED
  BY <1>1, <1>2, <1>3, <1>4, <1>5, <1>6, <1>7, <1>8, <1>9, <1>10, <1>11, <1>12, <1>13, <1>14, <1>15, <1>16 DEF ThreadStep, LibraryStep

(* One step of a thread keeps its state well typed and its LocalInv. *)
LEMMA LocalStep ==
  ASSUME LocalsInv, NEW t \in Threads, ThreadStep(t)
  PROVE  /\ tls' \in [Threads -> TlsType]
         /\ call' \in [Threads -> CallType]
         /\ LocalInv(t)'
<1>. DEFINE Goal == /\ tls' \in [Threads -> TlsType]
                   /\ call' \in [Threads -> CallType]
                   /\ LocalInv(t)'
<1>0. /\ tls \in [Threads -> TlsType] /\ tls[t] \in TlsType
      /\ call \in [Threads -> CallType] /\ call[t] \in CallType
      /\ heap \subseteq Contexts /\ exitKey \in 0 .. KeyLimit
      /\ LocalInv(t)
  BY DEF LocalsInv, TypeOK
<1>. USE DEF At, Goto, Die
<1>1. ASSUME NEW k \in Kinds, NEW i \in Inputs, Begin(t, k, i, "on")
      PROVE  Goal
  <2>. DEFINE r == [IdleCall EXCEPT !.pc = IF tls[t].init THEN "enter" ELSE "init",
                        !.kind = k, !.input = i, !.option = "on",
                        !.pieces = IF k = "deparse" THEN {} ELSE {"cstr"}]
  <2>1. r \in CallType
    BY DEF IdleCall, CallType, Labels, Pieces, Settings
  <2>2. call' = [call EXCEPT ![t] = r] /\ UNCHANGED <<tls, exitKey, heap>>
    BY <1>1 DEF Begin
  <2>3. call' \in [Threads -> CallType] /\ call'[t] = r
    BY <1>0, <2>1, <2>2
  <2>4. LocalInv(t)'
    BY <1>0, <1>1 DEF Begin, LocalInv, Within, IdleCall, TlsType, CallType
  <2>. QED
    BY <1>0, <2>2, <2>3, <2>4
<1>2. CASE Refuse(t)
  <2>1. tls' \in [Threads -> TlsType]
    BY <1>0, <1>2 DEF Refuse, TlsType, IdleCall, Settings
  <2>2. call' \in [Threads -> CallType]
    BY <1>0, <1>2 DEF Refuse, CallType, Labels, IdleCall, Settings
  <2>3. LocalInv(t)'
    BY <1>0, <1>2 DEF Refuse, LocalInv, TlsType, CallType, Within, FreshTls, IdleCall, Settings
  <2>. QED
    BY <2>1, <2>2, <2>3
<1>3. CASE InitMemory(t)
  <2>1. CASE vm' # "up"
    BY <1>0, <1>3, <2>1 DEF InitMemory, LocalInv
  <2>2. CASE vm' = "up"
    <3>1. PICK c \in Fresh(Contexts \ heap) :
            \E d \in Fresh(Contexts \ (heap \cup {c})) :
               tls' = [tls EXCEPT ![t] =
                  [@ EXCEPT !.init = TRUE, !.top = c, !.err = d, !.current = c]]
      BY <1>3, <2>2 DEF InitMemory
    <3>2. PICK d \in Fresh(Contexts \ (heap \cup {c})) :
            tls' = [tls EXCEPT ![t] =
               [@ EXCEPT !.init = TRUE, !.top = c, !.err = d, !.current = c]]
      BY <3>1
    <3>3. c \in Contexts /\ d \in Contexts /\ c # d
      BY FreshIsFree
    <3>4. call' = [call EXCEPT ![t].pc = "key"] /\ call[t].pc = "init" /\ exitKey' = exitKey
      BY <1>3, <2>2 DEF InitMemory
    <3>5. tls' \in [Threads -> TlsType] /\ call' \in [Threads -> CallType]
      BY <1>0, <3>2, <3>3, <3>4 DEF TlsType, CallType, Labels
    <3>6. LocalInv(t)'
      BY <1>0, <3>2, <3>3, <3>4, NullIsNoContext
         DEF LocalInv, TlsType, CallType, Within, FreshTls
    <3>. QED
      BY <3>5, <3>6
  <2>. QED
    BY <2>1, <2>2
<1>4. CASE CreateKey(t)
  <2>1. tls' \in [Threads -> TlsType]
    BY <1>0, <1>4 DEF CreateKey, TlsType
  <2>2. call' \in [Threads -> CallType]
    BY <1>0, <1>4 DEF CreateKey, CallType, Labels
  <2>3. LocalInv(t)'
    <3>1. exitKey' # 0 \/ KeyLimit = 0 \/ MayRunOut
      BY <1>4, Bounds DEF CreateKey, LocalsInv, TypeOK
    <3>. QED
      BY <1>0, <1>4, <3>1 DEF CreateKey, LocalInv, TlsType, CallType, Within
  <2>. QED
    BY <2>1, <2>2, <2>3
<1>5. CASE SetHook(t)
  <2>1. tls' \in [Threads -> TlsType]
    BY <1>0, <1>5 DEF SetHook, TlsType
  <2>2. call' \in [Threads -> CallType]
    BY <1>0, <1>5 DEF SetHook, CallType, Labels
  <2>3. LocalInv(t)'
    <3>1. PICK h \in {tls[t].hook, tls[t].top} :
            tls' = [tls EXCEPT ![t].hook = h]
      <4>1. tls = [tls EXCEPT ![t].hook = tls[t].hook]
        BY <1>0 DEF TlsType
      <4>. QED
        BY <1>5, <4>1 DEF SetHook
    <3>2. \/ tls'[t].hook = tls[t].top
          \/ KeyLimit = 0 \/ MayRunOut
      BY <1>0, <1>5 DEF SetHook, LocalInv, TlsType
    <3>3. /\ call[t].pc = "hook" /\ call' = [call EXCEPT ![t].pc = "enter"]
          /\ exitKey' = exitKey
      BY <1>5 DEF SetHook
    <3>4. h \in {NoContext, tls[t].top}
      BY <1>0, <3>1 DEF LocalInv
    <3>. QED
      BY <1>0, <3>1, <3>2, <3>3, <3>4
         DEF LocalInv, TlsType, CallType, Within, FreshTls
  <2>. QED
    BY <2>1, <2>2, <2>3
<1>6. CASE EnterContext(t)
  <2>1. CASE vm' # "up"
    BY <1>0, <1>6, <2>1 DEF EnterContext, LocalInv
  <2>2. CASE vm' = "up"
    <3>1. PICK c \in IF tls[t].free # {} THEN tls[t].free
                     ELSE Fresh(Contexts \ heap) :
            /\ tls' = [tls EXCEPT ![t].free = @ \ {c}, ![t].current = c]
            /\ call' = [call EXCEPT ![t].ctx = c, ![t].pc = "try"]
      BY <1>6, <2>2 DEF EnterContext
    <3>2. c \in Contexts /\ call[t].pc = "enter" /\ exitKey' = exitKey
      BY <1>0, <1>6, <2>2, FreshIsFree DEF TlsType, EnterContext
    <3>3. tls' \in [Threads -> TlsType] /\ call' \in [Threads -> CallType]
      BY <1>0, <3>1, <3>2 DEF TlsType, CallType, Labels
    <3>4. tls'[t].free = {}
      BY <1>0, <3>1, <3>2 DEF TlsType, LocalInv
    <3>5. LocalInv(t)'
      BY <1>0, <3>1, <3>2, <3>4, NullIsNoContext
         DEF LocalInv, TlsType, CallType, Within
    <3>. QED
      BY <3>3, <3>5
  <2>. QED
    BY <2>1, <2>2
<1>7. CASE BeginTry(t)
  <2>1. tls' \in [Threads -> TlsType]
    <3>1. PICK m \in Settings :
            tls' = [tls EXCEPT ![t].exc = TRUE, ![t].scs = m]
      BY <1>0, <1>7 DEF BeginTry, TlsType, CallType
    <3>. QED
      BY <1>0, <3>1 DEF TlsType
  <2>2. call' \in [Threads -> CallType]
    BY <1>0, <1>7 DEF BeginTry, CallType, Labels, RawKinds, Settings
  <2>3. LocalInv(t)'
    BY <1>0, <1>7 DEF BeginTry, LocalInv, TlsType, CallType, Within, FreshTls, RawKinds, Settings
  <2>. QED
    BY <2>1, <2>2, <2>3
<1>8. CASE BodySucceeds(t)
  <2>1. tls' \in [Threads -> TlsType]
    BY <1>0, <1>8 DEF BodySucceeds, TlsType, Made, Pieces, RawKinds, Settings
  <2>2. call' \in [Threads -> CallType]
    <3>1. Made(call[t].kind) \subseteq Pieces
      BY <1>0, <1>8 DEF BodySucceeds, LocalInv, Made, Pieces, Kinds, RawKinds
    <3>. QED
      BY <1>0, <1>8, <3>1 DEF BodySucceeds, CallType, Labels
  <2>3. LocalInv(t)'
    BY <1>0, <1>8 DEF BodySucceeds, LocalInv, TlsType, CallType, Within, FreshTls, Made, Pieces, RawKinds, Settings
  <2>. QED
    BY <2>1, <2>2, <2>3
<1>9. CASE BodyRaises(t)
  <2>1. tls' \in [Threads -> TlsType]
    BY <1>0, <1>9 DEF BodyRaises, TlsType, Abandoned, Pieces
  <2>2. call' \in [Threads -> CallType]
    BY <1>0, <1>9 DEF BodyRaises, CallType, Labels, Abandoned, Pieces
  <2>3. LocalInv(t)'
    BY <1>0, <1>9 DEF BodyRaises, LocalInv, TlsType, CallType, Within, FreshTls, Abandoned, Pieces
  <2>. QED
    BY <2>1, <2>2, <2>3
<1>10. CASE BodyJumpsAstray(t)
  <2>1. tls' \in [Threads -> TlsType]
    BY <1>0, <1>10 DEF BodyJumpsAstray, TlsType
  <2>2. call' \in [Threads -> CallType]
    BY <1>0, <1>10 DEF BodyJumpsAstray, CallType, Labels
  <2>3. LocalInv(t)'
    BY <1>0, <1>10 DEF BodyJumpsAstray, LocalInv, TlsType, CallType, Within, FreshTls
  <2>. QED
    BY <2>1, <2>2, <2>3
<1>11. CASE Catch(t)
  <2>1. tls' \in [Threads -> TlsType]
    <3>. DEFINE L == [tls[t] EXCEPT !.current = call[t].ctx, !.depth = 0]
    <3>1. tls' = tls \/ tls' = [tls EXCEPT ![t] = L]
      BY <1>11 DEF Catch
    <3>2. 0 \in 0 .. StackSize
      BY Bounds
    <3>3. L \in TlsType
      BY <1>0, <3>2 DEF TlsType, CallType
    <3>. HIDE DEF L
    <3>. QED
      BY <1>0, <3>1, <3>3
  <2>2. call' \in [Threads -> CallType]
    BY <1>0, <1>11 DEF Catch, CallType, Labels, Pieces
  <2>3. LocalInv(t)'
    BY <1>0, <1>11 DEF Catch, LocalInv, TlsType, CallType, Within, FreshTls, Pieces
  <2>. QED
    BY <2>1, <2>2, <2>3
<1>12. CASE After(t)
  <2>1. tls' \in [Threads -> TlsType]
    BY <1>0, <1>12 DEF After, TlsType, Pieces
  <2>2. call' \in [Threads -> CallType]
    BY <1>0, <1>12 DEF After, CallType, Labels, Pieces
  <2>3. LocalInv(t)'
    BY <1>0, <1>12 DEF After, LocalInv, TlsType, CallType, Within, FreshTls, Pieces
  <2>. QED
    BY <2>1, <2>2, <2>3
<1>13. CASE LeaveContext(t)
  <2>1. tls' \in [Threads -> TlsType]
    <3>1. PICK full \in BOOLEAN :
            tls' = [tls EXCEPT ![t].current = tls[t].top,
                      ![t].free = (IF full THEN {} ELSE @) \cup {call[t].ctx}]
      BY <1>13 DEF LeaveContext
    <3>2. call[t].ctx \in Contexts
      BY <1>0, <1>13 DEF LeaveContext, LocalInv, Within, CallType
    <3>. DEFINE L == [tls[t] EXCEPT !.current = tls[t].top,
                        !.free = (IF full THEN {} ELSE @) \cup {call[t].ctx}]
    <3>3. L \in TlsType
      BY <1>0, <3>2 DEF TlsType
    <3>4. tls' = [tls EXCEPT ![t] = L]
      BY <3>1
    <3>. HIDE DEF L
    <3>. QED
      BY <1>0, <3>3, <3>4
  <2>2. call' \in [Threads -> CallType]
    BY <1>0, <1>13 DEF LeaveContext, CallType, Labels
  <2>3. LocalInv(t)'
    BY <1>0, <1>13 DEF LeaveContext, LocalInv, TlsType, CallType, Within, FreshTls
  <2>. QED
    BY <2>1, <2>2, <2>3
<1>14. CASE Reply(t)
  <2>1. tls' \in [Threads -> TlsType]
    BY <1>0, <1>14 DEF Reply, TlsType, IdleCall
  <2>2. call' \in [Threads -> CallType]
    <3>1. PICK r \in {"ok", "error"} :
            call' = [call EXCEPT ![t] =
              [IdleCall EXCEPT !.pieces = call[t].pieces \ Freed(call[t].kind),
                               !.reply = r]]
      BY <1>14 DEF Reply
    <3>2. call[t].pieces \ Freed(call[t].kind) \subseteq Pieces
      BY <1>0 DEF CallType
    <3>. QED
      BY <1>0, <3>1, <3>2 DEF CallType, IdleCall, Labels, Settings
  <2>3. LocalInv(t)'
    BY <1>0, <1>14 DEF Reply, LocalInv, TlsType, CallType, Within, FreshTls, IdleCall
  <2>. QED
    BY <2>1, <2>2, <2>3
<1>15. CASE ThreadExit(t)
  <2>1. /\ tls' = [tls EXCEPT ![t] = FreshTls]
        /\ call' = [call EXCEPT ![t] = [IdleCall EXCEPT !.pc = "gone"]]
        /\ exitKey' = exitKey
    BY <1>15 DEF ThreadExit
  <2>2. tls' \in [Threads -> TlsType] /\ call' \in [Threads -> CallType]
    BY <1>0, <2>1, FreshTlsType, IdleCallType
  <2>3. LocalInv(t)'
    BY <1>0, <2>1 DEF LocalInv, Within, FreshTls, IdleCall
  <2>. QED
    BY <2>2, <2>3
<1>16. CASE ThreadStart(t)
  <2>1. tls' \in [Threads -> TlsType]
    BY <1>0, <1>16 DEF ThreadStart, TlsType
  <2>2. call' \in [Threads -> CallType]
    BY <1>0, <1>16 DEF ThreadStart, CallType, Labels
  <2>3. LocalInv(t)'
    BY <1>0, <1>16 DEF ThreadStart, LocalInv, TlsType, CallType, Within, FreshTls
  <2>. QED
    BY <2>1, <2>2, <2>3
<1>. QED
  BY <1>1, <1>2, <1>3, <1>4, <1>5, <1>6, <1>7, <1>8, <1>9, <1>10, <1>11, <1>12, <1>13, <1>14, <1>15, <1>16 DEF ThreadStep, LibraryStep

(* The shared variables keep their types, and the exit key stays created.  *)
LEMMA SharedStep ==
  ASSUME LocalsInv, NEW t \in Threads, ThreadStep(t)
  PROVE  /\ vm' \in {"up", "exited", "crashed"}
         /\ keysMade' \in 0 .. KeyLimit /\ exitKey' \in 0 .. KeyLimit
         /\ keysMade' # 0 => exitKey' # 0
         /\ exitKey # 0 => exitKey' # 0
         /\ misuse' \in BOOLEAN
<1>0. /\ vm = "up" /\ keysMade \in 0 .. KeyLimit /\ exitKey \in 0 .. KeyLimit
      /\ keysMade # 0 => exitKey # 0
      /\ misuse \in BOOLEAN /\ LocalInv(t)
  BY DEF LocalsInv, TypeOK, ThreadStep, LibraryStep, At, Begin, Refuse,
         InitMemory, CreateKey, SetHook, EnterContext, BeginTry, BodySucceeds,
         BodyRaises, BodyJumpsAstray, Catch, After, LeaveContext, Reply,
         ThreadExit, ThreadStart
<1>1. vm' \in {"up", "exited", "crashed"}
  <2>1. CASE BodyRaises(t)
    BY <1>0, <2>1, Bounds DEF BodyRaises, LocalInv, At, Die
  <2>. QED
    BY <1>0, <2>1 DEF ThreadStep, LibraryStep, Begin, Refuse, Die,
         InitMemory, CreateKey, SetHook, EnterContext, BeginTry, BodySucceeds,
         BodyJumpsAstray, Catch, After, LeaveContext, Reply,
         ThreadExit, ThreadStart
<1>2. /\ keysMade' \in 0 .. KeyLimit /\ exitKey' \in 0 .. KeyLimit
      /\ keysMade' # 0 => exitKey' # 0
      /\ exitKey # 0 => exitKey' # 0
  <2>1. CASE CreateKey(t)
    BY <1>0, <2>1, Bounds DEF CreateKey
  <2>. QED
    BY <1>0, <2>1 DEF ThreadStep, LibraryStep, Begin, Refuse, Die,
         InitMemory, SetHook, EnterContext, BeginTry, BodySucceeds, BodyRaises,
         BodyJumpsAstray, Catch, After, LeaveContext, Reply,
         ThreadExit, ThreadStart
<1>3. misuse' \in BOOLEAN
  <2>. USE <1>0
  <2>1. CASE EnterContext(t)
    BY <2>1 DEF EnterContext, Die
  <2>2. CASE LeaveContext(t)
    BY <2>2 DEF LeaveContext
  <2>3. CASE ThreadExit(t)
    BY <2>3 DEF ThreadExit, FreeTop
  <2>. QED
    BY <2>1, <2>2, <2>3 DEF ThreadStep, LibraryStep, Begin, Refuse, Die,
         InitMemory, CreateKey, SetHook, BeginTry, BodySucceeds, BodyRaises,
         BodyJumpsAstray, Catch, After, Reply, ThreadStart
<1>. QED
  BY <1>1, <1>2, <1>3

(* Contexts come from malloc, so the heap stays within Contexts.           *)
LEMMA HeapType ==
  ASSUME LocalsInv, NEW t \in Threads, ThreadStep(t)
  PROVE  heap' \subseteq Contexts
<1>0. /\ heap \subseteq Contexts /\ tls[t] \in TlsType
  BY DEF LocalsInv, TypeOK
<1>1. CASE InitMemory(t)
  <2>1. CASE heap' = heap
    BY <1>0, <2>1
  <2>2. CASE heap' # heap
    <3>1. PICK c \in Fresh(Contexts \ heap) :
            \E d \in Fresh(Contexts \ (heap \cup {c})) : heap' = heap \cup {c, d}
      BY <1>1, <2>2 DEF InitMemory, Die
    <3>2. PICK d \in Fresh(Contexts \ (heap \cup {c})) : heap' = heap \cup {c, d}
      BY <3>1
    <3>. QED
      BY <1>0, <3>1, <3>2, FreshIsFree
  <2>. QED
    BY <2>1, <2>2
<1>2. CASE EnterContext(t)
  <2>1. CASE heap' = heap
    BY <1>0, <2>1
  <2>2. CASE heap' # heap
    <3>1. PICK c \in IF tls[t].free # {} THEN tls[t].free
                     ELSE Fresh(Contexts \ heap) :
            heap' = IF tls[t].free # {} THEN heap ELSE heap \cup {c}
      BY <1>2, <2>2 DEF EnterContext, Die
    <3>. QED
      BY <1>0, <2>2, <3>1, FreshIsFree
  <2>. QED
    BY <2>1, <2>2
<1>. QED
  BY <1>0, <1>1, <1>2 DEF ThreadStep, LibraryStep, Begin, Refuse, Die, CreateKey,
     SetHook, BeginTry, BodySucceeds, BodyRaises, BodyJumpsAstray, Catch, After,
     LeaveContext, Reply, ThreadExit, FreeTop, ThreadStart

LEMMA LocalsInit == Init => LocalsInv
<1>. SUFFICES ASSUME Init PROVE LocalsInv
  OBVIOUS
<1>1. /\ tls \in [Threads -> TlsType] /\ call \in [Threads -> CallType]
  BY FreshTlsType, IdleCallType DEF Init
<1>2. keysMade \in 0 .. KeyLimit /\ exitKey \in 0 .. KeyLimit
  BY Bounds DEF Init
<1>3. \A t \in Threads : LocalInv(t)
  BY DEF Init, LocalInv, FreshTls, IdleCall, Within
<1>. QED
  BY <1>1, <1>2, <1>3 DEF Init, LocalsInv, TypeOK

LEMMA LocalsNext == LocalsInv /\ [Next]_vars => LocalsInv'
<1>. SUFFICES ASSUME LocalsInv, [Next]_vars PROVE LocalsInv'
  OBVIOUS
<1>1. CASE UNCHANGED vars
  BY <1>1 DEF vars, LocalsInv, TypeOK, LocalInv
<1>2. ASSUME NEW t \in Threads, ThreadStep(t) PROVE LocalsInv'
  <2>1. /\ tls' \in [Threads -> TlsType] /\ call' \in [Threads -> CallType]
        /\ LocalInv(t)'
    BY <1>2, LocalStep
  <2>2. \A u \in Threads \ {t} : tls'[u] = tls[u] /\ call'[u] = call[u]
    BY <1>2, OthersUntouched DEF LocalsInv
  <2>3. /\ vm' \in {"up", "exited", "crashed"}
        /\ keysMade' \in 0 .. KeyLimit /\ exitKey' \in 0 .. KeyLimit
        /\ keysMade' # 0 => exitKey' # 0
        /\ exitKey # 0 => exitKey' # 0
        /\ misuse' \in BOOLEAN
    BY <1>2, SharedStep
  <2>4. heap' \subseteq Contexts
    BY <1>2, HeapType
  <2>5. ASSUME NEW u \in Threads \ {t} PROVE LocalInv(u)'
    <3>1. LocalInv(u)
      BY DEF LocalsInv
    <3>. QED
      BY <2>2, <2>3, <3>1 DEF LocalInv
  <2>. QED
    BY <2>1, <2>3, <2>4, <2>5 DEF LocalsInv, TypeOK
<1>. QED
  BY <1>1, <1>2 DEF Next, ThreadStep

(* The variables keep their types in every behaviour of the call path.     *)
THEOREM TypeCorrect == Spec => []TypeOK
<1>1. LocalsInv => TypeOK
  BY DEF LocalsInv
<1>. QED
  BY <1>1, LocalsInit, LocalsNext, PTL DEF Spec

(* However the calls before it ended, with a result, an error or a failed  *)
(* allocation, a call finds its thread with no handler installed, an empty *)
(* error stack, the default lexer settings and TopMemoryContext current    *)
(* (pg_query.c:78-100, the PG_CATCH blocks of the pg_query_* entry points).*)
THEOREM CallsAlwaysStartClean == Spec => []CallsStartClean
<1>1. LocalsInv => CallsStartClean
  BY DEF LocalsInv, LocalInv, CallsStartClean, Within
<1>. QED
  BY <1>1, LocalsInit, LocalsNext, PTL DEF Spec

(* The error stack never fills up: no sequence of failing calls promotes a *)
(* parse error to PANIC (elog.c:789-794), for any ERRORDATA_STACK_SIZE.    *)
THEOREM NeverAborts == Spec => []NeverPanics
<1>1. LocalsInv => NeverPanics
  BY DEF LocalsInv, NeverPanics
<1>. QED
  BY <1>1, LocalsInit, LocalsNext, PTL DEF Spec

-----------------------------------------------------------------------------
(* Ownership of memory contexts.                                           *)

(* The roles of a context within one thread do not overlap. *)
Separate(t) ==
  /\ tls[t].top # NoContext => tls[t].top # tls[t].err
  /\ call[t].ctx # NoContext =>
       call[t].ctx \notin {tls[t].top, tls[t].err} \cup tls[t].free
  /\ {tls[t].top, tls[t].err} \cap tls[t].free = {}

OwnInv ==
  /\ LocalsInv
  /\ ContextsUnshared
  /\ NoMisuse

(* What thread t sees of the heap while it takes a step. *)
LocalOwn(t) ==
  /\ Owned(t) \subseteq heap
  /\ heap \subseteq Contexts
  /\ Separate(t)
  /\ misuse = FALSE

LEMMA OwnLocally ==
  ASSUME OwnInv, NEW t \in Threads
  PROVE  LocalOwn(t)
BY DEF OwnInv, LocalsInv, TypeOK, ContextsUnshared, NoMisuse,
       LocalOwn, Separate

(* Thread t ends without an exit hook. *)
EndsUnhooked(t) ==
  /\ KeyLimit = 0 \/ MayRunOut
  /\ call[t].pc = "idle" /\ call'[t].pc = "gone" /\ tls[t].hook = NoContext

(* One step of thread t: it frees only what it owned, what it newly owns   *)
(* was free, and the heap changes by exactly the difference, unless the    *)
(* thread ends without a hook: then it owns nothing and the heap stays.    *)
OwnStep(t) ==
  /\ \/ heap' = (heap \ Owned(t)) \cup Owned(t)'
     \/ heap' = heap /\ Owned(t)' = {} /\ EndsUnhooked(t)
  /\ Owned(t)' \subseteq Owned(t) \cup (Contexts \ heap)
  /\ Separate(t)'
  /\ misuse' = misuse

(* A step that leaves the pointers of thread t and the heap alone. *)
LEMMA QuietStep ==
  ASSUME NEW t \in Threads, LocalOwn(t),
         tls'[t].top = tls[t].top, tls'[t].err = tls[t].err,
         tls'[t].free = tls[t].free, call'[t].ctx = call[t].ctx,
         heap' = heap, misuse' = misuse
  PROVE  OwnStep(t)
BY DEF OwnStep, LocalOwn, Owned, Separate

(* pg_query_init takes two contexts malloc had free. *)
LEMMA InitMemoryOwns ==
  ASSUME LocalsInv, NEW t \in Threads, LocalOwn(t), InitMemory(t)
  PROVE  OwnStep(t)
<1>0. /\ tls \in [Threads -> TlsType] /\ tls[t] \in TlsType
      /\ call \in [Threads -> CallType] /\ call[t] \in CallType
      /\ LocalInv(t) /\ call[t].pc = "init" /\ vm = "up"
  BY DEF LocalsInv, TypeOK, InitMemory, At
<1>1. CASE vm' # "up"
  <2>1. UNCHANGED <<heap, misuse, tls, call>>
    BY <1>0, <1>1 DEF InitMemory, Die
  <2>. QED
    BY <2>1, QuietStep
<1>2. CASE vm' = "up"
  <2>1. PICK c \in Fresh(Contexts \ heap) :
          \E d \in Fresh(Contexts \ (heap \cup {c})) :
             /\ heap' = heap \cup {c, d}
             /\ tls' = [tls EXCEPT ![t] =
                  [@ EXCEPT !.init = TRUE, !.top = c, !.err = d, !.current = c]]
    BY <1>2 DEF InitMemory, Die
  <2>2. PICK d \in Fresh(Contexts \ (heap \cup {c})) :
             /\ heap' = heap \cup {c, d}
             /\ tls' = [tls EXCEPT ![t] =
                  [@ EXCEPT !.init = TRUE, !.top = c, !.err = d, !.current = c]]
    BY <2>1
  <2>3. c \in Contexts \ heap /\ d \in Contexts \ heap /\ c # d
    BY FreshIsFree
  <2>4. call' = [call EXCEPT ![t].pc = "key"] /\ misuse' = misuse
    BY <1>2 DEF InitMemory, Goto, Die
  <2>5. tls[t] = FreshTls /\ call[t].ctx = NoContext
    BY <1>0 DEF LocalInv, Within
  <2>6. Owned(t) = {}
    BY <2>5 DEF Owned, FreshTls
  <2>7. /\ tls'[t].top = c /\ tls'[t].err = d /\ tls'[t].free = {}
        /\ call'[t].ctx = NoContext
    BY <1>0, <2>2, <2>4, <2>5 DEF TlsType, CallType, FreshTls
  <2>8. Owned(t)' = {c, d}
    BY <2>3, <2>7, NullIsNoContext DEF Owned
  <2>9. Separate(t)'
    BY <2>3, <2>7 DEF Separate
  <2>. QED
    BY <2>2, <2>3, <2>4, <2>6, <2>8, <2>9 DEF OwnStep
<1>. QED
  BY <1>1, <1>2

(* The call's context comes from the thread's own freelist or from malloc. *)
LEMMA EnterContextOwns ==
  ASSUME LocalsInv, NEW t \in Threads, LocalOwn(t), EnterContext(t)
  PROVE  OwnStep(t)
<1>0. /\ tls \in [Threads -> TlsType] /\ tls[t] \in TlsType
      /\ call \in [Threads -> CallType] /\ call[t] \in CallType
      /\ LocalInv(t) /\ call[t].pc = "enter" /\ vm = "up"
  BY DEF LocalsInv, TypeOK, EnterContext, At
<1>1. CASE vm' # "up"
  <2>1. UNCHANGED <<heap, misuse, tls, call>>
    BY <1>0, <1>1 DEF EnterContext, Die
  <2>. QED
    BY <2>1, QuietStep
<1>2. CASE vm' = "up"
  <2>1. PICK c \in IF tls[t].free # {} THEN tls[t].free
                   ELSE Fresh(Contexts \ heap) :
          /\ tls' = [tls EXCEPT ![t].free = @ \ {c}, ![t].current = c]
          /\ call' = [call EXCEPT ![t].ctx = c, ![t].pc = "try"]
          /\ misuse' = (misuse \/ c \in tls[t].free \ heap)
          /\ heap' = IF tls[t].free # {} THEN heap ELSE heap \cup {c}
    BY <1>2 DEF EnterContext, Die
  <2>2. /\ tls'[t].top = tls[t].top /\ tls'[t].err = tls[t].err
        /\ tls'[t].free = tls[t].free \ {c} /\ call'[t].ctx = c
        /\ call[t].ctx = NoContext
    BY <1>0, <2>1 DEF TlsType, CallType, LocalInv, Within
  <2>3. CASE tls[t].free # {}
    <3>1. c \in tls[t].free /\ heap' = heap
      BY <2>1, <2>3
    <3>2. c # NoContext
      BY <1>0, <3>1, NullIsNoContext DEF TlsType
    <3>3. c \in Owned(t)
      BY <3>1, <3>2 DEF Owned
    <3>4. Owned(t)' = Owned(t)
      BY <2>2, <3>1, <3>2 DEF Owned
    <3>5. misuse' = misuse
      BY <2>1, <3>3 DEF LocalOwn
    <3>6. Separate(t)'
      BY <2>2, <3>1 DEF LocalOwn, Separate
    <3>. QED
      BY <3>1, <3>4, <3>5, <3>6 DEF OwnStep, LocalOwn
  <2>4. CASE tls[t].free = {}
    <3>1. c \in Contexts \ heap /\ heap' = heap \cup {c} /\ misuse' = misuse
      BY <2>1, <2>4, FreshIsFree DEF LocalOwn
    <3>2. c # NoContext
      BY <3>1, NullIsNoContext
    <3>3. Owned(t)' = Owned(t) \cup {c}
      BY <2>2, <2>4, <3>2 DEF Owned
    <3>4. c \notin {tls[t].top, tls[t].err}
      BY <3>1, <3>2 DEF LocalOwn, Owned
    <3>5. Separate(t)'
      BY <2>2, <2>4, <3>4 DEF LocalOwn, Separate
    <3>. QED
      BY <3>1, <3>3, <3>5 DEF OwnStep, LocalOwn
  <2>. QED
    BY <2>3, <2>4
<1>. QED
  BY <1>1, <1>2

(* The freelist is empty during a call, so it is never found full: the     *)
(* call's context moves into it and nothing is freed.                      *)
LEMMA LeaveContextOwns ==
  ASSUME LocalsInv, NEW t \in Threads, LocalOwn(t), LeaveContext(t)
  PROVE  OwnStep(t)
<1>0. /\ tls \in [Threads -> TlsType] /\ tls[t] \in TlsType
      /\ call \in [Threads -> CallType] /\ call[t] \in CallType
      /\ LocalInv(t) /\ call[t].pc = "leave"
  BY DEF LocalsInv, TypeOK, LeaveContext, At
<1>1. tls[t].free = {} /\ call[t].ctx # NoContext
  BY <1>0 DEF LocalInv, Within
<1>2. ~(Cardinality(tls[t].free) >= MaxFree)
  BY <1>1, FS_EmptySet, Bounds
<1>3. call[t].ctx \in heap
  BY <1>1 DEF LocalOwn, Owned
<1>4. /\ tls' = [tls EXCEPT ![t].current = tls[t].top,
                            ![t].free = @ \cup {call[t].ctx}]
      /\ call' = [call EXCEPT ![t].ctx = NoContext, ![t].pc = "reply"]
      /\ heap' = heap
      /\ misuse' = misuse
  BY <1>2, <1>3 DEF LeaveContext, LocalOwn
<1>5. /\ tls'[t].top = tls[t].top /\ tls'[t].err = tls[t].err
      /\ tls'[t].free = {call[t].ctx} /\ call'[t].ctx = NoContext
  BY <1>0, <1>1, <1>4 DEF TlsType, CallType
<1>6. Owned(t)' = Owned(t)
  BY <1>1, <1>5 DEF Owned
<1>7. Separate(t)'
  BY <1>1, <1>5 DEF LocalOwn, Separate
<1>. QED
  BY <1>4, <1>6, <1>7 DEF OwnStep, LocalOwn

(* The destructor frees everything the thread holds, each context once, if *)
(* the thread stored a hook for it.                                        *)
LEMMA ThreadExitOwns ==
  ASSUME LocalsInv, NEW t \in Threads, LocalOwn(t), ThreadExit(t)
  PROVE  OwnStep(t)
<1>0. /\ tls \in [Threads -> TlsType] /\ tls[t] \in TlsType
      /\ call \in [Threads -> CallType] /\ call[t] \in CallType
      /\ LocalInv(t) /\ call[t].pc = "idle"
  BY DEF LocalsInv, TypeOK, ThreadExit, At
<1>1. /\ tls'[t] = FreshTls /\ call'[t] = [IdleCall EXCEPT !.pc = "gone"]
  BY <1>0 DEF ThreadExit
<1>2. Owned(t)' = {} /\ Separate(t)'
  BY <1>1 DEF Owned, Separate, FreshTls, IdleCall
<1>3. call[t].ctx = NoContext
  BY <1>0 DEF LocalInv, Within
<1>4. CASE tls[t].init /\ tls[t].hook # NoContext
  <2>1. tls[t].hook = tls[t].top /\ tls[t].top # NoContext /\ tls[t].err # NoContext
    BY <1>0, <1>4 DEF LocalInv
  <2>2. NoContext \notin tls[t].free
    BY <1>0, NullIsNoContext DEF TlsType
  <2>3. Owned(t) = {tls[t].top, tls[t].err} \cup tls[t].free
    BY <1>3, <2>1, <2>2 DEF Owned
  <2>4. FreeTop(t, tls[t].top)
    BY <1>4, <2>1 DEF ThreadExit
  <2>5. heap' = heap \ Owned(t) /\ misuse' = misuse
    BY <2>3, <2>4 DEF FreeTop, LocalOwn
  <2>. QED
    BY <1>2, <2>5 DEF OwnStep
<1>5. CASE ~tls[t].init
  <2>1. tls[t] = FreshTls
    BY <1>0, <1>5 DEF LocalInv
  <2>2. Owned(t) = {}
    BY <1>3, <2>1 DEF Owned, FreshTls
  <2>3. heap' = heap /\ misuse' = misuse
    BY <2>1 DEF ThreadExit, FreshTls
  <2>. QED
    BY <1>2, <2>2, <2>3 DEF OwnStep
<1>6. CASE tls[t].init /\ tls[t].hook = NoContext
  <2>1. heap' = heap /\ misuse' = misuse
    BY <1>6 DEF ThreadExit
  <2>2. tls[t].top # NoContext
    BY <1>0, <1>6 DEF LocalInv
  <2>3. KeyLimit = 0 \/ MayRunOut
    BY <1>0, <1>6, <2>2 DEF LocalInv
  <2>4. call'[t].pc = "gone"
    BY <1>1 DEF IdleCall
  <2>5. EndsUnhooked(t)
    BY <1>0, <1>6, <2>3, <2>4 DEF EndsUnhooked
  <2>. QED
    BY <1>2, <2>1, <2>5 DEF OwnStep
<1>. QED
  BY <1>4, <1>5, <1>6

(* Every step of a thread keeps the books of the heap. *)
LEMMA EveryStepOwns ==
  ASSUME LocalsInv, NEW t \in Threads, LocalOwn(t), ThreadStep(t)
  PROVE  OwnStep(t)
<1>0. /\ tls \in [Threads -> TlsType] /\ tls[t] \in TlsType
      /\ call \in [Threads -> CallType] /\ call[t] \in CallType
      /\ LocalInv(t)
  BY DEF LocalsInv, TypeOK
<1>. DEFINE Quiet == /\ tls'[t].top = tls[t].top /\ tls'[t].err = tls[t].err
                     /\ tls'[t].free = tls[t].free /\ call'[t].ctx = call[t].ctx
                     /\ heap' = heap /\ misuse' = misuse
<1>. USE DEF At, Goto, Die
<1>1. ASSUME NEW k \in Kinds, NEW i \in Inputs, Begin(t, k, i, "on")
      PROVE  Quiet
  BY <1>0, <1>1 DEF Begin, IdleCall, LocalInv, Within
<1>2. CASE Refuse(t)
  <2>1. Quiet
    BY <1>0, <1>2 DEF Refuse, IdleCall, LocalInv, Within
  <2>. QED
    BY <2>1, QuietStep
<1>3. CASE CreateKey(t) \/ SetHook(t) \/ BeginTry(t)
  <2>1. Quiet
    BY <1>0, <1>3 DEF CreateKey, SetHook, BeginTry, TlsType, CallType
  <2>. QED
    BY <2>1, QuietStep
<1>4. CASE BodySucceeds(t) \/ BodyJumpsAstray(t)
  <2>1. Quiet
    BY <1>0, <1>4 DEF BodySucceeds, BodyJumpsAstray, TlsType, CallType
  <2>. QED
    BY <2>1, QuietStep
<1>5. CASE BodyRaises(t)
  <2>1. Quiet
    BY <1>0, <1>5 DEF BodyRaises, TlsType, CallType
  <2>. QED
    BY <2>1, QuietStep
<1>6. CASE Catch(t) \/ After(t)
  <2>1. Quiet
    BY <1>0, <1>6 DEF Catch, After, TlsType, CallType
  <2>. QED
    BY <2>1, QuietStep
<1>7. CASE Reply(t)
  <2>1. Quiet
    BY <1>0, <1>7 DEF Reply, IdleCall, LocalInv, Within
  <2>. QED
    BY <2>1, QuietStep
<1>8. CASE ThreadStart(t)
  <2>1. Quiet
    BY <1>0, <1>8 DEF ThreadStart, CallType
  <2>. QED
    BY <2>1, QuietStep
<1>. QED
  BY <1>1, <1>2, <1>3, <1>4, <1>5, <1>6, <1>7, <1>8, QuietStep, InitMemoryOwns,
     EnterContextOwns, LeaveContextOwns, ThreadExitOwns DEF ThreadStep, LibraryStep

LEMMA OwnInit == Init => OwnInv
<1>. SUFFICES ASSUME Init PROVE OwnInv
  OBVIOUS
<1>1. \A t \in Threads : Owned(t) = {}
  BY DEF Init, Owned, FreshTls, IdleCall
<1>2. NoMisuse
  BY <1>1 DEF Init, NoMisuse
<1>3. ContextsUnshared
  BY <1>1 DEF Init, ContextsUnshared, FreshTls, IdleCall
<1>. QED
  BY <1>2, <1>3, LocalsInit DEF OwnInv

LEMMA OwnNext == OwnInv /\ [Next]_vars => OwnInv'
<1>. SUFFICES ASSUME OwnInv, [Next]_vars PROVE OwnInv'
  OBVIOUS
<1>1. LocalsInv'
  BY LocalsNext DEF OwnInv
<1>2. CASE UNCHANGED vars
  BY <1>1, <1>2 DEF vars, OwnInv, ContextsUnshared, Owned, NoMisuse
<1>3. ASSUME NEW t \in Threads, ThreadStep(t) PROVE OwnInv'
  <2>1. OwnStep(t)
    BY <1>3, OwnLocally, EveryStepOwns DEF OwnInv
  <2>2. \A u \in Threads \ {t} : tls'[u] = tls[u] /\ call'[u] = call[u]
    BY <1>3, OthersUntouched DEF OwnInv, LocalsInv
  <2>3. \A u \in Threads \ {t} :
          Owned(u)' = Owned(u) /\ (Separate(u) => Separate(u)')
    BY <2>2 DEF Owned, Separate
  <2>4. \A u \in Threads : Owned(u) \subseteq heap
    BY DEF OwnInv, NoMisuse
  <2>5. \A u \in Threads \ {t} : Owned(u) \cap Owned(t) = {}
    BY DEF OwnInv, ContextsUnshared
  <2>6. \A u \in Threads : Owned(u)' \subseteq heap'
    BY <2>1, <2>3, <2>4, <2>5 DEF OwnStep
  <2>7. ContextsUnshared'
    <3>1. \A u, w \in Threads : u # w => Owned(u)' \cap Owned(w)' = {}
      <4>1. \A u \in Threads \ {t} : Owned(u)' \cap Owned(t)' = {}
        BY <2>1, <2>3, <2>4, <2>5 DEF OwnStep
      <4>2. \A u, w \in Threads \ {t} : u # w => Owned(u)' \cap Owned(w)' = {}
        BY <2>3 DEF OwnInv, ContextsUnshared
      <4>. QED
        BY <4>1, <4>2
    <3>2. \A u \in Threads : Separate(u)
      BY DEF OwnInv, ContextsUnshared, Separate
    <3>3. \A u \in Threads : Separate(u)'
      BY <2>1, <2>3, <3>2 DEF OwnStep
    <3>. QED
      BY <3>1, <3>3 DEF ContextsUnshared, Separate
  <2>8. NoMisuse'
    BY <2>1, <2>6 DEF OwnStep, OwnInv, NoMisuse
  <2>. QED
    BY <1>1, <2>7, <2>8 DEF OwnInv
<1>. QED
  BY <1>2, <1>3 DEF Next, ThreadStep

(* What the books of a step say of the contexts that become forgotten. *)
LEMMA StepForgets ==
  ASSUME OwnInv, NEW t \in Threads, ThreadStep(t)
  PROVE  \/ Forgotten' \subseteq Forgotten
         \/ EndsUnhooked(t) /\ Forgotten' \subseteq Forgotten \cup Owned(t)
<1>1. OwnStep(t)
  BY OwnLocally, EveryStepOwns DEF OwnInv
<1>2. \A u \in Threads \ {t} : Owned(u)' = Owned(u)
  BY OthersUntouched DEF OwnInv, LocalsInv, Owned
<1>3. ASSUME NEW c \in Forgotten'
      PROVE  c \in heap' /\ c \notin Owned(t)' /\ \A u \in Threads \ {t} : c \notin Owned(u)
  BY <1>2, <1>3 DEF Forgotten
<1>4. CASE heap' = (heap \ Owned(t)) \cup Owned(t)'
  <2>1. ASSUME NEW c \in Forgotten' PROVE c \in Forgotten
    <3>1. c \in heap /\ c \notin Owned(t)
      BY <1>3, <1>4
    <3>. QED
      BY <1>3, <3>1 DEF Forgotten
  <2>. QED
    BY <2>1
<1>5. CASE heap' = heap /\ EndsUnhooked(t)
  <2>1. ASSUME NEW c \in Forgotten', c \notin Owned(t) PROVE c \in Forgotten
    BY <1>3, <1>5, <2>1 DEF Forgotten
  <2>. QED
    BY <1>5, <2>1
<1>. QED
  BY <1>1, <1>4, <1>5 DEF OwnStep

(* For any number of threads and of keys, none included, and whatever the  *)
(* order of their calls, failures and ends: contexts are forgotten only    *)
(* when a thread ends for which no exit hook could be stored, and they are *)
(* its own (pg_query.c:23-71, aset.c:405-710).                             *)
THEOREM ContextsKept == Spec => NoContextLost
<1>1. OwnInv /\ [Next]_vars =>
        [\/ Forgotten' \subseteq Forgotten
         \/ /\ KeyLimit = 0 \/ MayRunOut
            /\ \E t \in Threads :
                 /\ call[t].pc = "idle" /\ call'[t].pc = "gone"
                 /\ tls[t].hook = NoContext
                 /\ Forgotten' \subseteq Forgotten \cup Owned(t)]_vars
  <2>1. ASSUME OwnInv, NEW t \in Threads, ThreadStep(t)
        PROVE  \/ Forgotten' \subseteq Forgotten
               \/ /\ KeyLimit = 0 \/ MayRunOut
                  /\ \E u \in Threads :
                       /\ call[u].pc = "idle" /\ call'[u].pc = "gone"
                       /\ tls[u].hook = NoContext
                       /\ Forgotten' \subseteq Forgotten \cup Owned(u)
    BY <2>1, StepForgets DEF EndsUnhooked
  <2>. QED
    BY <2>1 DEF Next, ThreadStep
<1>. QED
  BY <1>1, OwnInit, OwnNext, PTL DEF Spec, NoContextLost

(* With a key left for the first call and memory for its hook, the heap is *)
(* at all times exactly what the threads hold, though later threads may    *)
(* find no key of their own and share one (pg_query.c:23-71).              *)
THEOREM HeapIsWhatThreadsHold ==
  ASSUME KeyLimit # 0, ~MayRunOut
  PROVE  Spec => [](heap = UNION {Owned(t) : t \in Threads})
<1>. DEFINE Books == OwnInv /\ Forgotten = {}
<1>1. Init => Books
  BY OwnInit DEF Init, Forgotten
<1>2. Books /\ [Next]_vars => Books'
  <2>. SUFFICES ASSUME Books, [Next]_vars PROVE Books'
    OBVIOUS
  <2>1. OwnInv'
    BY OwnNext
  <2>2. CASE UNCHANGED vars
    BY <2>1, <2>2 DEF vars, Forgotten, Owned
  <2>3. ASSUME NEW t \in Threads, ThreadStep(t) PROVE Forgotten' = {}
    BY <2>3, StepForgets DEF EndsUnhooked
  <2>. QED
    BY <2>1, <2>2, <2>3 DEF Next, ThreadStep
<1>3. Books => heap = UNION {Owned(t) : t \in Threads}
  <2>. SUFFICES ASSUME Books PROVE heap = UNION {Owned(t) : t \in Threads}
    OBVIOUS
  <2>1. \A u \in Threads : Owned(u) \subseteq heap
    BY DEF OwnInv, NoMisuse
  <2>. QED
    BY <2>1 DEF Forgotten
<1>. QED
  BY <1>1, <1>2, <1>3, PTL DEF Spec

(* No context has two owners, and none has two roles in one thread.        *)
THEOREM ContextsPrivate == Spec => []ContextsUnshared
<1>1. OwnInv => ContextsUnshared
  BY DEF OwnInv
<1>. QED
  BY <1>1, OwnInit, OwnNext, PTL DEF Spec

(* No context is used after it is freed, nor freed twice, nor freed while  *)
(* a thread points to it, for any value of MAX_FREE_CONTEXTS and any       *)
(* number of keys the process can create, none included.                   *)
THEOREM ContextsUsedAlive == Spec => []NoMisuse
<1>1. OwnInv => NoMisuse
  BY DEF OwnInv
<1>. QED
  BY <1>1, OwnInit, OwnNext, PTL DEF Spec

LEMMA AtMostOneFree == LocalsInv => AtMostThreeContexts
<1>. SUFFICES ASSUME LocalsInv, NEW t \in Threads
              PROVE  Cardinality(Owned(t)) <= 3
  BY DEF AtMostThreeContexts
<1>1. PICK c : {call[t].ctx} \cup tls[t].free \subseteq {NoContext, c}
  <2>1. CASE tls[t].free = {}
    BY <2>1
  <2>2. CASE tls[t].free # {}
    <3>1. PICK c \in tls[t].free : TRUE
      BY <2>2
    <3>2. call[t].ctx = NoContext /\ tls[t].free \subseteq {c}
      BY <2>2, <3>1 DEF LocalsInv, LocalInv
    <3>. QED
      BY <3>2
  <2>. QED
    BY <2>1, <2>2
<1>. DEFINE A == {tls[t].top}
            B == A \cup {tls[t].err}
            D == B \cup {c}
<1>2. IsFiniteSet(A) /\ Cardinality(A) = 1
  BY FS_Singleton
<1>3. IsFiniteSet(B) /\ Cardinality(B) \in {1, 2}
  <2>. HIDE DEF A
  <2>1. /\ IsFiniteSet(B)
        /\ Cardinality(B) = Cardinality(A) \/ Cardinality(B) = Cardinality(A) + 1
    BY <1>2, FS_AddElement
  <2>. QED
    BY <1>2, <2>1
<1>4. IsFiniteSet(D) /\ Cardinality(D) \in {1, 2, 3}
  <2>. HIDE DEF B
  <2>1. /\ IsFiniteSet(D)
        /\ Cardinality(D) = Cardinality(B) \/ Cardinality(D) = Cardinality(B) + 1
    BY <1>3, FS_AddElement
  <2>. QED
    BY <1>3, <2>1
<1>5. Owned(t) \subseteq D
  BY <1>1 DEF Owned
<1>6. Cardinality(Owned(t)) \in Nat /\ Cardinality(Owned(t)) <= Cardinality(D)
  <2>. HIDE DEF D
  <2>. QED
    BY <1>4, <1>5, FS_Subset, FS_CardinalityType
<1>. QED
  <2>. HIDE DEF D
  <2>. QED
    BY <1>4, <1>6

(* However many calls a thread makes, it holds at most three contexts.     *)
THEOREM ThreeContextsSuffice == Spec => []AtMostThreeContexts
BY AtMostOneFree, LocalsInit, LocalsNext, PTL DEF Spec
-----------------------------------------------------------------------------
(* What an error may lose. *)
Lost == {"unpacked", "tokens"}

(* What is known of the call on thread t at each label: its argument was   *)
(* not refused; the objects malloc'ed for it are those the handler frees   *)
(* and, after an error, what is lost; and past the body, failed tells      *)
(* whether the function could do its work with the default settings.       *)
CallInv(t) ==
  LET C == call[t]
      works == Works(C.kind, C.input, "on")
  IN  /\ C.pc \notin {"idle", "gone"} =>
           /\ C.kind \in Kinds /\ C.input \in Inputs \ Malformed
           /\ C.reply = "none"
           /\ C.pieces \subseteq Freed(C.kind) \cup Lost
           /\ C.pieces \cap Lost # {} => C.failed \/ C.pc = "catch"
      /\ C.pc \notin {"idle", "gone", "after", "leave", "reply"} => ~C.failed
      /\ C.pc = "catch" => ~works \/ MayRunOut
      /\ C.pc \in {"after", "leave", "reply"} =>
           IF C.failed THEN ~works \/ MayRunOut ELSE works
      /\ C.pc = "idle" =>
           C.pieces \subseteq Lost /\ (C.pieces # {} => C.reply = "error")
      /\ C.pc = "gone" => C.pieces = {} /\ C.reply = "none"

CallsInv == LocalsInv /\ \A t \in Threads : CallInv(t)
-----------------------------------------------------------------------------
(* What a call makes it frees, and what it loses it does not free. *)
LEMMA MadeIsFreed ==
  ASSUME NEW k \in Kinds
  PROVE  /\ Made(k) \subseteq Freed(k)
         /\ k # "deparse" => "cstr" \in Freed(k)
         /\ k = "parse" => "tree" \in Freed(k)
         /\ k = "fingerprint" => "fpstr" \in Freed(k)
         /\ "error" \in Freed(k)
         /\ \A p \in Freed(k) : p \notin Lost
BY DEF Kinds, RawKinds, Made, Freed, Lost

LEMMA AbandonedIsLost ==
  ASSUME NEW k, NEW i, NEW lost \in Abandoned(k, i)
  PROVE  lost \subseteq Lost
BY DEF Abandoned, Lost

(* A step of a thread keeps what is known of its call. *)
LEMMA CallStep ==
  ASSUME LocalsInv, NEW t \in Threads, CallInv(t), ThreadStep(t)
  PROVE  CallInv(t)'
<1>0. /\ call \in [Threads -> CallType] /\ call[t] \in CallType
      /\ LocalInv(t)
  BY DEF LocalsInv, TypeOK
<1>. USE DEF At, Goto, Die
<1>1. ASSUME NEW k \in Kinds, NEW i \in Inputs, Begin(t, k, i, "on")
      PROVE  CallInv(t)'
  <2>1. call'[t] = [IdleCall EXCEPT !.pc = IF tls[t].init THEN "enter" ELSE "init",
                        !.kind = k, !.input = i, !.option = "on",
                        !.pieces = IF k = "deparse" THEN {} ELSE {"cstr"}]
    BY <1>0, <1>1 DEF Begin
  <2>2. /\ call'[t].pc \in {"enter", "init"} /\ call'[t].kind = k /\ call'[t].input = i
        /\ call'[t].pieces = IF k = "deparse" THEN {} ELSE {"cstr"}
        /\ call'[t].failed = FALSE /\ call'[t].reply = "none"
    BY <2>1 DEF IdleCall
  <2>3. i \notin Malformed
    BY <1>1 DEF Begin
  <2>. QED
    BY <2>2, <2>3, MadeIsFreed DEF CallInv, Lost
<1>2. CASE Refuse(t)
  <2>1. call'[t] = [IdleCall EXCEPT !.reply = "error"]
    BY <1>0, <1>2 DEF Refuse
  <2>. QED
    BY <2>1 DEF CallInv, IdleCall
<1>3. CASE InitMemory(t) \/ CreateKey(t) \/ SetHook(t) \/ EnterContext(t) \/ BeginTry(t)
  <2>. DEFINE Same == /\ call'[t].kind = call[t].kind /\ call'[t].input = call[t].input
                      /\ call'[t].pieces = call[t].pieces
                      /\ call'[t].failed = call[t].failed
                      /\ call'[t].reply = call[t].reply
  <2>1. call[t].pc \in {"init", "key", "hook", "enter", "try"}
    BY <1>3 DEF InitMemory, CreateKey, SetHook, EnterContext, BeginTry
  <2>2. CASE UNCHANGED call
    BY <2>2 DEF CallInv
  <2>3. CASE ~UNCHANGED call
    <3>1. /\ call'[t].pc \in {"key", "hook", "enter", "try", "body"}
          /\ Same
      <4>1. CASE InitMemory(t) \/ CreateKey(t) \/ SetHook(t) \/ BeginTry(t)
        <5>1. PICK label \in {"key", "hook", "enter", "body"} :
                call' = [call EXCEPT ![t].pc = label]
          BY <2>3, <4>1 DEF InitMemory, CreateKey, SetHook, BeginTry
        <5>. QED
          BY <1>0, <5>1 DEF CallType
      <4>2. CASE EnterContext(t)
        <5>1. PICK c : call' = [call EXCEPT ![t].ctx = c, ![t].pc = "try"]
          BY <2>3, <4>2 DEF EnterContext
        <5>. QED
          BY <1>0, <5>1 DEF CallType
      <4>. QED
        BY <1>3, <4>1, <4>2
    <3>. QED
      BY <2>1, <3>1 DEF CallInv
  <2>. QED
    BY <2>2, <2>3
<1>4. CASE BodySucceeds(t)
  <2>1. /\ call'[t].pc = "after" /\ call[t].pc = "body"
        /\ call'[t].kind = call[t].kind /\ call'[t].input = call[t].input
        /\ call'[t].pieces = call[t].pieces \cup Made(call[t].kind)
        /\ call'[t].failed = call[t].failed /\ call'[t].reply = call[t].reply
    BY <1>0, <1>4 DEF BodySucceeds, CallType
  <2>2. Works(call[t].kind, call[t].input, "on")
    BY <1>0, <1>4 DEF BodySucceeds, LocalInv
  <2>. QED
    BY <2>1, <2>2, MadeIsFreed DEF CallInv
<1>5. CASE BodyRaises(t)
  <2>1. CASE UNCHANGED call
    BY <2>1 DEF CallInv
  <2>2. CASE ~UNCHANGED call
    <3>1. PICK lost \in Abandoned(call[t].kind, call[t].input) :
            call' = [call EXCEPT ![t].pc = "catch", ![t].pieces = @ \cup lost]
      BY <1>5, <2>2 DEF BodyRaises
    <3>2. /\ call'[t].pc = "catch" /\ call[t].pc = "body"
          /\ call'[t].kind = call[t].kind /\ call'[t].input = call[t].input
          /\ call'[t].pieces = call[t].pieces \cup lost
          /\ call'[t].failed = call[t].failed /\ call'[t].reply = call[t].reply
      BY <1>0, <1>5, <3>1 DEF BodyRaises, CallType
    <3>3. ~Works(call[t].kind, call[t].input, "on") \/ MayRunOut
      BY <1>0, <1>5 DEF BodyRaises, LocalInv
    <3>. QED
      BY <3>2, <3>3, AbandonedIsLost DEF CallInv
  <2>. QED
    BY <2>1, <2>2
<1>6. CASE BodyJumpsAstray(t)
  BY <1>6 DEF BodyJumpsAstray, CallInv
<1>7. CASE Catch(t)
  <2>1. CASE UNCHANGED call
    BY <2>1 DEF CallInv
  <2>2. CASE ~UNCHANGED call
    <3>1. call' = [call EXCEPT ![t].pc = "after", ![t].failed = TRUE,
                               ![t].pieces = @ \cup {"error"}]
      BY <1>7, <2>2 DEF Catch
    <3>2. /\ call'[t].pc = "after" /\ call[t].pc = "catch"
          /\ call'[t].kind = call[t].kind /\ call'[t].input = call[t].input
          /\ call'[t].pieces = call[t].pieces \cup {"error"}
          /\ call'[t].failed = TRUE /\ call'[t].reply = call[t].reply
      BY <1>0, <1>7, <3>1 DEF Catch, CallType
    <3>. QED
      BY <3>2, MadeIsFreed DEF CallInv
  <2>. QED
    BY <2>1, <2>2
<1>8. CASE After(t)
  <2>1. CASE UNCHANGED call
    BY <2>1 DEF CallInv
  <2>2. CASE ~UNCHANGED call
    <3>. DEFINE new == CASE call[t].kind = "parse" -> {"tree"}
                         [] call[t].kind = "fingerprint" /\ ~call[t].failed -> {"fpstr"}
                         [] OTHER -> {}
    <3>1. call' = [call EXCEPT ![t].pc = "leave", ![t].pieces = @ \cup new]
      BY <1>8, <2>2 DEF After
    <3>2. new \subseteq Freed(call[t].kind)
      BY <1>0, <1>8, MadeIsFreed DEF After, LocalInv
    <3>. HIDE DEF new
    <3>3. /\ call'[t].pc = "leave" /\ call[t].pc = "after"
          /\ call'[t].kind = call[t].kind /\ call'[t].input = call[t].input
          /\ call'[t].pieces = call[t].pieces \cup new
          /\ call'[t].failed = call[t].failed /\ call'[t].reply = call[t].reply
      BY <1>0, <1>8, <3>1 DEF After, CallType
    <3>4. call[t].kind \in Kinds
      BY <3>3 DEF CallInv
    <3>. QED
      BY <3>2, <3>3, <3>4, MadeIsFreed DEF CallInv
  <2>. QED
    BY <2>1, <2>2
<1>9. CASE LeaveContext(t)
  <2>1. /\ call'[t].pc = "reply" /\ call[t].pc = "leave"
        /\ call'[t].kind = call[t].kind /\ call'[t].input = call[t].input
        /\ call'[t].pieces = call[t].pieces
        /\ call'[t].failed = call[t].failed /\ call'[t].reply = call[t].reply
    BY <1>0, <1>9 DEF LeaveContext, CallType
  <2>. QED
    BY <2>1 DEF CallInv
<1>10. CASE Reply(t)
  <2>1. PICK r \in (IF call[t].failed THEN {"error"} ELSE {"ok"})
                   \cup (IF MayRunOut THEN {"error"} ELSE {}) :
          call' = [call EXCEPT ![t] =
            [IdleCall EXCEPT !.pieces = call[t].pieces \ Freed(call[t].kind),
                             !.reply = r]]
    BY <1>10 DEF Reply
  <2>2. /\ call'[t].pc = "idle" /\ call'[t].reply = r /\ call[t].pc = "reply"
        /\ call'[t].pieces = call[t].pieces \ Freed(call[t].kind)
    BY <1>0, <1>10, <2>1 DEF Reply, IdleCall
  <2>3. call'[t].pieces \subseteq call[t].pieces \cap Lost
    BY <2>2 DEF CallInv
  <2>4. call'[t].pieces # {} => r = "error"
    BY <2>1, <2>2, <2>3 DEF CallInv
  <2>. QED
    BY <2>2, <2>3, <2>4 DEF CallInv
<1>11. CASE ThreadExit(t)
  <2>1. call'[t] = [IdleCall EXCEPT !.pc = "gone"]
    BY <1>0, <1>11 DEF ThreadExit
  <2>. QED
    BY <2>1 DEF CallInv, IdleCall
<1>12. CASE ThreadStart(t)
  <2>1. /\ call'[t].pc = "idle" /\ call[t].pc = "gone"
        /\ call'[t].pieces = call[t].pieces /\ call'[t].reply = call[t].reply
    BY <1>0, <1>12 DEF ThreadStart, CallType
  <2>. QED
    BY <2>1 DEF CallInv
<1>. QED
  BY <1>1, <1>2, <1>3, <1>4, <1>5, <1>6, <1>7, <1>8, <1>9, <1>10, <1>11, <1>12
     DEF ThreadStep, LibraryStep

LEMMA CallsInit == Init => CallsInv
<1>. SUFFICES ASSUME Init PROVE CallsInv
  OBVIOUS
<1>1. \A t \in Threads : CallInv(t)
  BY DEF Init, CallInv, IdleCall
<1>. QED
  BY <1>1, LocalsInit DEF CallsInv

LEMMA CallsNext == CallsInv /\ [Next]_vars => CallsInv'
<1>. SUFFICES ASSUME CallsInv, [Next]_vars PROVE CallsInv'
  OBVIOUS
<1>1. LocalsInv'
  BY LocalsNext DEF CallsInv
<1>2. CASE UNCHANGED vars
  BY <1>1, <1>2 DEF vars, CallsInv, CallInv
<1>3. ASSUME NEW t \in Threads, ThreadStep(t) PROVE CallsInv'
  <2>1. CallInv(t)'
    BY <1>3, CallStep DEF CallsInv
  <2>2. \A u \in Threads \ {t} : call'[u] = call[u]
    BY <1>3, OthersUntouched DEF CallsInv, LocalsInv
  <2>3. \A u \in Threads \ {t} : CallInv(u)'
    BY <2>2 DEF CallsInv, CallInv
  <2>. QED
    BY <1>1, <2>1, <2>3 DEF CallsInv
<1>. QED
  BY <1>2, <1>3 DEF Next, ThreadStep

(* Between two calls nothing that was malloc'ed for a call is left on the  *)
(* thread, but for what an error in the middle of a deparse or of an out-  *)
(* of-memory scan loses (pg_inspect.c:196-490, pg_query_scan.c:79,          *)
(* pg_query_readfuncs_protobuf.c:150).                                     *)
THEOREM CallsFreeTheirResults == Spec => []ResultsFreed
<1>1. CallsInv => ResultsFreed
  BY DEF CallsInv, CallInv, ResultsFreed, Lost
<1>. QED
  BY <1>1, CallsInit, CallsNext, PTL DEF Spec
-----------------------------------------------------------------------------
(* The steps of NativeCall that the steps of a thread are.                 *)

(* What the refinement mapping makes of the call on a thread. *)
Busy(t) ==
  IF call[t].pc \in {"idle", "gone"} THEN <<>> ELSE <<call[t].kind, call[t].input>>

(* A step that shows no caller anything is a stutter. *)
LEMMA InnerStep ==
  ASSUME NEW t \in Threads,
         \A u \in Threads \ {t} : call'[u] = call[u],
         vm' = vm, Busy(t)' = Busy(t), call'[t].reply = call[t].reply
  PROVE  UNCHANGED Abstract!vars
<1>1. \A u \in Threads : Busy(u)' = Busy(u) /\ call'[u].reply = call[u].reply
  BY DEF Busy
<1>. QED
  BY <1>1 DEF Abstract!vars, Busy

(* The process only goes down in a call, and out of memory. *)
LEMMA DeathStep ==
  ASSUME CallsInv, NEW t \in Threads, ThreadStep(t), vm' # "up"
  PROVE  Abstract!Die
<1>1. vm = "up" /\ MayRunOut /\ call[t].pc \notin {"idle", "gone"} /\ UNCHANGED call
  <2>. USE DEF At, Goto, Die
  <2>1. CASE BodyRaises(t)
    <3>1. LocalInv(t)
      BY DEF CallsInv, LocalsInv
    <3>. QED
      BY <2>1, <3>1, Bounds DEF BodyRaises, LocalInv
  <2>2. CASE InitMemory(t) \/ EnterContext(t) \/ BodyJumpsAstray(t) \/ Catch(t) \/ After(t)
    BY <2>2 DEF InitMemory, EnterContext, BodyJumpsAstray, Catch, After
  <2>. QED
    BY <2>1, <2>2 DEF ThreadStep, LibraryStep, Begin, Refuse, CreateKey, SetHook,
         BeginTry, BodySucceeds, LeaveContext, Reply, ThreadExit, ThreadStart
<1>. QED
  BY <1>1 DEF Abstract!Die

(* A step that begins or ends something is the step of NativeCall that     *)
(* does so: given what becomes of the call on its own thread, the others   *)
(* are as they were.                                                       *)
LEMMA OuterStep ==
  ASSUME NEW t \in Threads,
         \A u \in Threads \ {t} : call'[u] = call[u],
         NEW b, NEW r, b = Busy(t)', r = call'[t].reply
  PROVE  /\ [u \in Threads |-> Busy(u)]' = [[u \in Threads |-> Busy(u)] EXCEPT ![t] = b]
         /\ [u \in Threads |-> call[u].reply]' =
              [[u \in Threads |-> call[u].reply] EXCEPT ![t] = r]
<1>1. \A u \in Threads \ {t} : Busy(u)' = Busy(u)
  BY DEF Busy
<1>. QED
  BY <1>1

LEMMA BeginIsCall ==
  ASSUME CallsInv, NEW t \in Threads, NEW k \in Kinds, NEW i \in Inputs,
         Begin(t, k, i, "on")
  PROVE  Abstract!Call(t, k, i)
<1>1. call \in [Threads -> CallType] /\ call[t].pc = "idle" /\ vm = "up" /\ vm' = vm
  BY DEF CallsInv, LocalsInv, TypeOK, Begin, At
<1>2. \A u \in Threads \ {t} : call'[u] = call[u]
  BY <1>1 DEF Begin
<1>3. /\ call'[t].pc \in {"enter", "init"} /\ call'[t].kind = k /\ call'[t].input = i
      /\ call'[t].reply = "none"
  BY <1>1 DEF Begin, IdleCall
<1>4. Busy(t) = <<>> /\ Busy(t)' = <<k, i>>
  BY <1>1, <1>3 DEF Busy
<1>. QED
  BY <1>1, <1>2, <1>3, <1>4, OuterStep DEF Abstract!Call, Busy

LEMMA RefuseIsRefuse ==
  ASSUME CallsInv, NEW t \in Threads, Refuse(t)
  PROVE  Abstract!Refuse(t)
<1>1. call \in [Threads -> CallType] /\ call[t].pc = "idle" /\ vm = "up" /\ vm' = vm
  BY DEF CallsInv, LocalsInv, TypeOK, Refuse, At
<1>2. \A u \in Threads \ {t} : call'[u] = call[u]
  BY <1>1 DEF Refuse
<1>3. call'[t].pc = "idle" /\ call'[t].reply = "error"
  BY <1>1 DEF Refuse, IdleCall
<1>4. Busy(t) = <<>> /\ \A u \in Threads : Busy(u)' = Busy(u)
  BY <1>1, <1>2, <1>3 DEF Busy
<1>. QED
  BY <1>1, <1>2, <1>3, <1>4, OuterStep DEF Abstract!Refuse, Busy

(* The tag is "ok" exactly when the function can do its work with the      *)
(* default settings, unless memory runs out.                               *)
LEMMA ReplyIsReturn ==
  ASSUME CallsInv, NEW t \in Threads, Reply(t)
  PROVE  Abstract!Return(t)
<1>1. /\ call \in [Threads -> CallType] /\ call[t].pc = "reply"
      /\ vm = "up" /\ vm' = vm /\ CallInv(t)
  BY DEF CallsInv, LocalsInv, TypeOK, Reply, At
<1>2. \A u \in Threads \ {t} : call'[u] = call[u]
  BY <1>1 DEF Reply
<1>. DEFINE k == call[t].kind
            i == call[t].input
<1>3. PICK r \in (IF call[t].failed THEN {"error"} ELSE {"ok"})
                 \cup (IF MayRunOut THEN {"error"} ELSE {}) :
        call' = [call EXCEPT ![t] =
          [IdleCall EXCEPT !.pieces = call[t].pieces \ Freed(call[t].kind), !.reply = r]]
  BY DEF Reply
<1>4. call'[t].pc = "idle" /\ call'[t].reply = r
  BY <1>1, <1>3 DEF IdleCall
<1>5. Busy(t) = <<k, i>> /\ Busy(t)' = <<>>
  BY <1>1, <1>4 DEF Busy
<1>6. k \in Kinds /\ i \in Inputs \ Malformed
  BY <1>1 DEF CallInv
<1>7. \/ r = IF Works(k, i, "on") THEN "ok" ELSE "error"
      \/ MayRunOut /\ r = "error"
  BY <1>1, <1>3 DEF CallInv
<1>8. \/ r = IF i \in [j \in Kinds |-> {m \in Inputs \ Malformed : Works(j, m, "on")}][k]
             THEN "ok" ELSE "error"
      \/ MayRunOut /\ r = "error"
  BY <1>6, <1>7
<1>. HIDE DEF k, i
<1>9. Busy(t)[1] = k /\ Busy(t)[2] = i /\ Busy(t) # <<>>
  BY <1>5
<1>. QED
  BY <1>1, <1>2, <1>4, <1>5, <1>8, <1>9, OuterStep DEF Abstract!Return, Busy

LEMMA ExitIsRetire ==
  ASSUME CallsInv, NEW t \in Threads, ThreadExit(t)
  PROVE  Abstract!Retire(t)
<1>1. call \in [Threads -> CallType] /\ call[t].pc = "idle" /\ vm = "up" /\ vm' = vm
  BY DEF CallsInv, LocalsInv, TypeOK, ThreadExit, At
<1>2. \A u \in Threads \ {t} : call'[u] = call[u]
  BY <1>1 DEF ThreadExit
<1>3. call'[t].pc = "gone" /\ call'[t].reply = "none"
  BY <1>1 DEF ThreadExit, IdleCall
<1>4. Busy(t) = <<>> /\ \A u \in Threads : Busy(u)' = Busy(u)
  BY <1>1, <1>2, <1>3 DEF Busy
<1>. QED
  BY <1>1, <1>2, <1>3, <1>4, OuterStep DEF Abstract!Retire, Busy

LEMMA ContextIsEntered ==
  ASSUME NEW t \in Threads, EnterContext(t), vm' = "up"
  PROVE  \E c : call' = [call EXCEPT ![t].ctx = c, ![t].pc = "try"]
<1>1. PICK c \in IF tls[t].free # {} THEN tls[t].free ELSE Fresh(Contexts \ heap) :
        call' = [call EXCEPT ![t].ctx = c, ![t].pc = "try"]
  BY DEF EnterContext, Die
<1>. QED
  BY <1>1

(* Every other step stays within a call, or starts a thread.               *)
LEMMA OtherIsStutter ==
  ASSUME CallsInv, NEW t \in Threads, vm' = "up",
         \/ InitMemory(t) \/ CreateKey(t) \/ SetHook(t) \/ EnterContext(t) \/ BeginTry(t)
         \/ BodySucceeds(t) \/ BodyRaises(t) \/ BodyJumpsAstray(t) \/ Catch(t) \/ After(t)
         \/ LeaveContext(t) \/ ThreadStart(t)
  PROVE  UNCHANGED Abstract!vars
<1>1. call \in [Threads -> CallType] /\ vm = "up" /\ ThreadStep(t)
  BY DEF CallsInv, LocalsInv, TypeOK, ThreadStep, LibraryStep, At, InitMemory, CreateKey,
     SetHook, EnterContext, BeginTry, BodySucceeds, BodyRaises, BodyJumpsAstray, Catch,
     After, LeaveContext, ThreadStart
<1>2. \A u \in Threads \ {t} : call'[u] = call[u]
  BY <1>1, OthersUntouched DEF CallsInv, LocalsInv
<1>3. Busy(t)' = Busy(t) /\ call'[t].reply = call[t].reply
  <2>. USE <1>1 DEF At, Goto, Die, CallType, Busy
  <2>1. CASE InitMemory(t) \/ CreateKey(t) \/ SetHook(t) \/ BeginTry(t)
    <3>1. PICK label \in {"key", "hook", "enter", "body"} :
            call' = [call EXCEPT ![t].pc = label]
      BY <2>1 DEF InitMemory, CreateKey, SetHook, BeginTry
    <3>2. call[t].pc \notin {"idle", "gone"}
      BY <2>1 DEF InitMemory, CreateKey, SetHook, BeginTry
    <3>. QED
      BY <3>1, <3>2
  <2>2. CASE EnterContext(t)
    <3>1. PICK c : call' = [call EXCEPT ![t].ctx = c, ![t].pc = "try"]
      BY <2>2, ContextIsEntered
    <3>2. call[t].pc = "enter"
      BY <2>2 DEF EnterContext
    <3>. QED
      BY <3>1, <3>2
  <2>3. CASE BodySucceeds(t) \/ BodyJumpsAstray(t)
    BY <2>3 DEF BodySucceeds, BodyJumpsAstray
  <2>4. CASE BodyRaises(t)
    BY <2>4 DEF BodyRaises
  <2>5. CASE Catch(t)
    BY <2>5 DEF Catch
  <2>6. CASE After(t)
    BY <2>6 DEF After
  <2>7. CASE LeaveContext(t) \/ ThreadStart(t)
    BY <2>7 DEF LeaveContext, ThreadStart
  <2>. QED
    BY <2>1, <2>2, <2>3, <2>4, <2>5, <2>6, <2>7
<1>. QED
  BY <1>1, <1>2, <1>3, InnerStep

LEMMA StepImplements ==
  ASSUME CallsInv, NEW t \in Threads, ThreadStep(t)
  PROVE  [Abstract!Next]_(Abstract!vars)
<1>1. CASE vm' # "up"
  BY <1>1, DeathStep DEF Abstract!Next
<1>2. CASE vm' = "up"
  BY <1>2, BeginIsCall, RefuseIsRefuse, ReplyIsReturn, ExitIsRetire, OtherIsStutter
     DEF ThreadStep, LibraryStep, Abstract!Next
<1>. QED
  BY <1>1, <1>2

(* The native functions answer {:ok, _} or {:error, _} by their argument   *)
(* alone, whatever was called before and on however many threads, and the  *)
(* process goes down only when memory runs out (pg_inspect.c, native.ex).  *)
THEOREM CallPathImplementsNativeCall == Spec => ImplementsNativeCall
<1>1. Init => Abstract!Init
  BY DEF Init, IdleCall, Abstract!Init
<1>2. CallsInv /\ [Next]_vars => [Abstract!Next]_(Abstract!vars)
  <2>1. CallsInv /\ UNCHANGED vars => UNCHANGED Abstract!vars
    BY DEF vars, Abstract!vars
  <2>2. CallsInv /\ Next => [Abstract!Next]_(Abstract!vars)
    BY StepImplements DEF Next, ThreadStep
  <2>. QED
    BY <2>1, <2>2
<1>. QED
  BY <1>1, <1>2, CallsInit, CallsNext, PTL DEF Spec, ImplementsNativeCall, Abstract!Spec
=============================================================================
