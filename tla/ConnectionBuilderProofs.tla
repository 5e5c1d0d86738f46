----------------------- MODULE ConnectionBuilderProofs ----------------------
(***************************************************************************)
(* The safety of ConnectionBuilder for any dispatchers, dispatch bytes,    *)
(* names, timeouts and number of calls.  IInv is inductive; its core is    *)
(* what one registration does to the map of handles (TableAfter) and to    *)
(* the last registrations of the history (LastAfter): the same.            *)
(***************************************************************************)
EXTENDS ConnectionBuilder, SequenceTheorems, TLAPS

-----------------------------------------------------------------------------
(* Maps of handles. *)

LEMMA NoHandles == <<>> \in Tables /\ In(<<>>) = {} /\ DOMAIN <<>> = {}
<1>1. <<>> \in [1 .. 0 -> Dispatchers]
  BY EmptySeq, LenProperties
<1>2. 1 .. 0 = {} /\ {} \in SUBSET Bytes
  OBVIOUS
<1>3. <<>> \in [{} -> Dispatchers]
  BY <1>1, <1>2
<1> QED
  BY <1>2, <1>3 DEF Tables, In

LEMMA TableFacts ==
  ASSUME NEW t \in Tables
  PROVE  /\ DOMAIN t \subseteq Bytes
         /\ \A b \in DOMAIN t : t[b] \in Dispatchers /\ t[b] \in In(t)
         /\ In(t) \subseteq Dispatchers
<1>1. PICK B \in SUBSET Bytes : t \in [B -> Dispatchers]
  BY DEF Tables
<1> QED
  BY <1>1 DEF In

(* register_dispatcher puts d under its byte: it takes the place of the    *)
(* one dispatcher of that byte, if there is one, and of no other.          *)
WithHandle(t, d) ==
  [b \in DOMAIN t \cup {byte[d]} |-> IF b = byte[d] THEN d ELSE t[b]]

LEMMA TableAfter ==
  ASSUME NEW t \in Tables, NEW d \in Dispatchers, byte[d] \in Bytes,
         \A b \in DOMAIN t : byte[t[b]] = b
  PROVE  LET u == WithHandle(t, d) IN
         /\ u \in Tables
         /\ In(u) = {x \in In(t) : byte[x] # byte[d]} \cup {d}
         /\ \A b \in DOMAIN u : byte[u[b]] = b
         /\ {t[b] : b \in DOMAIN t \cap {byte[d]}} = {x \in In(t) : byte[x] = byte[d]}
<1> DEFINE u == WithHandle(t, d)
           B == DOMAIN t \cup {byte[d]}
<1>1. B \in SUBSET Bytes /\ u \in [B -> Dispatchers] /\ DOMAIN u = B
  BY TableFacts DEF WithHandle
<1>2. u \in Tables
  BY <1>1 DEF Tables
<1>3. \A b \in B : u[b] = IF b = byte[d] THEN d ELSE t[b]
  BY DEF WithHandle
<1>4. In(u) = {x \in In(t) : byte[x] # byte[d]} \cup {d}
  <2>1. \A x : x \in In(u) <=> \E b \in B : u[b] = x
    BY <1>1 DEF In
  <2>2. \A x : x \in In(t) <=> \E b \in DOMAIN t : t[b] = x
    BY DEF In
  <2>3. ASSUME NEW x
        PROVE  x \in In(u) <=> (x \in In(t) /\ byte[x] # byte[d]) \/ x = d
    BY <1>3, <2>1, <2>2
  <2> QED
    BY <2>3
<1>5. \A b \in DOMAIN u : byte[u[b]] = b
  BY <1>1, <1>3
<1>6. {t[b] : b \in DOMAIN t \cap {byte[d]}} = {x \in In(t) : byte[x] = byte[d]}
  BY DEF In
<1> QED
  BY <1>2, <1>4, <1>5, <1>6

(* One more registration does the same to the last ones of each byte.      *)
LEMMA LastAfter ==
  ASSUME NEW r \in Seq(Dispatchers), NEW d \in Dispatchers
  PROVE  LastOfByte(Append(r, d)) =
           {x \in LastOfByte(r) : byte[x] # byte[d]} \cup {d}
<1> DEFINE q == Append(r, d)
           n == Len(r)
<1>1. /\ n \in Nat /\ Len(q) = n + 1 /\ q[n + 1] = d
      /\ \A i \in 1 .. n : q[i] = r[i]
  OBVIOUS
<1> DEFINE L(s, k) == \A j \in k + 1 .. Len(s) : byte[s[j]] # byte[s[k]]
<1>2. \A s, x : x \in LastOfByte(s) <=> \E k \in 1 .. Len(s) : L(s, k) /\ s[k] = x
  BY DEF LastOfByte
<1>3. L(q, n + 1)
  BY <1>1
<1>4. \A k \in 1 .. n : L(q, k) <=> L(r, k) /\ byte[d] # byte[r[k]]
  <2> SUFFICES ASSUME NEW k \in 1 .. n
               PROVE  L(q, k) <=> L(r, k) /\ byte[d] # byte[r[k]]
    OBVIOUS
  <2>1. k + 1 .. Len(q) = (k + 1 .. n) \cup {n + 1}
    BY <1>1
  <2>2. q[k] = r[k] /\ q[n + 1] = d /\ \A j \in k + 1 .. n : q[j] = r[j]
    BY <1>1
  <2> QED
    BY <2>1, <2>2
<1>5. 1 .. Len(q) = (1 .. n) \cup {n + 1}
  BY <1>1
<1> HIDE DEF L, q
<1>6. ASSUME NEW x
      PROVE  x \in LastOfByte(q)
               <=> (x \in LastOfByte(r) /\ byte[x] # byte[d]) \/ x = d
  BY <1>1, <1>2, <1>3, <1>4, <1>5
<1> QED
  BY <1>6 DEF q
-----------------------------------------------------------------------------
(* The steps. *)

LEMMA InitIInv == Init => IInv
<1> SUFFICES ASSUME Init
             PROVE  IInv
  OBVIOUS
<1>1. <<>> \in Seq(Dispatchers) /\ <<>> \in Seq(Timeouts)
  BY EmptySeq
<1>2. TypeOK
  BY NoHandles DEF Init, TypeOK
<1> QED
  BY <1>1, <1>2
     DEF Init, IInv, NothingKept, BuiltAsTold, StartedAsConfigured

(* What with_transport is given fits the string, before any other call.    *)
LEMMA BuildFits ==
  ASSUME NEW s \in Strings, NEW t \in Build(s)
  PROVE  t \in Transports /\ Fits(t, <<>>, Wanted(s, <<>>, <<>>))
<1>1. /\ t \in Transports /\ t.scheme = s.scheme /\ t.name = s.name
      /\ t.timeout = Default
  BY DEF Build, SFTransports, SerialTransports, Malformed, Strings
<1>2. LastOfByte(<<>>) = {}
  BY EmptySeq DEF LastOfByte
<1> QED
  BY <1>1, <1>2, NoHandles DEF Fits, Wanted

LEMMA WithConnectionStringStep ==
  ASSUME IInv, NEW s \in Strings, WithConnectionString(s)
  PROVE  IInv'
<1> USE DEF WithConnectionString, running
<1>1. table = <<>> /\ table' = <<>>
  BY DEF IInv, NothingKept
<1>2. builder' \in Transports /\ Fits(builder', <<>>, Wanted(s, <<>>, <<>>))
  BY BuildFits
<1>3. TypeOK'
  BY <1>1, <1>2 DEF IInv, TypeOK
<1>4. NothingKept'
  BY <1>1, <1>2, NoneAssumption, EmptySeq DEF IInv, NothingKept
<1>5. BuiltAsTold'
  BY <1>1, <1>2 DEF BuiltAsTold, Fits, Wanted, LastOfByte
<1>6. StartedAsConfigured'
  BY DEF IInv, StartedAsConfigured, Fits, Wanted, LastOfByte
<1> QED
  BY <1>3, <1>4, <1>5, <1>6 DEF IInv

LEMMA RegisterStep ==
  ASSUME IInv, NEW d \in Dispatchers, Register(d)
  PROVE  IInv'
<1> DEFINE replaced == {x \in In(table) : byte[x] = byte[d]}
<1>1. /\ builder # None /\ place[d] = "own" /\ byte' = byte
      /\ builder' = builder /\ UNCHANGED <<thread, running, string, times>>
      /\ regs' = Append(regs, d) /\ caller' = caller
  BY DEF Register
<1>2. /\ table \in Tables /\ byte[d] \in Bytes /\ regs \in Seq(Dispatchers)
      /\ \A b \in DOMAIN table : byte[table[b]] = b
      /\ In(table) = LastOfByte(regs)
  BY <1>1 DEF IInv, TypeOK, NothingKept, BuiltAsTold, Fits, Wanted
<1>3. /\ table' = WithHandle(table, d) /\ table' \in Tables
      /\ In(table') = {x \in In(table) : byte[x] # byte[d]} \cup {d}
      /\ \A b \in DOMAIN table' : byte[table'[b]] = b
      /\ {table[b] : b \in DOMAIN table \cap {byte[d]}} = replaced
  BY <1>2, TableAfter DEF Register, WithHandle
<1>4. place' = [Move(replaced, "dropped") EXCEPT ![d] = "builder"]
  BY <1>3 DEF Register
<1>5. d \notin In(table) /\ d \notin In(connTable)
  BY <1>1 DEF IInv, TypeOK
<1>6. \A e \in Dispatchers :
        place'[e] = IF e = d THEN "builder"
                    ELSE IF e \in replaced THEN "dropped" ELSE place[e]
  BY <1>4 DEF Move
<1>7. TypeOK'
  <2>1. \A e \in Dispatchers : /\ place'[e] = "builder" <=> e \in In(table')
                               /\ place'[e] = "connection" <=> e \in In(connTable)
    <3>1. \A e \in Dispatchers : /\ place[e] = "builder" <=> e \in In(table)
                                 /\ place[e] = "connection" <=> e \in In(connTable)
      BY DEF IInv, TypeOK
    <3> QED
      BY <1>3, <1>5, <1>6, <3>1
  <2>2. place' \in [Dispatchers ->
                      {"own", "builder", "connection", "stopped", "dropped",
                       "orphaned", "gone"}]
    BY <1>4 DEF IInv, TypeOK, Move
  <2> QED
    BY <1>1, <1>3, <2>1, <2>2 DEF IInv, TypeOK, running
<1>8. NothingKept'
  BY <1>1, <1>2 DEF IInv, NothingKept, running
<1>9. BuiltAsTold'
  <2>1. In(table') = LastOfByte(regs')
    BY <1>1, <1>2, <1>3, LastAfter
  <2>2. LastOfByte(regs)' = LastOfByte(regs')
    BY <1>1 DEF LastOfByte
  <2> QED
    BY <1>1, <1>3, <2>1, <2>2 DEF IInv, BuiltAsTold, Fits, Wanted
<1>10. StartedAsConfigured'
  BY <1>1 DEF IInv, StartedAsConfigured, Fits, Wanted, LastOfByte, running
<1> QED
  BY <1>7, <1>8, <1>9, <1>10 DEF IInv

LEMMA ReconnectTimeoutStep ==
  ASSUME IInv, NEW t \in Timeouts, ReconnectTimeout(t)
  PROVE  IInv'
<1> USE DEF ReconnectTimeout, running
<1>1. /\ builder # None /\ builder \in Transports /\ times \in Seq(Timeouts)
      /\ builder' = [builder EXCEPT !.timeout = t] /\ times' = Append(times, t)
  BY DEF IInv, TypeOK, NothingKept
<1>2. /\ builder' \in Transports /\ builder'.scheme = builder.scheme
      /\ builder'.name = builder.name /\ builder'.timeout = t
  BY <1>1 DEF Transports
<1>3. times' \in Seq(Timeouts) /\ times' # <<>> /\ times'[Len(times')] = t
  BY <1>1
<1>4. TypeOK' /\ NothingKept'
  BY <1>2, <1>3, NoneAssumption DEF IInv, TypeOK, NothingKept
<1>5. BuiltAsTold'
  <2>1. UNCHANGED <<byte, table, string, regs>>
    OBVIOUS
  <2>2. Fits(builder, table, Wanted(string, regs, times))
    BY <1>1 DEF IInv, BuiltAsTold
  <2>r. LastOfByte(regs)' = LastOfByte(regs)
    BY <2>1 DEF LastOfByte
  <2>3. /\ \A f \in {"scheme", "name", "dispatchers"} :
             Wanted(string, regs, times)'[f] = Wanted(string, regs, times)[f]
        /\ Wanted(string, regs, times)'.timeout = t
    BY <1>3, <2>1, <2>r DEF Wanted
  <2> HIDE DEF ReconnectTimeout
  <2> QED
    BY <1>2, <2>1, <2>2, <2>3 DEF BuiltAsTold, Fits, Wanted
<1>6. StartedAsConfigured'
  BY DEF IInv, StartedAsConfigured, Fits, Wanted, LastOfByte
<1> QED
  BY <1>4, <1>5, <1>6 DEF IInv

LEMMA StartStep == ASSUME IInv, Start PROVE IInv'
<1> USE DEF Start, Forget
<1>1. connTable = <<>> /\ In(table) \subseteq Dispatchers
  BY TableFacts DEF IInv, TypeOK, NothingKept
<1>2. \A d \in Dispatchers :
        place'[d] = IF d \in In(table) THEN "connection" ELSE place[d]
  BY DEF Move
<1>3. TypeOK'
  BY <1>1, <1>2, NoHandles DEF IInv, TypeOK, Move
<1>4. NothingKept'
  BY EmptySeq DEF IInv, NothingKept
<1>5. BuiltAsTold'
  BY DEF BuiltAsTold
<1>6. StartedAsConfigured'
  BY DEF IInv, BuiltAsTold, StartedAsConfigured, Fits, Wanted, LastOfByte
<1> QED
  BY <1>3, <1>4, <1>5, <1>6 DEF IInv

(* What drops handles: the builder, the connection, or all that the caller *)
(* owns.                                                                   *)
LEMMA DropBuilderStep == ASSUME IInv, DropBuilder PROVE IInv'
<1> USE DEF DropBuilder, Forget, running
<1>1. \A d \in Dispatchers :
        place'[d] = IF d \in In(table) THEN "dropped" ELSE place[d]
  BY DEF Move
<1>2. TypeOK'
  BY <1>1, NoHandles DEF IInv, TypeOK, Move
<1>3. NothingKept' /\ BuiltAsTold'
  BY EmptySeq DEF IInv, NothingKept, BuiltAsTold
<1>4. StartedAsConfigured'
  BY DEF IInv, StartedAsConfigured, Fits, Wanted, LastOfByte
<1> QED
  BY <1>2, <1>3, <1>4 DEF IInv

LEMMA ConnectionEnds ==
  ASSUME IInv, StopConnection \/ DropConnection
  PROVE  IInv'
<1> USE DEF building, asked
<1>1. PICK to \in {"stopped", "orphaned"} : place' = Move(In(connTable), to)
  BY DEF StopConnection, DropConnection
<1>2. /\ conn' = None /\ connTable' = <<>>
      /\ UNCHANGED <<byte, building, caller, asked>>
  BY DEF StopConnection, DropConnection
<1>3. \A d \in Dispatchers :
        place'[d] = IF d \in In(connTable) THEN to ELSE place[d]
  BY <1>1 DEF Move
<1>4. /\ thread' \in [AMs -> {"running", "ended", "panicked"}]
      /\ \A d \in AMs : thread'[d] = thread[d] \/ d \in In(connTable)
  BY DEF IInv, TypeOK, StopConnection, DropConnection
<1>5. TypeOK'
  BY <1>1, <1>2, <1>3, <1>4, NoHandles DEF IInv, TypeOK, Move
<1>6. NothingKept' /\ BuiltAsTold' /\ StartedAsConfigured'
  BY <1>2 DEF IInv, NothingKept, BuiltAsTold, StartedAsConfigured, Fits, Wanted, LastOfByte
<1> QED
  BY <1>5, <1>6 DEF IInv

LEMMA PanicStep == ASSUME IInv, Panic PROVE IInv'
<1> USE DEF Panic, Forget
<1>1. \A d \in Dispatchers :
        place'[d] = IF place[d] = "stopped" THEN "stopped"
                    ELSE IF place[d] \in {"connection", "orphaned"} THEN "orphaned"
                    ELSE "dropped"
  OBVIOUS
<1>2. TypeOK'
  BY <1>1, NoHandles DEF IInv, TypeOK, Move
<1>3. NothingKept' /\ BuiltAsTold' /\ StartedAsConfigured'
  BY EmptySeq DEF IInv, NothingKept, BuiltAsTold, StartedAsConfigured
<1> QED
  BY <1>2, <1>3 DEF IInv

LEMMA DropDispatcherStep ==
  ASSUME IInv, NEW d \in Dispatchers, DropDispatcher(d)
  PROVE  IInv'
<1> USE DEF DropDispatcher, building, running, asked
<1>1. \A e \in Dispatchers : place'[e] = IF e = d THEN "gone" ELSE place[e]
  BY DEF Move
<1>2. TypeOK'
  BY <1>1 DEF IInv, TypeOK, Move
<1>3. NothingKept' /\ BuiltAsTold' /\ StartedAsConfigured'
  BY DEF IInv, NothingKept, BuiltAsTold, StartedAsConfigured, Fits, Wanted, LastOfByte
<1> QED
  BY <1>2, <1>3 DEF IInv

LEMMA ThreadEndsStep ==
  ASSUME IInv, NEW d \in AMs, ThreadEnds(d) \/ ThreadPanics(d)
  PROVE  IInv'
<1> USE DEF building, running, asked
<1>0. PICK end \in {"ended", "panicked"} : thread' = [thread EXCEPT ![d] = end]
  BY DEF ThreadEnds, ThreadPanics
<1>u. UNCHANGED <<byte, place, building, running, caller, asked>>
  BY DEF ThreadEnds, ThreadPanics
<1>1. TypeOK'
  BY <1>0, <1>u DEF IInv, TypeOK
<1>2. NothingKept' /\ BuiltAsTold' /\ StartedAsConfigured'
  BY <1>u DEF IInv, NothingKept, BuiltAsTold, StartedAsConfigured, Fits, Wanted, LastOfByte
<1> QED
  BY <1>1, <1>2 DEF IInv

-----------------------------------------------------------------------------
(* The types, and: the map of handles is the last registration of each     *)
(* dispatch byte, in every state of every builder.                         *)
THEOREM Invariance == Spec => []IInv
<1>1. ASSUME IInv, [Next]_vars
      PROVE  IInv'
  <2>1. ASSUME NEW s \in Strings, WithConnectionString(s) \/ EnumerationPanics(s)
        PROVE  IInv'
    BY <1>1, <2>1, WithConnectionStringStep, PanicStep DEF EnumerationPanics
  <2>2. ASSUME NEW d \in Dispatchers,
               Register(d) \/ RegisterPanics(d) \/ DropDispatcher(d)
        PROVE  IInv'
    BY <1>1, <2>2, RegisterStep, PanicStep, DropDispatcherStep DEF RegisterPanics
  <2>3. ASSUME NEW t \in Timeouts, ReconnectTimeout(t)
        PROVE  IInv'
    BY <1>1, <2>3, ReconnectTimeoutStep
  <2>4. CASE Start \/ DropBuilder \/ StopConnection \/ DropConnection
    BY <1>1, <2>4, StartStep, DropBuilderStep, ConnectionEnds
  <2>5. ASSUME NEW d \in AMs, ThreadEnds(d) \/ ThreadPanics(d)
        PROVE  IInv'
    BY <1>1, <2>5, ThreadEndsStep
  <2>6. CASE UNCHANGED vars
    BY <1>1, <2>6 DEF vars, building, running, asked, IInv, TypeOK, NothingKept,
                      BuiltAsTold, StartedAsConfigured, Fits, Wanted, LastOfByte
  <2> QED
    BY <1>1, <2>1, <2>2, <2>3, <2>4, <2>5, <2>6 DEF Next
<1>2. IInv /\ [Next]_vars => IInv'
  BY <1>1
<1> QED
  BY <1>2, InitIInv, PTL DEF Spec

(* A connection runs as its builder was told, through any order of calls   *)
(* and builders.                                                           *)
THEOREM RunsAsConfigured == Spec => []StartedAsConfigured
<1>1. IInv => StartedAsConfigured
  BY DEF IInv
<1> QED
  BY <1>1, Invariance, PTL
=============================================================================
