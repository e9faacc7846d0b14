--------------------------- MODULE GuardrailsProofs ---------------------------
(***************************************************************************)
(* Proofs about query_guard.py for every set of users, quota, window and   *)
(* length of run.  The limiter keeps only the calls it may still need; the *)
(* inductive invariant ties that window to the history of all admitted     *)
(* calls: the window is the history's end, the history is in time order,   *)
(* and whatever has left the window is older than WINDOW.                  *)
(***************************************************************************)
EXTENDS Guardrails, AccessPolicyProofs, FiniteSetTheorems

(* The invariant for one user: window W, history A, time t. *)
WindowEndsHistory(W, A) ==
    /\ Len(W) <= Len(A)
    /\ \A i \in 1 .. Len(W) : W[i] = A[Len(A) - Len(W) + i]

InTimeOrder(A, t) ==
    /\ \A i \in 1 .. Len(A) : A[i] <= t
    /\ \A i, j \in 1 .. Len(A) : i <= j => A[i] <= A[j]

EvictedIsOld(W, A, t) == \A i \in 1 .. Len(A) - Len(W) : t - A[i] > WINDOW

Spaced(A) ==
    \A i \in 1 .. Len(A) : i + RATE_LIMIT_RPM <= Len(A) =>
        A[i + RATE_LIMIT_RPM] - A[i] > WINDOW

UserInv(W, A, t) ==
    /\ Len(W) <= RATE_LIMIT_RPM
    /\ WindowEndsHistory(W, A)
    /\ InTimeOrder(A, t)
    /\ EvictedIsOld(W, A, t)
    /\ Spaced(A)

LimiterInv == \A u \in UserIds : UserInv(_rate_windows[u], admitted[u], now)

IInv == TypeOK /\ LimiterInv

USE RateAssumption

-----------------------------------------------------------------------------
(* What one call of _check_rate_limit does to one user *)

(* Evicting the expired prefix keeps the invariant. *)
LEMMA EvictionKeepsInv ==
    ASSUME NEW W \in Seq(Nat), NEW A \in Seq(Nat), now \in Nat,
           UserInv(W, A, now),
           NEW k \in 0 .. Len(W), ExpiredPrefix(W, k)
    PROVE  /\ SubSeq(W, k + 1, Len(W)) \in Seq(Nat)
           /\ Len(SubSeq(W, k + 1, Len(W))) = Len(W) - k
           /\ UserInv(SubSeq(W, k + 1, Len(W)), A, now)
<1> DEFINE dq == SubSeq(W, k + 1, Len(W))
<1>1. dq \in Seq(Nat) /\ Len(dq) = Len(W) - k
  OBVIOUS
<1>2. \A i \in 1 .. Len(dq) : dq[i] = W[k + i]
  OBVIOUS
<1> HIDE DEF dq
<1>3. WindowEndsHistory(dq, A)
  <2>1. Len(dq) <= Len(A)
    BY <1>1 DEF UserInv, WindowEndsHistory
  <2>2. ASSUME NEW i \in 1 .. Len(dq)
        PROVE  dq[i] = A[Len(A) - Len(dq) + i]
    <3>1. k + i \in 1 .. Len(W) /\ dq[i] = W[k + i]
      BY <1>1, <1>2
    <3>2. W[k + i] = A[Len(A) - Len(W) + (k + i)]
      BY <3>1 DEF UserInv, WindowEndsHistory
    <3>3. Len(A) - Len(W) + (k + i) = Len(A) - Len(dq) + i
      BY <1>1
    <3> QED BY <3>1, <3>2, <3>3
  <2> QED BY <2>1, <2>2 DEF WindowEndsHistory
<1>4. EvictedIsOld(dq, A, now)
  <2> SUFFICES ASSUME NEW i \in 1 .. Len(A) - Len(dq)
               PROVE  now - A[i] > WINDOW
    BY DEF EvictedIsOld
  <2>1. CASE i <= Len(A) - Len(W)
    BY <2>1 DEF UserInv, EvictedIsOld
  <2>2. CASE i > Len(A) - Len(W)
    <3> DEFINE j == i - (Len(A) - Len(W))
    <3>1. j \in 1 .. k /\ j \in 1 .. Len(W) /\ Len(A) - Len(W) + j = i
      <4>1. Len(A) \in Nat /\ Len(W) \in Nat /\ k \in Nat /\ k <= Len(W)
        OBVIOUS
      <4>2. i \in Nat /\ i <= Len(A) - Len(W) + k
        BY <1>1, <4>1
      <4> QED BY <2>2, <4>1, <4>2
    <3>2. W[j] = A[i]
      BY <3>1 DEF UserInv, WindowEndsHistory
    <3> QED BY <3>1, <3>2 DEF ExpiredPrefix
  <2> QED BY <2>1, <2>2
<1> QED BY <1>1, <1>3, <1>4 DEF UserInv, dq

(* Admitting a call into a window with room keeps it: the call RPM places  *)
(* back, if there is one, has left the window and is therefore old enough. *)
LEMMA AdmissionKeepsInv ==
    ASSUME NEW W \in Seq(Nat), NEW A \in Seq(Nat), now \in Nat,
           UserInv(W, A, now), Len(W) < RATE_LIMIT_RPM
    PROVE  UserInv(Append(W, now), Append(A, now), now)
<1> DEFINE V == Append(W, now)
           B == Append(A, now)
<1>1. /\ V \in Seq(Nat) /\ Len(V) = Len(W) + 1 /\ V[Len(W) + 1] = now
      /\ \A i \in 1 .. Len(W) : V[i] = W[i]
  OBVIOUS
<1>2. /\ B \in Seq(Nat) /\ Len(B) = Len(A) + 1 /\ B[Len(A) + 1] = now
      /\ \A i \in 1 .. Len(A) : B[i] = A[i] /\ A[i] \in Nat
  OBVIOUS
<1> HIDE DEF V, B
<1>3. WindowEndsHistory(V, B)
  <2>1. Len(V) <= Len(B)
    BY <1>1, <1>2 DEF UserInv, WindowEndsHistory
  <2>2. ASSUME NEW i \in 1 .. Len(V)
        PROVE  V[i] = B[Len(B) - Len(V) + i]
    <3>1. Len(B) - Len(V) = Len(A) - Len(W)
      BY <1>1, <1>2
    <3>2. CASE i = Len(W) + 1
      BY <1>1, <1>2, <3>1, <3>2
    <3>3. CASE i \in 1 .. Len(W)
      <4>1. W[i] = A[Len(A) - Len(W) + i] /\ Len(A) - Len(W) + i \in 1 .. Len(A)
        BY <3>3 DEF UserInv, WindowEndsHistory
      <4> QED BY <1>1, <1>2, <3>1, <3>3, <4>1
    <3> QED BY <1>1, <3>2, <3>3
  <2> QED BY <2>1, <2>2 DEF WindowEndsHistory
<1>4. InTimeOrder(B, now)
  <2>1. \A i \in 1 .. Len(B) : i \in 1 .. Len(A) \/ i = Len(A) + 1
    BY <1>2
  <2>2. /\ \A i \in 1 .. Len(A) : B[i] <= now
        /\ \A i, j \in 1 .. Len(A) : i <= j => B[i] <= B[j]
    BY <1>2 DEF UserInv, InTimeOrder
  <2>3. \A i \in 1 .. Len(B) : B[i] <= now
    BY <1>2, <2>1, <2>2
  <2>4. ASSUME NEW i \in 1 .. Len(B), NEW j \in 1 .. Len(B), i <= j
        PROVE  B[i] <= B[j]
    <3>1. CASE j = Len(A) + 1
      BY <1>2, <2>3, <3>1
    <3>2. CASE j \in 1 .. Len(A)
      <4>1. i \in 1 .. Len(A)
        BY <2>4, <3>2
      <4> QED BY <2>2, <2>4, <3>2, <4>1
    <3> QED BY <2>1, <3>1, <3>2
  <2> QED BY <2>3, <2>4 DEF InTimeOrder
<1>5. EvictedIsOld(V, B, now)
  <2>1. Len(B) - Len(V) = Len(A) - Len(W)
    BY <1>1, <1>2
  <2>2. \A i \in 1 .. Len(A) - Len(W) : i \in 1 .. Len(A)
    OBVIOUS
  <2>3. \A i \in 1 .. Len(A) - Len(W) : now - A[i] > WINDOW
    BY DEF UserInv, EvictedIsOld
  <2> QED BY <1>2, <2>1, <2>2, <2>3 DEF EvictedIsOld
<1>6. Spaced(B)
  <2> SUFFICES ASSUME NEW i \in 1 .. Len(B), i + RATE_LIMIT_RPM <= Len(B)
               PROVE  B[i + RATE_LIMIT_RPM] - B[i] > WINDOW
    BY DEF Spaced
  <2>1. CASE i + RATE_LIMIT_RPM = Len(B)
    <3>1. i \in 1 .. Len(A) - Len(W)
      <4>1. i + RATE_LIMIT_RPM = Len(A) + 1 /\ Len(W) \in Nat /\ i \in Nat /\ i >= 1
        BY <1>2, <2>1
      <4> QED BY <4>1
    <3>2. now - A[i] > WINDOW
      BY <3>1 DEF UserInv, EvictedIsOld
    <3>3. i \in 1 .. Len(A)
      BY <3>1 DEF UserInv, WindowEndsHistory
    <3> QED BY <1>2, <2>1, <3>2, <3>3
  <2>2. CASE i + RATE_LIMIT_RPM < Len(B)
    <3>1. i \in 1 .. Len(A) /\ i + RATE_LIMIT_RPM \in 1 .. Len(A)
      <4>1. Len(A) \in Nat /\ i \in Nat /\ i >= 1 /\ i + RATE_LIMIT_RPM < Len(A) + 1
        BY <1>2, <2>2
      <4> QED BY <4>1
    <3>2. A[i + RATE_LIMIT_RPM] - A[i] > WINDOW
      BY <3>1 DEF UserInv, Spaced
    <3> QED BY <1>2, <3>1, <3>2
  <2>3. Len(B) \in Nat /\ i + RATE_LIMIT_RPM \in Nat
    BY <1>2
  <2> QED BY <2>1, <2>2, <2>3
<1>7. Len(V) <= RATE_LIMIT_RPM
  BY <1>1
<1> QED BY <1>3, <1>4, <1>5, <1>6, <1>7 DEF UserInv, V, B

(* One call of the limiter, whatever its outcome, keeps every user's       *)
(* invariant and the type of the histories.                                *)
LEMMA CallKeepsInv ==
    ASSUME IInv, NEW u \in UserIds, NEW admit \in BOOLEAN, _check_rate_limit(u, admit),
           now' = now
    PROVE  IInv'
<1>1. PICK k \in 0 .. Len(_rate_windows[u]) :
        /\ ExpiredPrefix(_rate_windows[u], k)
        /\ LET dq == SubSeq(_rate_windows[u], k + 1, Len(_rate_windows[u])) IN
           /\ admit = (Len(dq) < RATE_LIMIT_RPM)
           /\ _rate_windows' = [_rate_windows EXCEPT ![u] =
                                   IF admit THEN Append(dq, now) ELSE dq]
           /\ admitted' = [admitted EXCEPT ![u] =
                                   IF admit THEN Append(@, now) ELSE @]
  BY DEF _check_rate_limit, LimiterCall
<1> DEFINE W == _rate_windows[u]
           A == admitted[u]
           dq == SubSeq(W, k + 1, Len(W))
           V == IF admit THEN Append(dq, now) ELSE dq
           B == IF admit THEN Append(A, now) ELSE A
<1>2. W \in Seq(Nat) /\ A \in Seq(Nat) /\ now \in Nat /\ UserInv(W, A, now)
  BY DEF IInv, TypeOK, LimiterInv
<1>3. dq \in Seq(Nat) /\ UserInv(dq, A, now)
  BY <1>1, <1>2, EvictionKeepsInv
<1>4. /\ admit => Len(dq) < RATE_LIMIT_RPM
      /\ _rate_windows' = [_rate_windows EXCEPT ![u] = V]
      /\ admitted' = [admitted EXCEPT ![u] = B]
  BY <1>1
<1>5. V \in Seq(Nat) /\ B \in Seq(Nat) /\ UserInv(V, B, now)
  <2>1. CASE admit
    <3>1. UserInv(Append(dq, now), Append(A, now), now)
      <4> HIDE DEF dq, A, V, B
      <4> QED BY <1>2, <1>3, <1>4, <2>1, AdmissionKeepsInv
    <3>2. Append(dq, now) \in Seq(Nat) /\ Append(A, now) \in Seq(Nat)
      <4> HIDE DEF dq, A, V, B
      <4> QED BY <1>2, <1>3
    <3>3. V = Append(dq, now) /\ B = Append(A, now)
      BY <2>1
    <3> QED BY <3>1, <3>2, <3>3
  <2>2. CASE ~admit
    BY <1>2, <1>3, <2>2
  <2> QED BY <2>1, <2>2
<1> HIDE DEF V, B, dq, W, A
<1>6. TypeOK'
  BY <1>4, <1>5 DEF IInv, TypeOK
<1>7. ASSUME NEW x \in UserIds
      PROVE  UserInv(_rate_windows'[x], admitted'[x], now')
  <2>1. CASE x = u
    BY <1>4, <1>5, <2>1 DEF IInv, TypeOK
  <2>2. CASE x # u
    <3>1. _rate_windows'[x] = _rate_windows[x] /\ admitted'[x] = admitted[x]
      BY <1>4, <2>2 DEF IInv, TypeOK
    <3> QED BY <3>1 DEF IInv, LimiterInv
  <2> QED BY <2>1, <2>2
<1> QED BY <1>6, <1>7 DEF IInv, LimiterInv

(* A start, with empty windows and an empty history, satisfies it.         *)
LEMMA EmptyInv == ASSUME NEW t \in Nat PROVE UserInv(<<>>, <<>>, t)
  BY DEF UserInv, WindowEndsHistory, InTimeOrder, EvictedIsOld, Spaced

(* Time passing only makes old calls older. *)
LEMMA TimeKeepsInv ==
    ASSUME NEW W \in Seq(Nat), NEW A \in Seq(Nat), NEW t \in Nat, UserInv(W, A, t)
    PROVE  UserInv(W, A, t + 1)
<1>1. \A i \in 1 .. Len(A) : A[i] \in Nat
  OBVIOUS
<1>2. InTimeOrder(A, t + 1)
  BY <1>1 DEF UserInv, InTimeOrder
<1>3. EvictedIsOld(W, A, t + 1)
  <2> SUFFICES ASSUME NEW i \in 1 .. Len(A) - Len(W)
               PROVE  t + 1 - A[i] > WINDOW
    BY DEF EvictedIsOld
  <2>1. i \in 1 .. Len(A)
    BY DEF UserInv, WindowEndsHistory
  <2>2. t - A[i] > WINDOW
    BY DEF UserInv, EvictedIsOld
  <2> QED BY <1>1, <2>1, <2>2
<1> QED BY <1>2, <1>3 DEF UserInv

-----------------------------------------------------------------------------
LEMMA InitInv == Init => IInv
<1> SUFFICES ASSUME Init PROVE IInv
  OBVIOUS
<1>1. TypeOK
  BY DEF Init, TypeOK
<1>2. LimiterInv
  BY EmptyInv DEF Init, LimiterInv
<1> QED BY <1>1, <1>2 DEF IInv

LEMMA NextInv == IInv /\ [Next]_vars => IInv'
<1> SUFFICES ASSUME IInv, [Next]_vars PROVE IInv'
  OBVIOUS
<1>1. ASSUME NEW u \in UserIds, Validate(u) PROVE IInv'
  <2>1. PICK roles \in RoleSets, q \in Queries, verdict \in Verdicts :
          validate_and_rewrite(u, roles, q, verdict) /\ now' = now
    BY <1>1 DEF Validate
  <2>2. \E admit \in BOOLEAN : _check_rate_limit(u, admit)
    BY <2>1 DEF validate_and_rewrite
  <2> QED BY <2>1, <2>2, CallKeepsInv
<1>2. CASE Tick
  <2>1. now' = now + 1 /\ _rate_windows' = _rate_windows /\ admitted' = admitted
    BY <1>2 DEF Tick, limiter
  <2>2. TypeOK'
    BY <2>1 DEF IInv, TypeOK
  <2>3. ASSUME NEW u \in UserIds
        PROVE  UserInv(_rate_windows[u], admitted[u], now + 1)
    BY TimeKeepsInv DEF IInv, TypeOK, LimiterInv
  <2> QED BY <2>1, <2>2, <2>3 DEF IInv, LimiterInv
<1>3. CASE Restart
  <2>1. TypeOK'
    BY <1>3 DEF Restart, IInv, TypeOK
  <2>2. LimiterInv'
    BY <1>3, EmptyInv DEF Restart, IInv, TypeOK, LimiterInv
  <2> QED BY <2>1, <2>2 DEF IInv
<1>4. CASE UNCHANGED vars
  BY <1>4 DEF vars, limiter, IInv, TypeOK, LimiterInv, UserInv, WindowEndsHistory,
              InTimeOrder, EvictedIsOld, Spaced
<1> QED BY <1>1, <1>2, <1>3, <1>4 DEF Next

(* The limiter's bookkeeping is sound in every reachable state.            *)
THEOREM LimiterInvariant == Spec => []IInv
  BY InitInv, NextInv, PTL DEF Spec

(* Windows and histories are sequences of times in every reachable state.  *)
THEOREM TypeCorrect == Spec => []TypeOK
<1>1. IInv => TypeOK
  BY DEF IInv
<1> QED BY <1>1, LimiterInvariant, PTL

(* query_guard.py:50-64 keeps its promise for any quota and any window:    *)
(* of the calls one process admits for a user, no RPM + 1 consecutive ones *)
(* fit in one window.                                                      *)
THEOREM RateBoundHolds == Spec => []RateBound
<1>1. ASSUME IInv PROVE RateBound
  <2> SUFFICES ASSUME NEW u \in UserIds, NEW i \in DOMAIN admitted[u],
                      i + RATE_LIMIT_RPM \in DOMAIN admitted[u]
               PROVE  admitted[u][i + RATE_LIMIT_RPM] - admitted[u][i] > WINDOW
    BY DEF RateBound
  <2>1. admitted[u] \in Seq(Nat) /\ Spaced(admitted[u])
    BY <1>1 DEF IInv, TypeOK, LimiterInv, UserInv
  <2>2. i \in 1 .. Len(admitted[u]) /\ i + RATE_LIMIT_RPM <= Len(admitted[u])
    BY <2>1
  <2> QED BY <2>1, <2>2 DEF Spaced
<1> QED BY <1>1, LimiterInvariant, PTL

(* The limiter forgets nothing it still needs: its window is the recent    *)
(* end of the history and whatever it dropped is older than the window.    *)
THEOREM WindowIsRecentHistoryHolds == Spec => []WindowIsRecentHistory
<1>1. IInv => WindowIsRecentHistory
  BY DEF IInv, LimiterInv, UserInv, WindowEndsHistory, EvictedIsOld, WindowIsRecentHistory
<1> QED BY <1>1, LimiterInvariant, PTL

-----------------------------------------------------------------------------
(* Refusals *)

InWindow(A, t) == {i \in DOMAIN A : t - A[i] <= WINDOW}

(* After eviction the limiter holds exactly the admitted calls in the      *)
(* closed window: their number is its length.                              *)
LEMMA EvictionLeavesRecent ==
    ASSUME NEW W \in Seq(Nat), NEW A \in Seq(Nat), now \in Nat, UserInv(W, A, now),
           NEW k \in 0 .. Len(W), ExpiredPrefix(W, k)
    PROVE  Cardinality(InWindow(A, now)) = Len(SubSeq(W, k + 1, Len(W)))
<1> DEFINE dq == SubSeq(W, k + 1, Len(W))
           low == Len(A) - Len(dq) + 1
<1>1. dq \in Seq(Nat) /\ Len(dq) = Len(W) - k /\ UserInv(dq, A, now)
  BY EvictionKeepsInv
<1>2. Len(dq) \in Nat /\ Len(dq) <= Len(A)
  BY <1>1 DEF UserInv, WindowEndsHistory
<1>3. Len(dq) > 0 => dq[1] = W[k + 1] /\ k < Len(W)
  BY <1>1
<1> HIDE DEF dq
<1>4. /\ Len(A) \in Nat /\ low \in Int /\ low >= 1 /\ Len(A) - low + 1 = Len(dq)
      /\ Len(A) - Len(dq) = low - 1
  BY <1>2
<1>5. \A i \in 1 .. Len(A) : A[i] \in Nat
  OBVIOUS
<1> HIDE DEF low
<1>6. ASSUME NEW i \in 1 .. Len(A), i < low PROVE now - A[i] > WINDOW
  <2>1. i \in 1 .. Len(A) - Len(dq)
    BY <1>4, <1>6
  <2> QED BY <1>1, <2>1 DEF UserInv, EvictedIsOld
<1>7. ASSUME NEW i \in 1 .. Len(A), i >= low PROVE now - A[i] <= WINDOW
  <2>1. 1 <= Len(dq) /\ low \in 1 .. Len(A)
    BY <1>4, <1>7
  <2>2. 1 \in 1 .. Len(dq) /\ Len(A) - Len(dq) + 1 = low
    BY <1>2, <1>4, <2>1
  <2>3. dq[1] = A[low]
    BY <1>1, <2>2 DEF UserInv, WindowEndsHistory
  <2>4. dq[1] = W[k + 1] /\ k < Len(W)
    BY <1>3, <2>2
  <2>5. now - A[low] <= WINDOW
    BY <2>3, <2>4 DEF ExpiredPrefix
  <2>6. A[low] <= A[i]
    BY <1>1, <1>7, <2>1 DEF UserInv, InTimeOrder
  <2>7. A[low] \in Nat /\ A[i] \in Nat
    BY <1>5, <2>1
  <2> QED BY <2>5, <2>6, <2>7
<1>8. InWindow(A, now) = low .. Len(A)
  <2>1. \A i : i \in low .. Len(A) <=> i \in 1 .. Len(A) /\ i >= low
    BY <1>4
  <2>2. ASSUME NEW i \in 1 .. Len(A)
        PROVE  now - A[i] <= WINDOW <=> i >= low
    <3>1. A[i] \in Nat /\ i \in Nat
      BY <1>5
    <3>2. i >= low \/ i < low
      BY <1>4, <3>1
    <3>3. i < low => ~(now - A[i] <= WINDOW)
      BY <1>6, <3>1
    <3> QED BY <1>7, <1>4, <3>1, <3>2, <3>3
  <2> QED BY <2>1, <2>2 DEF InWindow
<1>9. Cardinality(low .. Len(A)) = Len(dq)
  <2>1. Cardinality(low .. Len(A)) = IF low > Len(A) THEN 0 ELSE Len(A) - low + 1
    <3>1. Len(A) \in Int /\ low \in Int
      BY <1>4
    <3> QED BY <3>1, FS_Interval
  <2> QED BY <1>4, <2>1
<1> QED BY <1>8, <1>9 DEF dq

(* What one call of the limiter decides, in terms of all admitted calls.   *)
LEMMA CallDecides ==
    ASSUME IInv, NEW u \in UserIds, NEW admit \in BOOLEAN, _check_rate_limit(u, admit)
    PROVE  /\ admit <=> Cardinality(InWindow(admitted[u], now)) < RATE_LIMIT_RPM
           /\ Cardinality(InWindow(admitted[u], now)) <= RATE_LIMIT_RPM
           /\ admitted' = IF admit THEN [admitted EXCEPT ![u] = Append(@, now)] ELSE admitted
<1> DEFINE W == _rate_windows[u]
<1>1. /\ W \in Seq(Nat) /\ admitted[u] \in Seq(Nat) /\ now \in Nat
      /\ UserInv(W, admitted[u], now) /\ admitted \in [UserIds -> Seq(Nat)]
  BY DEF IInv, TypeOK, LimiterInv
<1>2. PICK k \in 0 .. Len(W) :
        /\ ExpiredPrefix(W, k)
        /\ admit = (Len(SubSeq(W, k + 1, Len(W))) < RATE_LIMIT_RPM)
        /\ admitted' = [admitted EXCEPT ![u] = IF admit THEN Append(@, now) ELSE @]
  BY DEF _check_rate_limit, LimiterCall
<1> HIDE DEF W
<1>3. Cardinality(InWindow(admitted[u], now)) = Len(SubSeq(W, k + 1, Len(W)))
  BY <1>1, <1>2, EvictionLeavesRecent
<1>4. Len(SubSeq(W, k + 1, Len(W))) <= RATE_LIMIT_RPM
  BY <1>1, <1>2, EvictionKeepsInv DEF UserInv
<1> QED BY <1>1, <1>2, <1>3, <1>4

(* A refused user has used up the quota: the window holds RPM calls, so    *)
(* neither refused calls nor entries already evicted prolong a refusal.    *)
THEOREM RefusedOnlyWhenFullHolds == Spec => []RefusedOnlyWhenFull
<1> DEFINE Upto(A, t) == {i \in DOMAIN A : A[i] <= t /\ t - A[i] <= WINDOW}
           Full == last.verdict = "rate_limited" =>
                     /\ last.user \in UserIds
                     /\ Cardinality(Upto(admitted[last.user], last.at)) = RATE_LIMIT_RPM
<1>1. Init => Full
  BY DEF Init, NoCall
<1>2. IInv /\ Full /\ [Next]_vars => Full'
  <2> SUFFICES ASSUME IInv, Full, [Next]_vars PROVE Full'
    OBVIOUS
  <2>1. ASSUME NEW u \in UserIds, Validate(u) PROVE Full'
    <3>1. PICK roles \in RoleSets, q \in Queries, verdict \in Verdicts :
            /\ validate_and_rewrite(u, roles, q, verdict)
            /\ last' = [user |-> u, roles |-> roles, raw |-> q, at |-> now,
                        verdict |-> verdict, clean |-> _inject_limit(q)]
      BY <2>1 DEF Validate
    <3> SUFFICES ASSUME verdict = "rate_limited"
                 PROVE  Cardinality(Upto(admitted[u]', now)) = RATE_LIMIT_RPM
      BY <3>1
    <3>2. _check_rate_limit(u, FALSE)
      BY <3>1 DEF validate_and_rewrite, Inspect
    <3>3. /\ ~(Cardinality(InWindow(admitted[u], now)) < RATE_LIMIT_RPM)
          /\ Cardinality(InWindow(admitted[u], now)) <= RATE_LIMIT_RPM
          /\ admitted' = admitted
      BY <3>2, CallDecides
    <3>4. admitted[u] \in Seq(Nat) /\ InTimeOrder(admitted[u], now)
      BY DEF IInv, TypeOK, LimiterInv, UserInv
    <3>5. InWindow(admitted[u], now) = Upto(admitted[u], now)
      BY <3>4 DEF InWindow, InTimeOrder
    <3>6. Cardinality(InWindow(admitted[u], now)) \in Nat
      <4>1. InWindow(admitted[u], now) \subseteq 1 .. Len(admitted[u])
        BY <3>4 DEF InWindow
      <4>2. IsFiniteSet(1 .. Len(admitted[u]))
        BY <3>4, FS_Interval
      <4> QED BY <4>1, <4>2, FS_Subset, FS_CardinalityType
    <3> QED BY <3>3, <3>5, <3>6
  <2>2. CASE Tick
    BY <2>2 DEF Tick, limiter
  <2>3. CASE Restart
    BY <2>3 DEF Restart, NoCall
  <2>4. CASE UNCHANGED vars
    BY <2>4 DEF vars, limiter
  <2> QED BY <2>1, <2>2, <2>3, <2>4 DEF Next
<1>3. Full => RefusedOnlyWhenFull
  BY DEF RefusedOnlyWhenFull
<1> HIDE DEF Full
<1> QED BY <1>1, <1>2, <1>3, LimiterInvariant, PTL DEF Spec

\* RateLimit counts as this module does.
LEMMA SameCount == \A S : RL!Cardinality(S) = Cardinality(S)
  BY DEF RL!Cardinality, Cardinality

(* The limiter that forgets implements the one that remembers: each call   *)
(* is an Admit or a Refuse of RateLimit, for any quota and window.         *)
THEOREM LimiterImplementsRateLimit == Spec => ImplementsRateLimit
<1> DEFINE answer == IF last.verdict = "none" THEN <<>>
                     ELSE <<last.user, last.verdict # "rate_limited">>
<1>1. Init => RL!Init
  BY DEF Init, NoCall, RL!Init
<1>2. IInv /\ [Next]_vars => [RL!Next]_(RL!vars)
  <2> SUFFICES ASSUME IInv, [Next]_vars
               PROVE  RL!Next \/ UNCHANGED <<now, admitted, answer>>
    BY DEF RL!vars
  <2>1. ASSUME NEW u \in UserIds, Validate(u) PROVE RL!Admit(u) \/ RL!Refuse(u)
    <3>1. PICK roles \in RoleSets, q \in Queries, verdict \in Verdicts :
            /\ validate_and_rewrite(u, roles, q, verdict)
            /\ last'.user = u /\ last'.verdict = verdict /\ now' = now
      BY <2>1 DEF Validate
    <3>2. PICK admit \in BOOLEAN :
            _check_rate_limit(u, admit) /\ (admit <=> verdict # "rate_limited")
      BY <3>1 DEF validate_and_rewrite, Inspect
    <3>3. answer' = <<u, admit>>
      BY <3>1, <3>2 DEF Verdicts
    <3>4. InWindow(admitted[u], now) = RL!Recent(u)
      BY DEF InWindow, RL!Recent
    <3>5. /\ admit <=> RL!HasRoom(u)
          /\ admitted' = IF admit THEN [admitted EXCEPT ![u] = Append(@, now)] ELSE admitted
      BY <3>2, <3>4, CallDecides, SameCount DEF RL!HasRoom
    <3>6. CASE admit
      BY <3>1, <3>3, <3>5, <3>6 DEF RL!Admit
    <3>7. CASE ~admit
      BY <3>1, <3>3, <3>5, <3>7 DEF RL!Refuse
    <3> QED BY <3>6, <3>7
  <2>2. CASE Tick
    BY <2>2 DEF Tick, limiter, RL!Next, RL!Elapse
  <2>3. CASE Restart
    BY <2>3 DEF Restart, NoCall, RL!Next, RL!Forget
  <2>4. CASE UNCHANGED vars
    BY <2>4 DEF vars, limiter
  <2> QED BY <2>1, <2>2, <2>3, <2>4 DEF Next, RL!Next
<1> QED BY <1>1, <1>2, LimiterInvariant, PTL DEF Spec, ImplementsRateLimit, RL!Spec

-----------------------------------------------------------------------------
(* Access *)

(* A plain SELECT is denied exactly to the callers from whom list_tables   *)
(* hides one of its tables.                                                *)
THEOREM DenialMatchesListingHolds == Spec => []DenialMatchesListing
<1>1. Init => DenialMatchesListing
  BY DEF Init, NoCall, DenialMatchesListing
<1>2. DenialMatchesListing /\ [Next]_vars => DenialMatchesListing'
  <2> SUFFICES ASSUME DenialMatchesListing, [Next]_vars PROVE DenialMatchesListing'
    OBVIOUS
  <2>1. ASSUME NEW u \in UserIds, Validate(u) PROVE DenialMatchesListing'
    <3>1. PICK roles \in RoleSets, q \in Queries, verdict \in Verdicts :
            /\ validate_and_rewrite(u, roles, q, verdict)
            /\ last' = [user |-> u, roles |-> roles, raw |-> q, at |-> now,
                        verdict |-> verdict, clean |-> _inject_limit(q)]
      BY <2>1 DEF Validate
    <3>2. /\ last'.verdict = verdict /\ last'.roles = roles
          /\ last'.raw = q
      BY <3>1
    <3>3. /\ verdict = "ok" => TablesAllowed(roles, q.tables)
          /\ verdict = "denied" => ~TablesAllowed(roles, q.tables)
      BY <3>1 DEF validate_and_rewrite, Inspect
    <3> QED BY <3>2, <3>3, TableChecksAgree DEF DenialMatchesListing
  <2>2. CASE Tick
    BY <2>2 DEF Tick, DenialMatchesListing
  <2>3. CASE Restart
    BY <2>3 DEF Restart, NoCall, DenialMatchesListing
  <2>4. CASE UNCHANGED vars
    BY <2>4 DEF vars, DenialMatchesListing
  <2> QED BY <2>1, <2>2, <2>3, <2>4 DEF Next
<1> QED BY <1>1, <1>2, PTL DEF Spec

-----------------------------------------------------------------------------
(* The row limit *)

\* A flat query leaves _inject_limit with a bound of at most max_rows.
LEMMA FlatIsBounded ==
    ASSUME NEW q \in Queries, IsFlat(q)
    PROVE  BoundsResult(_inject_limit(q))
<1> USE RowsAssumption
<1>1. /\ {"limits", "commented"} \subseteq DOMAIN q
      /\ q.limits \in Seq(Limits) /\ ~q.commented
  BY QueriesAssumption DEF IsFlat
<1>2. CASE q.limits = <<>>
  <2>1. _inject_limit(q).limits = <<Appended(q)>>
    BY <1>1, <1>2 DEF _inject_limit, LimitAbove
  <2>2. Appended(q).place = "top" /\ Appended(q).n = MAX_ROWS
    BY <1>1 DEF Appended
  <2>3. 1 \in DOMAIN <<Appended(q)>> /\ <<Appended(q)>>[1] = Appended(q)
    OBVIOUS
  <2> QED BY <2>1, <2>2, <2>3 DEF BoundsResult
<1>3. CASE q.limits # <<>>
  <2>1. 1 \in DOMAIN q.limits
    BY <1>1, <1>3
  <2> DEFINE clause == q.limits[1]
  <2>2. clause.place = "top" /\ clause.n = clause.read /\ clause.capped = MAX_ROWS
    BY <2>1 DEF IsFlat
  <2>3. clause \in Limits
    BY <1>1, <2>1
  <2>4. CASE clause.read > MAX_ROWS
    <3>1. _inject_limit(q).limits = AllCapped(q.limits)
      BY <1>1, <1>3, <2>4 DEF _inject_limit, LimitAbove
    <3>2. /\ 1 \in DOMAIN AllCapped(q.limits)
          /\ AllCapped(q.limits)[1] = [clause EXCEPT !.read = MAX_ROWS, !.n = clause.capped]
      BY <2>1 DEF AllCapped
    <3>3. AllCapped(q.limits)[1].place = "top" /\ AllCapped(q.limits)[1].n = MAX_ROWS
      BY <2>2, <2>3, <3>2 DEF Limits
    <3>4. \E i \in DOMAIN AllCapped(q.limits) :
             AllCapped(q.limits)[i].place = "top" /\ AllCapped(q.limits)[i].n <= MAX_ROWS
      <4>1. AllCapped(q.limits)[1].n <= MAX_ROWS
        BY <3>3
      <4> QED BY <3>2, <3>3, <4>1, Zenon
    <3> QED BY <3>1, <3>4 DEF BoundsResult
  <2>5. CASE ~(clause.read > MAX_ROWS)
    <3>1. _inject_limit(q) = q
      BY <1>3, <2>5 DEF _inject_limit, LimitAbove
    <3>2. clause.n <= MAX_ROWS
      <4>1. clause.read \in Nat
        BY <2>3 DEF Limits
      <4> QED BY <2>2, <2>5, <4>1
    <3> QED BY <2>1, <2>2, <3>1, <3>2 DEF BoundsResult
  <2> QED BY <2>4, <2>5
<1> QED BY <1>2, <1>3

(* Whatever the limit and the cap, a query whose text the rewriting is     *)
(* written for (IsFlat) leaves with a bound of at most max_rows.           *)
THEOREM FlatQueriesBoundedHolds == Spec => []FlatQueriesBounded
<1>1. Init => FlatQueriesBounded
  BY DEF Init, NoCall, FlatQueriesBounded
<1>2. FlatQueriesBounded /\ [Next]_vars => FlatQueriesBounded'
  <2> SUFFICES ASSUME FlatQueriesBounded, [Next]_vars PROVE FlatQueriesBounded'
    OBVIOUS
  <2>1. ASSUME NEW u \in UserIds, Validate(u) PROVE FlatQueriesBounded'
    <3>1. PICK q \in Queries : last'.raw = q /\ last'.clean = _inject_limit(q)
      BY <2>1 DEF Validate
    <3> QED BY <3>1, FlatIsBounded DEF FlatQueriesBounded
  <2>2. CASE Tick
    BY <2>2 DEF Tick, FlatQueriesBounded, BoundsResult
  <2>3. CASE Restart
    BY <2>3 DEF Restart, NoCall, FlatQueriesBounded
  <2>4. CASE UNCHANGED vars
    BY <2>4 DEF vars, FlatQueriesBounded, BoundsResult
  <2> QED BY <2>1, <2>2, <2>3, <2>4 DEF Next
<1> QED BY <1>1, <1>2, PTL DEF Spec
=============================================================================
