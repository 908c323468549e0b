---------------------------- MODULE MCAuthTokens ----------------------------
(* Instances of AuthTokens for TLC.                                        *)
EXTENDS AuthTokens, TLC

CONSTANTS
    t1, t2, t3, t4, t5, t6, k1, k2, u1, p1, p2,
    Scenarios,      \* TRUE: one request at a time, FALSE: they overlap
    Overlapping     \* the operations of requests that overlap

VARIABLE alone

MCStep ==
    IF alone THEN /\ OneAtATime'
                  /\ \A t \in Tokens : ~tokens'[t].expired
    ELSE \A p \in Procs : procs'[p].op \in Overlapping \union {"none"}

MCInit == Init /\ alone \in Scenarios

MCNext == Next /\ MCStep /\ UNCHANGED alone

MCSpec == MCInit /\ [][MCNext]_<<vars, alone>>

-----------------------------------------------------------------------------
(* What holds when requests do not overlap; the two races show that it     *)
(* does not when they do.                                                  *)

\* A session has one successor (AuthTokens!RotatedOnce, refreshAuth).
RotatedOnceAlone == alone => RotatedOnce

\* Logging out is final (AuthTokens!LoginsStayEnded, logout, logoutAllSessions).
LoginsStayEndedAlone == alone => LoginsStayEnded

\* One PIN works (AuthTokens!OnePinPerUser, requestLogin, resendLoginRequest).
OnePinAlone == alone => OnePinPerUser

\* A PIN, a reset link and a recovery code are honoured once, wherever the
\* requests that use them die (AuthTokens!UsedOnce).
UsedOnceAlone == alone => UsedOnce

MCSymmetry == Permutations(Tokens) \union Permutations(Codes) \union Permutations(Procs)

\* The inductive invariant of the proofs about requests that do not overlap.
AloneInv == alone => OneAtATime /\ LoginInv /\ SuccessorInv /\ PinInv /\ UseInv
=============================================================================
