------------------------------ MODULE MCAccount ------------------------------
(***************************************************************************)
(* One run for an account of MA7 as the window shows it: paying for the    *)
(* subscription (Payments), the number of its devices (KeyCount) or its    *)
(* notices (NoticeCenter).  They share no state: `part` says which of the  *)
(* three a behaviour is about, and the others stay still.                  *)
(***************************************************************************)
EXTENDS Payments

CONSTANTS d1, d2, l1, l2, n1, Devices, Mine, MaxKeys, Asked, MaxMoves, MaxFailures, Logins, Ids, MaxNews, MaxFaults

\* KeyCount's marks are two.
ASSUME MarksAssumption == Asked # Nothing

VARIABLES
    part,
    ma7, count, table, placed, picked, bound, stage, busy, want, pricing, listing, call, polled,
    touched, card, charged, moves, failures,
    sent, withdrawn, accounts, heard, round, dismissed, window, fetch, leaving, stale, closed, news, faults

keys == <<ma7, count, table, placed, picked, bound, stage, busy, want, pricing, listing, call, polled,
          touched, card, charged, moves, failures>>
notices == <<sent, withdrawn, accounts, heard, round, dismissed, window, fetch, leaving, stale, closed, news, faults>>

K == INSTANCE KeyCount
\* The center's `cache` of notices; Payments' is the cached account.
N == INSTANCE NoticeCenter WITH cache <- heard

\* The parts that stay still have one first state.
AccountInit ==
    /\ part \in {"payment", "keys", "notices"} /\ Init /\ K!Init /\ N!Init
    /\ part # "payment" => account.status = "active" /\ account.balance = 0 /\ cache = Nothing
    /\ part # "keys" => ma7.balance = 0
    /\ part # "notices" => accounts = {} /\ \A l \in Logins : sent[l] = {}
AccountNext ==
    \/ part = "payment" /\ Next /\ UNCHANGED <<keys, notices, part>>
    \/ part = "keys" /\ K!Next /\ UNCHANGED <<vars, notices, part>>
    \/ part = "notices" /\ N!Next /\ UNCHANGED <<vars, keys, part>>

PayTurn(A) == part = "payment" /\ A /\ UNCHANGED <<keys, notices, part>>
Turn(A) == part = "notices" /\ A /\ UNCHANGED <<vars, keys, part>>
\* The fairness of each, while it is its turn.
AccountFairness ==
    /\ WF_vars(PayTurn(Polls)) /\ WF_vars(PayTurn(MA7Answers)) /\ WF_vars(PayTurn(Arrives))
    /\ WF_notices(Turn(N!Rounds \/ N!Asks)) /\ WF_notices(Turn(N!MA7Answers \/ N!Arrives))
    /\ WF_notices(Turn(N!RoundEnds)) /\ WF_notices(Turn(N!Page))

AccountSpec == AccountInit /\ [][AccountNext]_<<vars, keys, notices, part>> /\ AccountFairness

\* See KeyCount.ChargedAsPressed: money goes only for the sum on the pressed button.
ChargedAsPressed == K!ChargedAsPressed

\* See NoticeCenter: a closed notice does not come back, and what MA7 says comes to the window.
ClosedStaysClosed == N!ClosedStaysClosed
NewsArrives == N!NewsArrives
=============================================================================
