----------------------- MODULE InvoiceNumberingProofs -----------------------
(***************************************************************************)
(* For any number of invoices, sessions and series: the counter skips no   *)
(* number, however the requests overlap; and as long as no request is      *)
(* overtaken, each number is on one invoice and stays there.               *)
(***************************************************************************)
EXTENDS InvoiceNumbering, TLAPS

(* Every request at work has an invoice whose status, as it was read,      *)
(* allows the operation.                                                   *)
RequestIsAllowed ==
    \A s \in Sessions :
        request[s].pc # "idle" => /\ request[s].of \in Invoices
                                  /\ Allowed(request[s].op, request[s].read.status)

(* A request that creates has the row to itself, and only it finds a row   *)
(* that does not exist yet.                                                *)
CreatesFresh ==
    \A s \in Sessions :
        request[s].pc # "idle" =>
            /\ request[s].op \in Creating <=> invoice[request[s].of].status = "free"
            /\ request[s].op \in Creating =>
                  \A t \in Sessions \ {s} : request[t].of # request[s].of

(* What has not been issued has no number and no series.  *)
DraftsUnnumbered ==
    \A i \in Invoices :
        invoice[i].status \in {"free", "draft"} =>
            invoice[i].number = None /\ invoice[i].series = None

(* Below the counter that a session holds, however old, nothing is skipped. *)
HeldIsCovered ==
    \A s \in Sessions :
        request[s].pc # "idle" => 1 .. request[s].held.next - 1 \subseteq Used

(* What is said of the requests.  *)
RequestsInv == RequestIsAllowed /\ CreatesFresh /\ HeldIsCovered

(* The inductive invariant.  *)
IInv ==
    /\ TypeOK
    /\ RequestsInv
    /\ DraftsUnnumbered
    /\ Gapless
    /\ OneNumberEach

-----------------------------------------------------------------------------
(* What an operation writes is a row.  *)
LEMMA WrittenType ==
    ASSUME NEW op \in Ops, NEW r \in Rows, NEW held \in Settings
    PROVE  Written(op, r, held) \in Rows
<1>1. CASE op \in {"create", "issue"}
  BY <1>1 DEF Written, Rows, Settings, Labels, Statuses, Creating
<1>2. CASE op \in {"create_draft", "import", "void"}
  BY <1>2 DEF Written, Rows, Statuses, Creating
<1>3. CASE op \in {"write_off", "reopen", "delete"}
  BY <1>3 DEF Written, Rows, Statuses, Creating, Free, Labels
<1> QED
  BY <1>1, <1>2, <1>3 DEF Ops, Creating

(* Every session's request is well-formed after a step that sets one.  *)
LEMMA RequestType ==
    ASSUME TypeOK, NEW s \in Sessions, NEW q \in Requests
    PROVE  [request EXCEPT ![s] = q] \in [Sessions -> Requests]
BY DEF TypeOK

LEMMA IdleType == Idle \in Requests
BY DEF Idle, Requests, Ops, Creating, Rows, Free, Settings, Defaults, Labels, Statuses

LEMMA InitEstablishes == Init => IInv
<1> SUFFICES ASSUME Init PROVE IInv
  OBVIOUS
<1>1. TypeOK
  <2>1. Free \in Rows /\ Defaults \in Settings
    BY DEF Rows, Free, Settings, Defaults, Labels, Statuses
  <2> QED
    BY <2>1, IdleType DEF Init, TypeOK
<1>2. RequestsInv
  BY DEF Init, RequestsInv, RequestIsAllowed, CreatesFresh, HeldIsCovered, Idle
<1>3. DraftsUnnumbered
  BY DEF Init, DraftsUnnumbered, Free
<1>4. Numbered = {} /\ lost = {} /\ settings.next = 1
  BY DEF Init, Numbered, Free, Defaults
<1>5. Gapless
  BY <1>4 DEF Gapless, Used
<1>6. OneNumberEach
  BY <1>4 DEF OneNumberEach
<1> QED
  BY <1>1, <1>2, <1>3, <1>5, <1>6 DEF IInv

-----------------------------------------------------------------------------
(* A step that leaves the invoices and the settings' counter alone, and    *)
(* gives some session a request it may have, keeps the invariant.          *)
LEMMA OthersPreserve ==
    ASSUME IInv, invoice' = invoice, settings'.next = settings.next,
           settings' \in Settings, overtaken' = overtaken, lost' = lost,
           lock' \in Sessions \cup {None},
           request' \in [Sessions -> Requests], RequestsInv'
    PROVE  IInv'
<1>1. TypeOK'
  BY DEF IInv, TypeOK
<1>2. Numbered' = Numbered /\ Used' = Used
  BY DEF Numbered, Used
<1>3. Gapless' /\ OneNumberEach' /\ DraftsUnnumbered'
  BY <1>2 DEF IInv, Gapless, OneNumberEach, DraftsUnnumbered
<1> QED
  BY <1>1, <1>3 DEF IInv

(* A request that starts has read what allows it.  *)
LEMMA ReadPreserves ==
    ASSUME IInv, NEW s \in Sessions, Read(s)
    PROVE  IInv'
<1>1. PICK op \in Ops, i \in Invoices :
        /\ Allowed(op, invoice[i].status)
        /\ op \in Creating => \A t \in Sessions : request[t].of # i
        /\ request' = [request EXCEPT ![s] =
             [pc |-> "read", op |-> op, of |-> i, read |-> invoice[i],
              held |-> settings]]
  BY DEF Read
<1>2. invoice[i] \in Rows /\ settings \in Settings
  BY DEF IInv, TypeOK
<1> DEFINE q == [pc |-> "read", op |-> op, of |-> i, read |-> invoice[i],
                 held |-> settings]
<1>3. q \in Requests
  BY <1>2 DEF Requests
<1>4. request' \in [Sessions -> Requests]
  BY <1>1, <1>3, RequestType DEF IInv
<1>5. request'[s] = q /\ \A t \in Sessions \ {s} : request'[t] = request[t]
  BY <1>1 DEF IInv, TypeOK
<1>6. invoice' = invoice /\ lost' = lost /\ Used' = Used
  BY DEF Read, Used, Numbered
<1>7. RequestIsAllowed'
  BY <1>1, <1>5, <1>6 DEF IInv, RequestsInv, RequestIsAllowed
<1>8. op \in Creating <=> invoice[i].status = "free"
  BY <1>1 DEF Allowed, Ops, Creating
<1>9. \A t \in Sessions \ {s} :
        request[t].pc # "idle" /\ request[t].op \in Creating =>
            request[t].of # i
  <2> SUFFICES ASSUME NEW t \in Sessions \ {s}, request[t].pc # "idle",
                      request[t].op \in Creating, request[t].of = i
               PROVE  FALSE
    OBVIOUS
  <2>1. invoice[i].status = "free"
    BY DEF IInv, RequestsInv, CreatesFresh
  <2> QED
    BY <2>1, <1>1, <1>8
<1>10. CreatesFresh'
  BY <1>1, <1>5, <1>6, <1>8, <1>9 DEF IInv, RequestsInv, CreatesFresh
<1>11. HeldIsCovered'
  BY <1>5, <1>6 DEF IInv, RequestsInv, HeldIsCovered, Gapless
<1> QED
  BY <1>4, <1>7, <1>10, <1>11, OthersPreserve DEF Read, IInv, TypeOK, RequestsInv

(* A step that leaves rows and numbers alone, and each session's request   *)
(* as it was or idle, says the same of the requests.                       *)
LEMMA RequestsKept ==
    ASSUME RequestsInv, request \in [Sessions -> Requests],
           invoice' = invoice, lost' = lost,
           \A t \in Sessions :
               \/ request'[t].pc = "idle" /\ request'[t].of = None
               \/ /\ request[t].pc # "idle"
                  /\ request'[t].op = request[t].op /\ request'[t].of = request[t].of
                  /\ request'[t].read = request[t].read
                  /\ request'[t].held = request[t].held
               \/ request'[t] = request[t]
    PROVE  RequestsInv'
<1>1. Used' = Used
  BY DEF Used, Numbered
<1>2. RequestIsAllowed'
  BY DEF RequestsInv, RequestIsAllowed
<1>3. CreatesFresh'
  BY NumberingAssumption DEF RequestsInv, RequestIsAllowed, CreatesFresh
<1>4. HeldIsCovered'
  BY <1>1 DEF RequestsInv, HeldIsCovered
<1> QED
  BY <1>2, <1>3, <1>4 DEF RequestsInv

LEMMA LockPreserves ==
    ASSUME IInv, NEW s \in Sessions, Lock(s)
    PROVE  IInv'
<1>1. request' \in [Sessions -> Requests]
  BY DEF IInv, TypeOK, Lock, Requests
<1>2. RequestsInv'
  BY RequestsKept DEF IInv, TypeOK, Lock
<1> QED
  BY <1>1, <1>2, OthersPreserve DEF Lock, IInv, TypeOK

LEMMA FailPreserves ==
    ASSUME IInv, NEW s \in Sessions, Fail(s)
    PROVE  IInv'
<1>1. request' \in [Sessions -> Requests]
  BY IdleType, RequestType DEF IInv, Fail
<1>2. RequestsInv'
  BY RequestsKept DEF IInv, TypeOK, Fail, Idle
<1> QED
  BY <1>1, <1>2, OthersPreserve DEF Fail, IInv, TypeOK

LEMMA ChangeSeriesPreserves ==
    ASSUME IInv, ChangeSeries
    PROVE  IInv'
<1>1. PICK label \in Labels : settings' = [settings EXCEPT !.series = label]
  BY DEF ChangeSeries
<1>2. settings' \in Settings /\ settings'.next = settings.next
  BY <1>1 DEF IInv, TypeOK, Settings
<1>3. RequestsInv'
  BY RequestsKept DEF IInv, TypeOK, ChangeSeries
<1> QED
  BY <1>2, <1>3, OthersPreserve DEF ChangeSeries, IInv, TypeOK

-----------------------------------------------------------------------------
(* The commit.  *)

(* What a commit works on.  *)
LEMMA CommitWrites ==
    ASSUME IInv, NEW s \in Sessions, Commit(s)
    PROVE  LET q == request[s]
               i == q.of
           IN  /\ q \in Requests /\ q.pc # "idle" /\ q.op \in Ops
               /\ q.held \in Settings /\ settings \in Settings
               /\ i \in Invoices /\ invoice[i] \in Rows
               /\ Allowed(q.op, q.read.status)
               /\ q.op \in Creating <=> invoice[i].status = "free"
               /\ q.op \in Creating =>
                     \A t \in Sessions \ {s} : request[t].of # i
               /\ invoice'[i] = Written(q.op, invoice[i], q.held)
               /\ invoice' = [invoice EXCEPT ![i] = invoice'[i]]
               /\ \A j \in Invoices \ {i} : invoice'[j] = invoice[j]
               /\ request' = [request EXCEPT ![s] = Idle]
<1> DEFINE q == request[s]
           i == q.of
<1>1. q \in Requests /\ q.pc # "idle" /\ i \in Invoices
  BY DEF IInv, TypeOK, RequestsInv, RequestIsAllowed, Commit, Ready
<1>2. q.op \in Ops /\ q.held \in Settings
  BY <1>1 DEF Requests
<1>3. invoice[i] \in Rows /\ settings \in Settings
  BY <1>1 DEF IInv, TypeOK
<1>4. /\ Allowed(q.op, q.read.status)
      /\ q.op \in Creating <=> invoice[i].status = "free"
      /\ q.op \in Creating => \A t \in Sessions \ {s} : request[t].of # i
  BY <1>1 DEF IInv, RequestsInv, RequestIsAllowed, CreatesFresh
<1>5. invoice' = [invoice EXCEPT ![i] = Written(q.op, invoice[i], q.held)]
  BY DEF Commit
<1>6. invoice \in [Invoices -> Rows]
  BY DEF IInv, TypeOK
<1>7. /\ invoice'[i] = Written(q.op, invoice[i], q.held)
      /\ invoice' = [invoice EXCEPT ![i] = invoice'[i]]
      /\ \A j \in Invoices \ {i} : invoice'[j] = invoice[j]
  BY <1>1, <1>5, <1>6
<1> QED
  BY <1>1, <1>2, <1>3, <1>4, <1>7 DEF Commit

(* The numbers in use after a commit are those before it, with the one it  *)
(* assigned; and the counter it writes is that number's successor.         *)
LEMMA CommitUses ==
    ASSUME IInv, NEW s \in Sessions, Commit(s)
    PROVE  LET held == request[s].held
           IN  /\ held.next \in Nat \ {0}
               /\ 1 .. held.next - 1 \subseteq Used
               /\ \/ Used' = Used /\ settings' = settings
                  \/ Used' = Used \cup {held.next} /\ settings'.next = held.next + 1
<1> DEFINE q == request[s]
           i == q.of
<1>1. /\ q \in Requests /\ q.pc # "idle" /\ q.op \in Ops
      /\ q.held \in Settings /\ settings \in Settings
      /\ i \in Invoices /\ invoice[i] \in Rows
      /\ Allowed(q.op, q.read.status)
      /\ q.op \in Creating <=> invoice[i].status = "free"
      /\ invoice'[i] = Written(q.op, invoice[i], q.held)
      /\ \A j \in Invoices \ {i} : invoice'[j] = invoice[j]
  BY CommitWrites
<1>2. q.held.next \in Nat \ {0} /\ q.held.next # None
  BY <1>1, NumberingAssumption DEF Settings
<1>3. 1 .. q.held.next - 1 \subseteq Used
  BY <1>1 DEF IInv, RequestsInv, HeldIsCovered
<1>4. lost' = IF invoice[i] # q.read
              THEN lost \cup ({invoice[i].number} \ {None, invoice'[i].number})
              ELSE lost
  BY <1>1 DEF Commit
<1>5. lost \subseteq lost' /\ lost' \subseteq Used
  BY <1>1, <1>4 DEF Used, Numbered
<1>6. CASE invoice'[i].number = invoice[i].number /\ settings' = settings
  <2>1. Numbered' = Numbered
    BY <1>1, <1>6 DEF Numbered
  <2>2. \A j \in Numbered : invoice'[j].number = invoice[j].number
    BY <1>1, <1>6 DEF Numbered
  <2>3. Used' = Used
    BY <1>5, <2>1, <2>2 DEF Used
  <2> QED
    BY <2>3, <1>2, <1>3, <1>6
<1>7. ASSUME q.op \in {"create", "issue", "delete"}
      PROVE  invoice[i].number \in {None} \cup lost' \cup {invoice'[i].number}
  <2>1. CASE invoice[i] = q.read
    <3>1. invoice[i].status \in {"free", "draft"}
      BY <1>1, <1>7, <2>1 DEF Allowed, Creating
    <3> QED
      BY <3>1, <1>1 DEF IInv, DraftsUnnumbered
  <2>2. CASE invoice[i] # q.read
    BY <2>2, <1>4
  <2> QED
    BY <2>1, <2>2
<1>8. CASE q.op \in {"create", "issue"}
  <2>1. invoice'[i].number = q.held.next
    BY <1>1, <1>8 DEF Written, Rows
  <2>2. i \in Numbered' /\ q.held.next \in Used'
    BY <2>1, <1>1, <1>2 DEF Numbered, Used
  <2>3. Used \subseteq Used'
    <3> SUFFICES ASSUME NEW n \in Used PROVE n \in Used'
      OBVIOUS
    <3>1. CASE n \in lost
      BY <3>1, <1>5 DEF Used
    <3>2. CASE n \in {invoice[j].number : j \in Numbered}
      <4>1. PICK j \in Numbered : n = invoice[j].number
        BY <3>2
      <4>2. CASE j = i
        BY <4>1, <4>2, <1>7, <1>8, <2>1, <2>2 DEF Numbered, Used
      <4>3. CASE j # i
        <5>1. j \in Numbered' /\ invoice'[j].number = n
          BY <4>1, <4>3, <1>1 DEF Numbered
        <5> QED
          BY <5>1 DEF Used
      <4> QED
        BY <4>2, <4>3
    <3> QED
      BY <3>1, <3>2 DEF Used
  <2>4. Used' \subseteq Used \cup {q.held.next}
    <3> SUFFICES ASSUME NEW j \in Numbered'
                 PROVE  invoice'[j].number \in Used \cup {q.held.next}
      BY <1>5 DEF Used
    <3>1. CASE j = i
      BY <3>1, <2>1
    <3>2. CASE j # i
      BY <3>2, <1>1 DEF Numbered, Used
    <3> QED
      BY <3>1, <3>2
  <2>5. settings' = [settings EXCEPT !.next = q.held.next + 1]
    BY <1>8 DEF Commit, Consumes, Advanced
  <2>6. settings'.next = q.held.next + 1
    BY <2>5, <1>1 DEF Settings
  <2> QED
    BY <2>2, <2>3, <2>4, <2>6, <1>2, <1>3
<1>9. CASE q.op = "delete"
  <2>1. invoice'[i].number = None /\ settings' = settings
    BY <1>1, <1>9 DEF Written, Free, Commit, Consumes
  <2>2. Numbered' = Numbered \ {i}
    BY <1>1, <2>1 DEF Numbered
  <2>3. \A j \in Numbered' : j \in Numbered /\ invoice'[j].number = invoice[j].number
    BY <2>2, <1>1 DEF Numbered
  <2>4. Used' \subseteq Used
    BY <2>3, <1>5 DEF Used
  <2>5. Used \subseteq Used'
    <3> SUFFICES ASSUME NEW j \in Numbered PROVE invoice[j].number \in Used'
      BY <1>5 DEF Used
    <3>1. CASE j = i
      BY <3>1, <1>7, <1>9, <2>1 DEF Numbered, Used
    <3>2. CASE j # i
      BY <3>2, <2>2, <2>3 DEF Used
    <3> QED
      BY <3>1, <3>2
  <2> QED
    BY <2>1, <2>4, <2>5, <1>2, <1>3
<1>10. CASE q.op \in {"create_draft", "import", "void", "write_off", "reopen"}
  <2>1. settings' = settings
    BY <1>10 DEF Commit, Consumes
  <2>2. invoice'[i].number = invoice[i].number
    BY <1>1, <1>10 DEF Written, Rows
  <2> QED
    BY <2>1, <2>2, <1>6
<1> QED
  BY <1>1, <1>8, <1>9, <1>10 DEF Ops, Creating

(* A commit that was not overtaken either numbers an unnumbered invoice    *)
(* with the next number, or leaves every number and the counter.           *)
LEMMA CommitNumbers ==
    ASSUME IInv, NEW s \in Sessions, Commit(s), ~overtaken'
    PROVE  LET i == request[s].of
           IN  /\ ~overtaken
               /\ i \in Invoices
               /\ invoice' = [invoice EXCEPT ![i] = invoice'[i]]
               /\ \/ /\ invoice[i].number = None
                     /\ invoice'[i].number = settings.next
                     /\ invoice'[i].status = "open"
                     /\ settings'.next = settings.next + 1
                  \/ /\ invoice'[i].number = invoice[i].number
                     /\ invoice'[i].series = invoice[i].series
                     /\ invoice'[i].status \in {"free", "draft"} =>
                           invoice'[i].number = None /\ invoice'[i].series = None
                     /\ settings' = settings
<1> DEFINE q == request[s]
           i == q.of
<1>1. /\ q \in Requests
      /\ q.pc # "idle"
      /\ i \in Invoices
      /\ Allowed(q.op, q.read.status)
  BY CommitWrites
<1>2. ~overtaken /\ invoice[i] = q.read /\ (Consumes(q.op) => settings = q.held)
  BY DEF Commit, IInv, TypeOK
<1>3. invoice' = [invoice EXCEPT ![i] = Written(q.op, invoice[i], q.held)]
  BY DEF Commit
<1>4. invoice'[i] = Written(q.op, invoice[i], q.held)
  BY <1>1, <1>3 DEF IInv, TypeOK
<1>5. q.op \in Ops /\ invoice[i] \in Rows /\ settings \in Settings
  BY <1>1 DEF Requests, IInv, TypeOK
<1>6. invoice' = [invoice EXCEPT ![i] = invoice'[i]]
  BY <1>3, <1>4
<1>7. DraftsUnnumbered
  BY DEF IInv
<1>8. CASE q.op \in {"create", "issue"}
  <2>1. invoice[i].status \in {"free", "draft"}
    BY <1>1, <1>2, <1>8 DEF Allowed, Creating
  <2>2. invoice[i].number = None
    BY <2>1, <1>1, <1>7 DEF DraftsUnnumbered
  <2>3. settings' = [settings EXCEPT !.next = settings.next + 1]
    BY <1>2, <1>8 DEF Commit, Consumes, Advanced
  <2>4. settings'.next = settings.next + 1
    BY <2>3, <1>5 DEF Settings
  <2>5. invoice'[i].number = settings.next /\ invoice'[i].status = "open"
    BY <1>4, <1>2, <1>5, <1>8 DEF Written, Consumes, Rows
  <2> QED
    BY <2>2, <2>4, <2>5, <1>1, <1>2, <1>6
<1>9. CASE q.op = "delete"
  <2>1. invoice[i].status = "draft"
    BY <1>1, <1>2, <1>9 DEF Allowed, Creating
  <2>2. settings' = settings
    BY <1>9 DEF Commit, Consumes
  <2>3. invoice[i].number = None /\ invoice[i].series = None
    BY <2>1, <1>1, <1>7 DEF DraftsUnnumbered
  <2>4. invoice'[i].number = None /\ invoice'[i].series = None
    BY <1>4, <1>9 DEF Written, Free
  <2> QED
    BY <2>2, <2>3, <2>4, <1>1, <1>2, <1>6
<1>10. CASE q.op \in {"create_draft", "import", "void", "write_off", "reopen"}
  <2>1. settings' = settings
    BY <1>10 DEF Commit, Consumes
  <2>2. /\ invoice'[i].number = invoice[i].number
        /\ invoice'[i].series = invoice[i].series
    BY <1>4, <1>5, <1>10 DEF Written, Rows
  <2>3. invoice'[i].status \in {"free", "draft"} => q.op = "create_draft"
    BY <1>4, <1>5, <1>10 DEF Written, Rows
  <2>4. q.op = "create_draft" => invoice[i].number = None /\ invoice[i].series = None
    BY <1>1, <1>2, <1>7 DEF Allowed, Creating, DraftsUnnumbered
  <2> QED
    BY <2>1, <2>2, <2>3, <2>4, <1>1, <1>2, <1>6
<1> QED
  BY <1>5, <1>8, <1>9, <1>10 DEF Ops, Creating

LEMMA CommitPreserves ==
    ASSUME IInv, NEW s \in Sessions, Commit(s)
    PROVE  IInv'
<1> DEFINE q == request[s]
           i == q.of
<1>1. /\ q \in Requests /\ q.pc # "idle" /\ q.op \in Ops
      /\ q.held \in Settings /\ settings \in Settings
      /\ i \in Invoices /\ invoice[i] \in Rows
      /\ Allowed(q.op, q.read.status)
      /\ q.op \in Creating <=> invoice[i].status = "free"
      /\ q.op \in Creating => \A t \in Sessions \ {s} : request[t].of # i
      /\ invoice'[i] = Written(q.op, invoice[i], q.held)
      /\ invoice' = [invoice EXCEPT ![i] = invoice'[i]]
      /\ \A j \in Invoices \ {i} : invoice'[j] = invoice[j]
      /\ request' = [request EXCEPT ![s] = Idle]
  BY CommitWrites
<1>2. /\ q.held.next \in Nat \ {0}
      /\ 1 .. q.held.next - 1 \subseteq Used
      /\ \/ Used' = Used /\ settings' = settings
         \/ Used' = Used \cup {q.held.next} /\ settings'.next = q.held.next + 1
  BY CommitUses
<1>3. TypeOK'
  <2>1. invoice' \in [Invoices -> Rows]
    BY <1>1, WrittenType DEF IInv, TypeOK
  <2>2. settings' \in Settings
    BY <1>1 DEF Commit, Advanced, Settings
  <2>3. request' \in [Sessions -> Requests]
    BY <1>1, IdleType, RequestType DEF IInv
  <2>4. lock' \in Sessions \cup {None} /\ overtaken' \in BOOLEAN
    BY DEF Commit, IInv, TypeOK
  <2>5. lost' \subseteq Nat
    BY <1>1 DEF Commit, Rows, IInv, TypeOK
  <2> QED
    BY <2>1, <2>2, <2>3, <2>4, <2>5 DEF TypeOK
<1>4. /\ request'[s] = Idle
      /\ \A t \in Sessions \ {s} : request'[t] = request[t]
  BY <1>1 DEF IInv, TypeOK
<1>5. RequestIsAllowed'
  BY <1>4 DEF IInv, RequestsInv, RequestIsAllowed, Idle
<1>6. invoice'[i].status # "free"
  BY <1>1 DEF Written, Rows, Free, Ops, Creating
<1>7. CreatesFresh'
  <2> SUFFICES ASSUME NEW t \in Sessions, request'[t].pc # "idle"
               PROVE  /\ request'[t].op \in Creating
                            <=> invoice'[request'[t].of].status = "free"
                      /\ request'[t].op \in Creating =>
                            \A u \in Sessions \ {t} : request'[u].of # request'[t].of
    BY DEF CreatesFresh
  <2>1. t # s /\ request'[t] = request[t]
    BY <1>4 DEF Idle
  <2>2. request[t].of \in Invoices
    BY <2>1 DEF IInv, RequestsInv, RequestIsAllowed
  <2>3. /\ request[t].op \in Creating <=> invoice[request[t].of].status = "free"
        /\ request[t].op \in Creating =>
              \A u \in Sessions \ {t} : request[u].of # request[t].of
    BY <2>1 DEF IInv, RequestsInv, CreatesFresh
  <2>4. CASE request[t].of = i
    <3>1. request[t].op \notin Creating
      BY <2>1, <2>3, <2>4
    <3> QED
      BY <3>1, <2>1, <2>4, <1>6
  <2>5. CASE request[t].of # i
    <3>1. invoice'[request[t].of] = invoice[request[t].of]
      BY <1>1, <2>2, <2>5
    <3>2. \A u \in Sessions : request'[u].of \in {request[u].of, None}
      BY <1>4 DEF Idle
    <3> QED
      BY <3>1, <3>2, <2>1, <2>2, <2>3, NumberingAssumption
  <2> QED
    BY <2>4, <2>5
<1>8. HeldIsCovered'
  BY <1>2, <1>4 DEF IInv, RequestsInv, HeldIsCovered, Idle
<1>9. DraftsUnnumbered'
  <2>1. ASSUME invoice'[i].status = "draft"
        PROVE  invoice'[i].number = None /\ invoice'[i].series = None
    <3>1. q.op = "create_draft"
      BY <1>1, <2>1 DEF Written, Rows, Free, Ops, Creating
    <3>2. invoice[i].number = None /\ invoice[i].series = None
      BY <1>1, <3>1 DEF Creating, IInv, DraftsUnnumbered
    <3> QED
      BY <1>1, <3>1, <3>2 DEF Written, Rows
  <2> QED
    BY <1>1, <1>6, <2>1 DEF IInv, DraftsUnnumbered
<1>10. Gapless'
  <2>1. /\ settings.next \in Nat \ {0}
        /\ 1 .. settings.next - 1 \subseteq Used
        /\ \A n \in Used : 1 .. n - 1 \subseteq Used
    BY <1>1 DEF IInv, Gapless, Settings
  <2>2. CASE Used' = Used /\ settings' = settings
    BY <2>1, <2>2 DEF Gapless
  <2>3. CASE Used' = Used \cup {q.held.next} /\ settings'.next = q.held.next + 1
    <3>1. 1 .. settings'.next - 1 = (1 .. q.held.next - 1) \cup {q.held.next}
      BY <1>2, <2>3
    <3>2. 1 .. settings'.next - 1 \subseteq Used'
      BY <1>2, <2>3, <3>1
    <3>3. \A n \in Used' : 1 .. n - 1 \subseteq Used'
      BY <1>2, <2>1, <2>3
    <3> QED
      BY <3>2, <3>3 DEF Gapless
  <2> QED
    BY <1>2, <2>2, <2>3
<1>11. ASSUME ~overtaken'
       PROVE  OneNumberEach'
  <2>1. /\ ~overtaken
        /\ \/ /\ invoice[i].number = None
              /\ invoice'[i].number = settings.next
              /\ settings'.next = settings.next + 1
           \/ /\ invoice'[i].number = invoice[i].number
              /\ settings' = settings
    BY <1>11, CommitNumbers
  <2>2. /\ \A j, k \in Numbered : invoice[j].number = invoice[k].number => j = k
        /\ \A j \in Numbered : invoice[j].number < settings.next
        /\ lost = {}
    BY <2>1 DEF IInv, OneNumberEach
  <2>3. lost' = {}
    BY <2>2, <1>11 DEF Commit
  <2>4. settings.next \in Nat \ {0} /\ settings.next # None
    BY <1>1, NumberingAssumption DEF Settings
  <2>5. CASE /\ invoice[i].number = None
             /\ invoice'[i].number = settings.next
             /\ settings'.next = settings.next + 1
    <3>1. Numbered' = Numbered \cup {i} /\ i \notin Numbered
      BY <1>1, <2>4, <2>5 DEF Numbered
    <3>2. \A j \in Numbered : /\ j \in Invoices
                              /\ invoice'[j] = invoice[j]
                              /\ invoice[j].number \in Nat
      BY <1>1, <3>1 DEF Numbered, IInv, TypeOK, Rows
    <3>3. \A j \in Numbered' : invoice'[j].number < settings'.next
      BY <2>2, <2>4, <2>5, <3>1, <3>2
    <3>4. \A j, k \in Numbered' : invoice'[j].number = invoice'[k].number => j = k
      BY <2>2, <2>4, <2>5, <3>1, <3>2
    <3> QED
      BY <2>3, <3>3, <3>4 DEF OneNumberEach
  <2>6. CASE invoice'[i].number = invoice[i].number /\ settings' = settings
    <3>1. Numbered' = Numbered
      BY <1>1, <2>6 DEF Numbered
    <3>2. \A j \in Numbered : invoice'[j].number = invoice[j].number
      BY <1>1, <2>6 DEF Numbered
    <3> QED
      BY <2>2, <2>3, <2>6, <3>1, <3>2 DEF OneNumberEach
  <2> QED
    BY <2>1, <2>5, <2>6
<1> QED
  BY <1>3, <1>5, <1>7, <1>8, <1>9, <1>10, <1>11 DEF IInv, RequestsInv, OneNumberEach

-----------------------------------------------------------------------------
LEMMA StepPreserves == IInv /\ [Next]_vars => IInv'
<1> SUFFICES ASSUME IInv, [Next]_vars PROVE IInv'
  OBVIOUS
<1>1. ASSUME NEW s \in Sessions, Read(s) \/ Lock(s) \/ Commit(s) \/ Fail(s)
      PROVE  IInv'
  BY <1>1, ReadPreserves, LockPreserves, CommitPreserves, FailPreserves
<1>2. CASE ChangeSeries
  BY <1>2, ChangeSeriesPreserves
<1>3. CASE UNCHANGED vars
  <2>1. /\ invoice' = invoice /\ settings' = settings /\ lock' = lock
        /\ request' = request /\ overtaken' = overtaken /\ lost' = lost
        /\ Numbered' = Numbered /\ Used' = Used
    BY <1>3 DEF vars, Numbered, Used
  <2>2. TypeOK' /\ DraftsUnnumbered' /\ Gapless' /\ OneNumberEach'
    BY <2>1 DEF IInv, TypeOK, DraftsUnnumbered, Gapless, OneNumberEach
  <2>3. RequestsInv'
    BY <2>1 DEF IInv, RequestsInv, RequestIsAllowed, CreatesFresh, HeldIsCovered
  <2> QED
    BY <2>2, <2>3 DEF IInv
<1> QED
  BY <1>1, <1>2, <1>3 DEF Next

LEMMA Inductive == Spec => []IInv
<1>1. Init => IInv
  BY InitEstablishes
<1>2. IInv /\ [Next]_vars => IInv'
  BY StepPreserves
<1> QED
  BY <1>1, <1>2, PTL DEF Spec

(* Every variable keeps its type.  *)
THEOREM NumberingTypeCorrect == Spec => []TypeOK
<1>1. IInv => TypeOK
  BY DEF IInv
<1> QED
  BY <1>1, Inductive, PTL

(* However the requests of the invoice service overlap, and whatever       *)
(* happens to a document, the counter and the numbers skip nothing: below  *)
(* next_number and below a number in use, every number is one that an      *)
(* invoice has, or had until a stale request took it.                      *)
THEOREM NumbersAreGapless == Spec => []Gapless
<1>1. IInv => Gapless
  BY DEF IInv
<1> QED
  BY <1>1, Inductive, PTL

(* While no request is overtaken, each number is on one invoice, the       *)
(* counter has passed it, and no number is lost.                           *)
THEOREM NumbersAreUnique == Spec => []OneNumberEach
<1>1. IInv => OneNumberEach
  BY DEF IInv
<1> QED
  BY <1>1, Inductive, PTL

(* While no request is overtaken, an invoice keeps the number and the      *)
(* series it was issued with, and next_number only moves forward.          *)
THEOREM NumbersStay == Spec => NumberIsForever
<1> DEFINE Kept ==
      ~overtaken' =>
        /\ \A i \in Numbered : /\ invoice'[i].number = invoice[i].number
                               /\ invoice'[i].series = invoice[i].series
        /\ settings'.next >= settings.next
<1>1. IInv /\ [Next]_vars => [Kept]_vars
  <2> SUFFICES ASSUME IInv, Next, ~overtaken' PROVE Kept
    OBVIOUS
  <2>0. settings.next \in Nat
    BY DEF IInv, TypeOK, Settings
  <2>1. ASSUME NEW s \in Sessions, Commit(s)
        PROVE  Kept
    <3> DEFINE i == request[s].of
    <3>1. /\ ~overtaken
          /\ i \in Invoices
          /\ invoice' = [invoice EXCEPT ![i] = invoice'[i]]
          /\ \/ /\ invoice[i].number = None
                /\ settings'.next = settings.next + 1
             \/ /\ invoice'[i].number = invoice[i].number
                /\ invoice'[i].series = invoice[i].series
                /\ settings' = settings
      BY <2>1, CommitNumbers
    <3>2. \A j \in Invoices \ {i} : invoice'[j] = invoice[j]
      BY <3>1 DEF IInv, TypeOK
    <3> QED
      BY <3>1, <3>2, <2>0 DEF Numbered
  <2>2. ASSUME NEW s \in Sessions, Read(s) \/ Lock(s) \/ Fail(s)
        PROVE  Kept
    BY <2>2, <2>0 DEF Read, Lock, Fail, Numbered
  <2>3. CASE ChangeSeries
    BY <2>3, <2>0 DEF ChangeSeries, Numbered, IInv, TypeOK, Settings
  <2> QED
    BY <2>1, <2>2, <2>3 DEF Next
<1> QED
  BY <1>1, Inductive, PTL DEF Spec, NumberIsForever

=============================================================================
