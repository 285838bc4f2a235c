-------------------------- MODULE InvoiceNumbering --------------------------
(***************************************************************************)
(* How the invoices of one workspace get their numbers.                    *)
(*                                                                         *)
(* A request reads the invoice and the workspace's settings, decides on    *)
(* what it read, and writes the columns it changes at its commit.  To      *)
(* number an invoice it takes the settings row with SELECT ... FOR UPDATE; *)
(* but that row is in its session already, and the SELECT, which does not  *)
(* ask for populate_existing, leaves the object as it was loaded: the      *)
(* number is the one read before the wait.                                 *)
(***************************************************************************)
EXTENDS Naturals

CONSTANTS
    Invoices,   \* the ids an invoice can have
    Sessions,   \* database sessions, each serving a request at a time
    Series,     \* the names the series can have
    None        \* SQL NULL, and nobody

ASSUME NumberingAssumption ==
    /\ None \notin Series
    /\ None \notin Nat
    /\ None \notin Sessions
    /\ None \notin Invoices

VARIABLES
    invoice,   \* the invoices, as committed
    settings,  \* the numbering columns of invoice_settings, as committed
    lock,      \* the session that holds the settings row
    request,   \* what each session is at
    overtaken, \* history: a request wrote what it had decided on a row that
               \* had changed meanwhile
    lost       \* history: the numbers that such a request took off an invoice

vars == <<invoice, settings, lock, request, overtaken, lost>>

Labels == Series \cup {None}
Statuses == {"free", "draft", "open", "uncollectible", "void", "gone"}
Rows == [status: Statuses, local: BOOLEAN, number: Nat \cup {None},
         series: Labels]
Settings == [next: Nat \ {0}, series: Labels]

Creating == {"create", "create_draft", "import"}
Ops == Creating \cup {"issue", "void", "write_off", "reopen", "delete"}
Locking == {"create", "import", "issue"}

(* read and held are the invoice and the settings as the session has them. *)
Requests == [pc: {"idle", "read", "locked"}, op: Ops,
             of: Invoices \cup {None}, read: Rows, held: Settings]

Free == [status |-> "free", local |-> TRUE, number |-> None, series |-> None]
Defaults == [next |-> 1, series |-> None]
Idle == [pc |-> "idle", op |-> "issue", of |-> None, read |-> Free,
         held |-> Defaults]

Init ==
    /\ invoice = [i \in Invoices |-> Free]
    /\ settings = Defaults
    /\ lock = None
    /\ request = [s \in Sessions |-> Idle]
    /\ overtaken = FALSE
    /\ lost = {}

-----------------------------------------------------------------------------
(* Mutant of Allowed: a void invoice may be deleted too.  *)
AllowedToForget(op, status) ==
    CASE op \in Creating          -> status = "free"
      [] op = "issue"             -> status = "draft"
      [] op = "void"              -> status \in {"open", "uncollectible"}
      [] op = "write_off"         -> status = "open"
      [] op = "reopen"            -> status = "uncollectible"
      [] op = "delete"            -> status \in {"draft", "void"}

(* What each operation asks of the status it read.  *)
Allowed(op, status) ==
    CASE op \in Creating          -> status = "free"
      [] op \in {"issue", "delete"} -> status = "draft"
      [] op = "void"              -> status \in {"open", "uncollectible"}
      [] op = "write_off"         -> status = "open"
      [] op = "reopen"            -> status = "uncollectible"

(* A request loads its invoice and the settings; a new row has a new id.   *)
Read(s) ==
    /\ request[s].pc = "idle"
    /\ \E op \in Ops, i \in Invoices :
        /\ Allowed(op, invoice[i].status)
        /\ op \in Creating => \A t \in Sessions : request[t].of # i
        /\ request' = [request EXCEPT ![s] =
             [pc |-> "read", op |-> op, of |-> i, read |-> invoice[i],
              held |-> settings]]
    /\ UNCHANGED <<invoice, settings, lock, overtaken, lost>>

(* _settings_for_update waits, and keeps what the session holds.  *)
Lock(s) ==
    /\ request[s].pc = "read"
    /\ request[s].op \in Locking
    /\ lock = None
    /\ lock' = s
    /\ request' = [request EXCEPT ![s].pc = "locked"]
    /\ UNCHANGED <<invoice, settings, overtaken, lost>>

(* Mutant of Consumes: an imported document takes a number too.  *)
ConsumesAlways(op) == op \in Locking

(* Mutant of Consumes: issuing a draft leaves the counter where it was.  *)
ConsumesOnCreate(op) == op = "create"

(* _issue numbers only what is ours.  *)
Consumes(op) == op \in {"create", "issue"}

(* Mutant of Written: the operation's name is stored as the status.  *)
WrittenAsNamed(op, r, held) ==
    [r EXCEPT !.status = CASE op = "create_draft" -> "draft"
                           [] op = "reopen"       -> "open"
                           [] OTHER               -> op]

(* The columns that an operation writes on the row as it stands.  A series *)
(* that is NULL is not a change of what a draft had.                       *)
Written(op, r, held) ==
    CASE op = "create_draft" -> [r EXCEPT !.status = "draft"]
      [] op = "import"    -> [r EXCEPT !.status = "open", !.local = FALSE]
      [] op = "void"      -> [r EXCEPT !.status = "void"]
      [] op = "write_off" -> [r EXCEPT !.status = "uncollectible"]
      [] op = "reopen"    -> [r EXCEPT !.status = "open"]
      [] op = "delete"    -> [Free EXCEPT !.status = "gone"]
      [] op \in {"create", "issue"} ->
            [r EXCEPT !.status = "open", !.number = held.next,
                      !.series = IF held.series = None THEN @ ELSE held.series]

Ready(s) ==
    request[s].pc = IF request[s].op \in Locking THEN "locked" ELSE "read"

(* The unique constraint on (series, number), in which NULLs are distinct. *)
Duplicates(i, r) ==
    /\ r.number # None /\ r.series # None
    /\ \E j \in Invoices \ {i} :
         invoice[j].number = r.number /\ invoice[j].series = r.series

(* Mutant of Advanced: the counter is incremented in SQL.  *)
AdvancedInSQL(held) == settings.next + 1

(* next_number += 1, on the counter as the session has it.  *)
Advanced(held) == held.next + 1

(* The flush and the commit.  An UPDATE that finds no row, or breaks the   *)
(* constraint, leaves the request only to Fail.                            *)
Commit(s) ==
    LET q == request[s]
        r == Written(q.op, invoice[q.of], q.held)
    IN  /\ Ready(s)
        /\ q.op # "delete" => invoice[q.of].status # "gone"
        /\ ~Duplicates(q.of, r)
        /\ invoice' = [invoice EXCEPT ![q.of] = r]
        /\ settings' = IF Consumes(q.op)
                       THEN [settings EXCEPT !.next = Advanced(q.held)]
                       ELSE settings
        /\ overtaken' = (\/ overtaken
                         \/ invoice[q.of] # q.read
                         \/ Consumes(q.op) /\ settings # q.held)
        /\ lost' = IF invoice[q.of] # q.read
                   THEN lost \cup ({invoice[q.of].number} \ {None, r.number})
                   ELSE lost
        /\ lock' = IF lock = s THEN None ELSE lock
        /\ request' = [request EXCEPT ![s] = Idle]

(* The request ends in an error, or its process dies.  *)
Fail(s) ==
    /\ request[s].pc # "idle"
    /\ lock' = IF lock = s THEN None ELSE lock
    /\ request' = [request EXCEPT ![s] = Idle]
    /\ UNCHANGED <<invoice, settings, overtaken, lost>>

(* update_settings writes the series and nothing else of the numbering;    *)
(* its UPDATE waits for the lock.                                          *)
ChangeSeries ==
    /\ lock = None
    /\ \E label \in Labels : settings' = [settings EXCEPT !.series = label]
    /\ UNCHANGED <<invoice, lock, request, overtaken, lost>>

Next ==
    \/ \E s \in Sessions : Read(s) \/ Lock(s) \/ Commit(s) \/ Fail(s)
    \/ ChangeSeries

Spec == Init /\ [][Next]_vars

-----------------------------------------------------------------------------
(* The type of every variable.  *)
TypeOK ==
    /\ invoice \in [Invoices -> Rows]
    /\ settings \in Settings
    /\ lock \in Sessions \cup {None}
    /\ request \in [Sessions -> Requests]
    /\ overtaken \in BOOLEAN
    /\ lost \subseteq Nat

Numbered == {i \in Invoices : invoice[i].number # None}

(* The numbers that an invoice has, or had until a stale request took them. *)
Used == {invoice[i].number : i \in Numbered} \cup lost

(* Nothing is ever skipped, however the requests overlap: below the counter *)
(* and below a number in use, every number is one an invoice has or had.   *)
(* A locked read that returns the counter from before its wait may assign a *)
(* number twice, and a stale delete or issue may take one off an invoice,  *)
(* but a deleted draft, an import, a failed request, a void and a change   *)
(* of the series never use one up.  This is the one counter of the         *)
(* workspace: models/invoice.py says "gapless within a series", and a      *)
(* series that is left and taken up again has gaps, those numbers being    *)
(* in the other series.                                                    *)
Gapless ==
    /\ 1 .. settings.next - 1 \subseteq Used
    /\ \A n \in Used : 1 .. n - 1 \subseteq Used

(* While no request was overtaken, no number is on two invoices, none is   *)
(* lost, and the counter has passed every one of them.                     *)
OneNumberEach ==
    ~overtaken =>
        /\ \A i, j \in Numbered :
              invoice[i].number = invoice[j].number => i = j
        /\ \A i \in Numbered : invoice[i].number < settings.next
        /\ lost = {}

(* An invoice keeps its number and series through everything that happens  *)
(* to it, and the counter never goes back, while no request is overtaken.  *)
NumberIsForever ==
    [][~overtaken' =>
        /\ \A i \in Numbered : /\ invoice'[i].number = invoice[i].number
                               /\ invoice'[i].series = invoice[i].series
        /\ settings'.next >= settings.next]_vars

-----------------------------------------------------------------------------
(* _issue: "Our counter only ever moves forward, and a voided invoice      *)
(* keeps the number it consumed: reusing one would put two documents under *)
(* a single identifier"; _settings_for_update: "The row lock makes the     *)
(* second wait rather than fail."                                          *)

(* No two invoices of a series have the same number.  *)
NumberNamesOneInvoice ==
    \A i, j \in Numbered :
        i # j => \/ invoice[i].number # invoice[j].number
                 \/ invoice[i].series # invoice[j].series

=============================================================================
