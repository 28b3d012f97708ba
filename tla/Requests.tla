------------------------------ MODULE Requests ------------------------------
(***************************************************************************)
(* Requests from their first byte to their answer: a worker reads the head *)
(* (mongoose.c), event_handler the body (util.c), and handlers read and    *)
(* write files (file.c, api_file.c, api_user.c, users.c, banana.c), which  *)
(* nothing locks.  A connection carries one request: keep-alive is off.    *)
(*                                                                         *)
(* What happens to sessions and users is the matter of Lifecycle, what     *)
(* events do that of EventRing; here a user is somebody whose files these  *)
(* are.  A disk may be full, a browser's connection may break in the       *)
(* middle of a request, and a signal ends the server in the middle of all  *)
(* requests, after which it is started again.                              *)
(*                                                                         *)
(* The operators named Bug... are the next definition with a bug in it;    *)
(* nothing here uses them (see EventRing).                                 *)
(***************************************************************************)
EXTENDS Http, Disk

CONSTANTS
    Conns,             \* connections
    Loads,             \* bound: what the connections of a run ask for
    MaxFaults,         \* bound: broken connections, failed writes, restarts
    NULL               \* nobody, no request

\* What a browser asks for.  The head of a request ends with its first empty line.
EmptyLine(sent, k) ==
    sent[k] = "n" /\ (sent[k + 1] = "n" \/ (k + 2 <= Len(sent) /\ sent[k + 1] = "r" /\ sent[k + 2] = "n"))
IsRequest(r) ==
    LET sent == r.head \o r.body
    IN /\ r.kind \in {"write", "read", "passwd", "login", "guest"}
       /\ r.head \in Seq(Chars) /\ r.body \in Seq(Chars)
       /\ r.content_len \in Int
       /\ \E k \in 1 .. Len(sent) - 1 :
             /\ EmptyLine(sent, k) /\ \A j \in 1 .. k - 1 : ~EmptyLine(sent, j)
             /\ Len(r.head) = IF sent[k + 1] = "n" THEN k + 1 ELSE k + 2

\* What a file may hold: text, a number, or the halves of a digest
Bytes == Chars \cup Int \cup ({"md5", "..."} \X Seq(Chars))

\* A file that is not too large has room for a digest
ASSUME RequestsAssumption ==
    /\ NULL \notin Conns
    /\ \A asked \in Loads : \A c \in Conns : asked[c] = NULL \/ IsRequest(asked[c])
    /\ MaxFaults \in Nat
    /\ MAX_FILE_SIZE >= 2
    /\ NONE \notin Seq(Bytes)

\* The letters of the files a server starts with
ASSUME LettersAssumption == {"x", "y"} \subseteq Chars

VARIABLES
    load,              \* per connection: its request, or NULL
    conn,              \* per connection: how far its request is
    disk,              \* the files
    holder,            \* who holds the users mutex
    guests,            \* the numbers of the guests that were let in, in order
    faults,            \* how many faults there were
    last, torn,        \* history, per file: what the last write should have left there; was
                       \* that write not alone, or did it fail?
    spoilt             \* history: the files with a write that failed or was stopped

history == <<last, torn, spoilt>>
vars == <<load, conn, disk, holder, guests, faults, history>>

Files == {"files/f", "password.md5", "guestcount"}

\* The file a request is about
FileOf(kind) ==
    CASE kind \in {"write", "read"} -> "files/f"
      [] kind \in {"passwd", "login"} -> "password.md5"
      [] OTHER -> "guestcount"
fname(c) == FileOf(load[c].kind)

\* mg_md5, written in two halves to be able to be half there
mg_md5(p) == << <<"md5", p>>, <<"...", p>> >>

Fresh == [pc |-> "none", wire |-> <<>>, gone |-> FALSE, buf |-> <<>>, request_len |-> 0,
          taken |-> <<>>, part |-> 1, value |-> <<>>, size |-> -1, work |-> <<>>,
          got |-> <<>>, saw |-> {}, answer |-> "none"]

At(c, pc) == conn[c].pc = pc

\* The connection goes on as r; it goes on at pc; it is answered
Set(c, r) == conn' = [conn EXCEPT ![c] = r]
Going(c, pc) == [conn[c] EXCEPT !.pc = pc]
Answer(c, what) == [conn[c] EXCEPT !.pc = "closed", !.answer = what]

-----------------------------------------------------------------------------
(* The browser.                                                            *)

\* It connects and sends all of its request
Connect(c) ==
    /\ load[c] # NULL /\ At(c, "none")
    /\ Set(c, [Going(c, "request") EXCEPT !.wire = load[c].head \o load[c].body])
    /\ UNCHANGED <<load, disk, holder, guests, faults, history>>

\* Its connection breaks: some of what it sent does not arrive
BreakOff(c) ==
    /\ faults < MaxFaults
    /\ conn[c].pc \in {"request", "body"} /\ ~conn[c].gone
    /\ \E n \in 0 .. Len(conn[c].wire) - 1 :
          Set(c, [conn[c] EXCEPT !.wire = SubSeq(conn[c].wire, 1, n), !.gone = TRUE])
    /\ faults' = faults + 1
    /\ UNCHANGED <<load, disk, holder, guests, history>>

-----------------------------------------------------------------------------
(* Mongoose reads the head: process_new_connection and read_request.       *)

\* pull: any part of what the browser sent, at most n bytes; or, to keep a run small, all of it
Pulled(c, n) ==
    LET most == Min({n, Len(conn[c].wire)})
    IN {SubSeq(conn[c].wire, 1, k) : k \in IF load[c].in_pieces THEN 1 .. most ELSE {most} \ {0}}
Rest(c, bytes) == SubSeq(conn[c].wire, Len(bytes) + 1, Len(conn[c].wire))
AtEnd(c) == conn[c].wire = <<>> /\ conn[c].gone

ReadRequest(c) ==
    /\ At(c, "request")
    /\ \E bytes \in Pulled(c, BUF_SIZE - Len(conn[c].buf)) :
          LET buf == conn[c].buf \o bytes
              request_len == get_request_len(buf)
              next == CASE request_len = 0 /\ Len(buf) = BUF_SIZE -> Answer(c, "413")
                        [] request_len = 0 /\ Len(buf) < BUF_SIZE -> conn[c]
                        [] request_len < 0 -> Answer(c, "none")
                        [] request_len > 0 -> Going(c, "parse")
          IN Set(c, [next EXCEPT !.wire = Rest(c, bytes), !.buf = buf,
                                 !.request_len = request_len])
    /\ UNCHANGED <<load, disk, holder, guests, faults, history>>

\* The remote end closed the connection
RemoteClosed(c) ==
    /\ At(c, "request") /\ AtEnd(c)
    /\ Set(c, Answer(c, "none"))
    /\ UNCHANGED <<load, disk, holder, guests, faults, history>>

-----------------------------------------------------------------------------
(* init_conndata: the body of a form, if there is one.                     *)

IsForm(c) == load[c].method = "POST" /\ load[c].form

\* mg_read begins with what came along with the head
FromHead(c) ==
    FromBuffer(conn[c].buf, conn[c].request_len, Len(conn[c].taken),
               ToRead(BUFF_LEN, load[c].content_len, Len(conn[c].taken)))

\* parse_http_request; event_handler is called
Parse(c) ==
    /\ At(c, "parse")
    /\ Set(c, CASE load[c].method \notin {"GET", "POST", "HEAD", "PUT", "DELETE", "CONNECT"} ->
                       Answer(c, "400")
                [] IsForm(c) -> [Going(c, "body") EXCEPT !.taken = FromHead(c)]
                [] OTHER -> Going(c, "handler"))
    /\ UNCHANGED <<load, disk, holder, guests, faults, history>>

\* How many bytes this call of mg_read still waits for
BugWanted(c) == conn[c].part * BUFF_LEN - Len(conn[c].taken)
Wanted(c) == Min({conn[c].part * BUFF_LEN, Max({0, load[c].content_len})}) - Len(conn[c].taken)

ReadBody(c) ==
    /\ At(c, "body") /\ Wanted(c) > 0
    /\ \E bytes \in Pulled(c, Wanted(c)) :
          Set(c, [conn[c] EXCEPT !.taken = @ \o bytes, !.wire = Rest(c, bytes)])
    /\ UNCHANGED <<load, disk, holder, guests, faults, history>>

\* mg_read returns.  After a first read that filled the buffer there is a second one, whose
\* result is ignored.
ReadReturns(c) ==
    /\ At(c, "body") /\ (Wanted(c) <= 0 \/ AtEnd(c))
    /\ Set(c, IF conn[c].part = 1 /\ Len(conn[c].taken) = BUFF_LEN
              THEN [conn[c] EXCEPT !.part = 2, !.taken = @ \o FromHead(c)]
              ELSE [Going(c, "handler") EXCEPT
                        !.value = SubSeq(conn[c].taken, 1, Min({BUFF_LEN, Len(conn[c].taken)}))])
    /\ UNCHANGED <<load, disk, holder, guests, faults, history>>

-----------------------------------------------------------------------------
(* Handlers.                                                               *)

get_qsvar(c, name) == mg_get_var(conn[c].value, name)

\* event_handler: api_file_write, api_user_setpass, handle_login, read_user_file and
\* handle_guest up to the first file they touch
Handle(c) ==
    /\ At(c, "handler")
    /\ LET needs == CASE load[c].kind = "write" -> {"file=", "contents="}
                      [] load[c].kind = "passwd" -> {"newpassword="}
                      [] load[c].kind = "login" -> {"password="}
                      [] OTHER -> {}
           work == CASE load[c].kind = "write" -> get_qsvar(c, "contents=")
                     [] load[c].kind = "passwd" -> mg_md5(get_qsvar(c, "newpassword="))
                     [] load[c].kind = "login" -> mg_md5(get_qsvar(c, "password="))
                     [] OTHER -> <<>>
           next == CASE load[c].kind \in {"write", "passwd"} -> "open"
                     [] load[c].kind \in {"login", "read"} -> "stat"
                     [] load[c].kind = "guest" -> "lock"
       IN Set(c, IF \E name \in needs : get_qsvar(c, name) = NOT_FOUND
                 THEN Answer(c, "not provided")
                 ELSE [Going(c, next) EXCEPT !.work = work])
    /\ UNCHANGED <<load, disk, holder, guests, faults, history>>

\* user_guest takes the users mutex
BugMayLock(c) == TRUE
MayLock(c) == holder = NULL
Lock(c) ==
    /\ At(c, "lock") /\ MayLock(c)
    /\ holder' = c
    /\ Set(c, Going(c, "stat"))
    /\ UNCHANGED <<load, disk, guests, faults, history>>

\* file_size, file_exists or stat
Stat(c) ==
    /\ At(c, "stat")
    /\ LET file == disk[fname(c)] IN
         Set(c, IF file = NONE /\ load[c].kind # "guest" THEN Answer(c, "no file")
                ELSE [Going(c, "fetch") EXCEPT !.size = file_size(file), !.saw = {file}])
    /\ UNCHANGED <<load, disk, holder, guests, faults, history>>

\* The file is opened and read: file_read_to_conn sends what it finds, handle_login compares,
\* user_guest counts
Fetch(c) ==
    /\ At(c, "fetch")
    /\ LET file == disk[fname(c)]
           size == conn[c].size
           guestid == file_readnum(file_read(file, size), 1)
       IN Set(c, CASE load[c].kind = "read" ->
                        [Answer(c, "200") EXCEPT !.got = Fetched(file, size)]
                   [] load[c].kind = "login" ->
                        Answer(c, IF file_read(file, size) = conn[c].work THEN "in" ELSE "refused")
                   [] load[c].kind = "guest" ->
                        [Going(c, "open") EXCEPT !.got = <<guestid>>, !.work = <<guestid + 1>>])
    /\ UNCHANGED <<load, disk, holder, guests, faults, history>>

-----------------------------------------------------------------------------
(* file_write, and what is done after it, whatever it returned.            *)

Writing(name) == {d \in Conns : At(d, "flush") /\ fname(d) = name}

\* After file_write: an event or nothing; a guest is let in and the mutex given back
AfterWrite(c) ==
    /\ holder' = IF load[c].kind = "guest" THEN NULL ELSE holder
    /\ guests' = IF load[c].kind = "guest" THEN guests \o conn[c].got ELSE guests

\* The file is file now, whoever is about to read it; c goes on as r
DiskIs(c, file, r) ==
    /\ disk' = [disk EXCEPT ![fname(c)] = file]
    /\ conn' = [d \in Conns |->
          IF d = c THEN r
          ELSE IF At(d, "fetch") /\ fname(d) = fname(c)
               THEN [conn[d] EXCEPT !.saw = @ \cup {file}]
          ELSE conn[d]]

Open(c) ==
    /\ At(c, "open")
    /\ DiskIs(c, Opened(disk[fname(c)]), Going(c, "flush"))
    /\ torn' = [torn EXCEPT ![fname(c)] = Writing(fname(c)) # {}]
    /\ UNCHANGED <<load, holder, guests, faults, last, spoilt>>

OpenFails(c) ==
    /\ At(c, "open") /\ faults < MaxFaults
    /\ Set(c, Answer(c, "written"))
    /\ AfterWrite(c)
    /\ faults' = faults + 1
    /\ spoilt' = spoilt \cup {fname(c)}
    /\ UNCHANGED <<load, disk, last, torn>>

Flush(c) ==
    /\ At(c, "flush")
    /\ DiskIs(c, Written(disk[fname(c)], conn[c].work), Answer(c, "written"))
    /\ AfterWrite(c)
    /\ last' = [last EXCEPT ![fname(c)] = conn[c].work]
    /\ UNCHANGED <<load, faults, torn, spoilt>>

\* The disk is full
FlushFails(c) ==
    /\ At(c, "flush") /\ faults < MaxFaults
    /\ \E n \in 0 .. Len(conn[c].work) - 1 :
          DiskIs(c, Written(disk[fname(c)], SubSeq(conn[c].work, 1, n)), Answer(c, "written"))
    /\ AfterWrite(c)
    /\ faults' = faults + 1
    /\ torn' = [torn EXCEPT ![fname(c)] = TRUE]
    /\ spoilt' = spoilt \cup {fname(c)}
    /\ UNCHANGED <<load, last>>

-----------------------------------------------------------------------------
(* The server ends and is started again; files are what is left.           *)

Restart ==
    /\ faults < MaxFaults
    /\ conn' = [c \in Conns |->
          IF conn[c].pc \in {"none", "closed"} THEN conn[c] ELSE Answer(c, "cut off")]
    /\ holder' = NULL
    /\ faults' = faults + 1
    /\ torn' = [f \in Files |-> torn[f] \/ Writing(f) # {}]
    /\ spoilt' = spoilt \cup {f \in Files : Writing(f) # {}}
    /\ UNCHANGED <<load, disk, guests, last>>

-----------------------------------------------------------------------------

Init ==
    /\ load \in Loads
    /\ conn = [c \in Conns |-> Fresh]
    /\ last = [f \in Files |-> CASE f = "files/f" -> <<"x", "y", "x">>
                                 [] f = "password.md5" -> mg_md5(<<"x">>)
                                 [] f = "guestcount" -> NONE]
    /\ disk = last
    /\ torn = [f \in Files |-> FALSE] /\ spoilt = {}
    /\ holder = NULL /\ guests = <<>> /\ faults = 0

Serve(c) ==
    \/ ReadRequest(c) \/ RemoteClosed(c) \/ Parse(c) \/ ReadBody(c) \/ ReadReturns(c)
    \/ Handle(c) \/ Stat(c) \/ Fetch(c) \/ Open(c) \/ OpenFails(c) \/ Flush(c) \/ FlushFails(c)

Next ==
    \/ \E c \in Conns : Connect(c) \/ BreakOff(c) \/ Serve(c) \/ Lock(c)
    \/ Restart

Spec == Init /\ [][Next]_vars

\* Workers run, and the users mutex is got in the end
FairSpec == Spec /\ \A c \in Conns : WF_vars(Serve(c)) /\ SF_vars(Lock(c))

-----------------------------------------------------------------------------
(* Properties.                                                             *)

Started(c) == load[c] # NULL /\ conn[c].pc # "none"

TypeOK ==
    /\ \A c \in Conns :
          /\ conn[c].pc \in {"none", "request", "parse", "body", "handler", "lock", "stat",
                             "fetch", "open", "flush", "closed"}
          /\ Len(conn[c].buf) <= BUF_SIZE
          /\ conn[c].request_len <= Len(conn[c].buf)
          /\ Started(c) => Len(conn[c].taken) <= Max({0, load[c].content_len})
    /\ holder \in Conns \cup {NULL}
    /\ faults \in 0 .. MaxFaults
    /\ \A c \in Conns : conn[c].pc # "none" => load[c] # NULL

\* However its bytes arrive, a handler sees the body from its first byte on, as far as
\* Content-Length and the buffer go, and it is cut short only by a connection that broke
\* (mongoose.c:1368-1416, util.c:223-240)
BodyAsSent ==
    \A c \in Conns :
        Started(c) /\ conn[c].pc \notin {"request", "parse", "body"} /\ conn[c].answer # "cut off" =>
            LET sent == load[c].body
                n == Min({Len(sent), BUFF_LEN, Max({0, load[c].content_len})})
            IN /\ IsPrefix(conn[c].value, sent)
               /\ Len(conn[c].value) <= n
               /\ IsForm(c) /\ conn[c].request_len > 0 /\ conn[c].answer # "400" /\ ~conn[c].gone =>
                    Len(conn[c].value) = n

\* A file holds what the last write should have left there, unless that write was not alone,
\* failed, or was stopped; nothing of what was there before is left over (file.c:102-126)
LastWriteStays ==
    \A f \in Files : ~torn[f] /\ Writing(f) = {} => disk[f] = last[f]

\* Files are read without a lock: a page gets the whole of a file unless somebody wrote it
\* meanwhile, and never more than the Content-Length it was told (file.c:191-258); a login is
\* accepted only with a password that was valid during it, and refused with it only if there
\* was another one (banana.c:157-175)
ReadsAreRight ==
    \A c \in Conns :
        /\ conn[c].answer = "200" =>
              /\ Len(conn[c].got) <= conn[c].size
              /\ conn[c].saw = {conn[c].got} \/ Cardinality(conn[c].saw) > 1
        /\ conn[c].answer = "in" => conn[c].work \in conn[c].saw
        /\ conn[c].answer = "refused" => conn[c].saw # {conn[c].work}

\* Guests get different numbers, before and after a restart, until a write of guestcount fails
\* or is stopped (users.c:37-66)
GuestsDistinct == "guestcount" \notin spoilt => IsInjective(guests)

\* Every request ends: a worker is not kept for ever by a request whose bytes have all come, or
\* whose connection broke
EveryRequestEnds == []<>(\A c \in Conns : Started(c) => At(c, "closed"))

\* Violated: a file.write that is told to have been written was written in full, as text up to
\* 1MB is allowed ("Exceeding it will cause an onWriteFail event", html/API.txt:188-189);
\* util.c:225-230 keeps the first BUFF_LEN bytes
WrittenInFull ==
    \A c \in Conns : Started(c) /\ load[c].kind = "write" /\ conn[c].answer = "written" =>
        conn[c].work = load[c].text
=============================================================================
