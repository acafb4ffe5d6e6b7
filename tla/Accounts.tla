------------------------------- MODULE Accounts -------------------------------
(***************************************************************************)
(* One password account (auth/password.go) in a file database              *)
(* (auth/database.go): logins and changes of the password in several       *)
(* goroutines, the administrator's updates, lockout, backup and restore,   *)
(* failed writes and crashes.                                              *)
(*                                                                         *)
(* GetUser hands out the stored pointer; a login that succeeds puts the    *)
(* record it was handed back, and a change of the password writes into it  *)
(* first, under no lock: records are objects with a number.  A lock may    *)
(* end at any moment: how long it lasts is left out.                       *)
(***************************************************************************)
EXTENDS Naturals, Sequences, FiniteSets

CONSTANTS
    Logins,        \* goroutines in Authenticate
    Changers,      \* goroutines in ResetPassword, or in ChangePassword after its login
    maxRetries,
    MaxRecords,    \* bound: records made
    MaxGuesses     \* bound: failed logins counted

VARIABLES
    record,      \* the records made: a sequence of [password, enabled]
    table,       \* users[username]: a record's number, 0 = none
    file,        \* the file's record by value, or Absent or Torn
    backup,
    login,       \* [Logins -> [phase, held]]
    changer,     \* [Changers -> [phase, held]]
    failed,      \* failedLogins[username]: [count, lock], "set" while lockedUntil is ahead
    guesses,     \* history: wrong passwords counted since the last success or expiry
    unsaved,     \* history: the last save failed
    up           \* the database loaded; without it nothing runs

vars == <<record, table, file, backup, login, changer, failed, guesses, unsaved, up>>

Passwords == {"old", "new"}
Value == [password : Passwords, enabled : BOOLEAN]
NoRecord == 0
Absent == [password |-> "absent", enabled |-> FALSE]   \* a file without the user
Torn == [password |-> "torn", enabled |-> FALSE]
Nothing == [password |-> "nothing", enabled |-> FALSE]

TypeOK ==
    /\ record \in Seq(Value) /\ Len(record) <= MaxRecords
    /\ table \in {NoRecord} \cup DOMAIN record
    /\ file \in Value \cup {Absent, Torn}
    /\ backup \in Value \cup {Nothing, Absent, Torn}
    /\ login \in [Logins -> [phase : {"idle", "unlocked", "got", "matched"},
                            held : {NoRecord} \cup DOMAIN record]]
    /\ changer \in [Changers -> [phase : {"idle", "looked", "changed"},
                                held : {NoRecord} \cup DOMAIN record]]
    /\ failed \in [count : 0 .. MaxGuesses, lock : {"none", "set"}]
    /\ guesses \in 0 .. MaxGuesses
    /\ unsaved \in BOOLEAN /\ up \in BOOLEAN

NobodyFailed == [count |-> 0, lock |-> "none"]
Idle == [phase |-> "idle", held |-> NoRecord]

Init ==
    /\ record = <<[password |-> "old", enabled |-> TRUE]>> /\ table = 1
    /\ file = record[1] /\ backup = Nothing
    /\ login = [l \in Logins |-> Idle] /\ changer = [c \in Changers |-> Idle]
    /\ failed = NobodyFailed
    /\ guesses = 0 /\ unsaved = FALSE /\ up = TRUE

Memory(t, r) == IF t = NoRecord THEN Absent ELSE r[t]

(* save writes the table over the file, which is truncated first; an error leaves
   the file as it was, or torn, and the table changed. *)
Save ==
    \/ file' = Memory(table', record') /\ unsaved' = FALSE
    \/ file' \in {file, Torn} /\ unsaved' = TRUE

(* The database's UpdateUser with a record that GetUser handed out earlier: it
   undoes a replacement made since, and finds no user after a deletion. *)
PutBack(held) ==
    /\ UNCHANGED record
    /\ IF table = NoRecord THEN UNCHANGED <<table, file, unsaved>>
       ELSE table' = held /\ Save

-----------------------------------------------------------------------------
(* Authenticate: the lock test, the lookup, the comparison and the write-back are
   four steps, and the table's mutex is held in none of the gaps. *)

isLocked == failed.lock = "set"

CheckLock(l) ==
    /\ login[l].phase = "idle" /\ ~ isLocked
    /\ login' = [login EXCEPT ![l].phase = "unlocked"]
    /\ UNCHANGED <<record, table, file, backup, changer, failed, guesses, unsaved>>

GetUser(l) ==
    /\ login[l].phase = "unlocked" /\ table # NoRecord
    /\ login' = [login EXCEPT ![l] = [phase |-> "got", held |-> table]]
    /\ UNCHANGED <<record, table, file, backup, changer, failed, guesses, unsaved>>

(* The password given is any: it matches the record's, or it fails.
   recordFailedAttempt: the count outlives the lock it has set. *)
\* mutant: one failure more than maxRetries locks
LocksLate(count) == count > maxRetries
Locks(count) == count >= maxRetries

RecordFailed ==
    LET count == failed.count + 1
    IN  /\ guesses < MaxGuesses /\ count <= MaxGuesses /\ guesses' = guesses + 1
        /\ failed' = [count |-> count, lock |-> IF Locks(count) THEN "set" ELSE failed.lock]

Fails(l) ==
    /\ \/ login[l].phase = "unlocked" /\ table = NoRecord
       \/ login[l].phase = "got" /\ record[login[l].held].enabled
    /\ RecordFailed /\ login' = [login EXCEPT ![l] = Idle]
    /\ UNCHANGED <<record, table, file, backup, changer, unsaved>>

(* A disabled user, or a token of the second factor that was not given. *)
Declines(l) ==
    /\ login[l].phase = "got" /\ login' = [login EXCEPT ![l] = Idle]
    /\ UNCHANGED <<record, table, file, backup, changer, failed, guesses, unsaved>>

Matches(l) ==
    /\ login[l].phase = "got" /\ record[login[l].held].enabled
    /\ login' = [login EXCEPT ![l].phase = "matched"]
    /\ failed' = NobodyFailed /\ guesses' = 0
    /\ UNCHANGED <<record, table, file, backup, changer, unsaved>>

(* The error of UpdateUser is dropped. *)
WriteBack(l) ==
    /\ login[l].phase = "matched" /\ login' = [login EXCEPT ![l] = Idle]
    /\ PutBack(login[l].held)
    /\ UNCHANGED <<backup, changer, failed, guesses>>

-----------------------------------------------------------------------------
(* ResetPassword, and ChangePassword once its login has succeeded: the lookup, the
   write into the record handed out, and UpdateUser.  The write holds no lock; hashes
   are all of one length, so who reads meanwhile sees the old one or the new.  A new
   hash differs, as its salt is new. *)

Looks(c) ==
    /\ changer[c].phase = "idle" /\ table # NoRecord
    /\ changer' = [changer EXCEPT ![c] = [phase |-> "looked", held |-> table]]
    /\ UNCHANGED <<record, table, file, backup, login, failed, guesses, unsaved>>

Changes(c, password) ==
    /\ changer[c].phase = "looked" /\ record[changer[c].held].password # password
    /\ record' = [record EXCEPT ![changer[c].held].password = password]
    /\ changer' = [changer EXCEPT ![c].phase = "changed"]
    /\ UNCHANGED <<table, file, backup, login, failed, guesses, unsaved>>

Stores(c) ==
    /\ changer[c].phase = "changed" /\ changer' = [changer EXCEPT ![c] = Idle]
    /\ PutBack(changer[c].held)
    /\ UNCHANGED <<backup, login, failed, guesses>>

-----------------------------------------------------------------------------
(* The administrator's new records: UpdateUser, CreateUser and Restore. *)

Made(value) ==
    /\ Len(record) < MaxRecords
    /\ record' = Append(record, value) /\ table' = Len(record')

UpdateUser(value) ==
    /\ table # NoRecord /\ value # record[table] /\ Made(value) /\ Save
    /\ UNCHANGED <<backup, login, changer, failed, guesses>>

CreateUser(password) ==
    /\ table = NoRecord /\ Made([password |-> password, enabled |-> TRUE]) /\ Save
    /\ UNCHANGED <<backup, login, changer, failed, guesses>>

DeleteUser ==
    /\ table # NoRecord /\ table' = NoRecord /\ UNCHANGED record /\ Save
    /\ UNCHANGED <<backup, login, changer, failed, guesses>>

(* Backup copies the file, not the table. *)
Backup ==
    /\ backup' = file
    /\ UNCHANGED <<record, table, file, login, changer, failed, guesses, unsaved>>

Restore ==
    /\ \/ backup \in Value /\ Made(backup)
       \/ backup = Absent /\ table' = NoRecord /\ UNCHANGED record
    /\ Save
    /\ UNCHANGED <<backup, login, changer, failed, guesses>>

-----------------------------------------------------------------------------
(* A crash, between two operations or in the middle of save's write, and the
   restart that loads the file; a torn file is an error, and nothing starts. *)

Crash(during) ==
    /\ file' = (IF during THEN Torn ELSE file) /\ up' = (file' # Torn)
    /\ login' = [l \in Logins |-> Idle] /\ changer' = [c \in Changers |-> Idle]
    /\ failed' = NobodyFailed /\ guesses' = 0 /\ unsaved' = FALSE
    /\ IF file' \in Value THEN table' = 1 /\ record' = <<file'>>
       ELSE table' = NoRecord /\ record' = <<>>
    /\ UNCHANGED backup

(* lockedUntil has come; the count stays. *)
LockEnds ==
    /\ isLocked /\ failed' = [failed EXCEPT !.lock = "none"] /\ guesses' = 0
    /\ UNCHANGED <<record, table, file, backup, login, changer, unsaved>>

Serve ==
    /\ UNCHANGED up
    /\ \/ \E l \in Logins : CheckLock(l) \/ GetUser(l) \/ Fails(l) \/ Declines(l)
                             \/ Matches(l) \/ WriteBack(l)
       \/ \E c \in Changers : Looks(c) \/ Stores(c)
       \/ \E c \in Changers, password \in Passwords : Changes(c, password)
       \/ \E password \in Passwords : CreateUser(password)
       \/ \E value \in Value : UpdateUser(value)
       \/ DeleteUser \/ Backup \/ Restore \/ LockEnds

Next == up /\ (Serve \/ Crash(TRUE) \/ Crash(FALSE))

Spec == Init /\ [][Next]_vars

-----------------------------------------------------------------------------

(* Until a success or the end of a lock, no more wrong passwords are tried than
   maxRetries and one for each other login that had passed the lock test. *)
GuessesBounded == guesses <= maxRetries + Cardinality(Logins) - 1

(* The file holds what the table holds, unless the last save failed, of which the end of
   a login tells nobody; or the table's record is being changed, and then the file has
   an earlier password and nothing else that differs. *)
FileFollows ==
    up /\ ~ unsaved =>
        LET memory == Memory(table, record)
        IN  \/ file = memory
            \/ /\ \E c \in Changers : changer[c] = [phase |-> "changed", held |-> table]
               /\ file = [memory EXCEPT !.password = file.password]
               /\ file.password \in Passwords
=============================================================================
