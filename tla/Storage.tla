------------------------------ MODULE Storage ------------------------------
(***************************************************************************)
(* What the workers keep for their users: the tables users and files of    *)
(* the database and the files on disk, as the handlers (server/responder.c) *)
(* and their queries (server/sql_helpers.c) change them.  A worker runs one *)
(* handler at a time, under its lock; the handlers of different workers     *)
(* interleave between their queries and system calls, and a worker may end *)
(* between any two of them.  Each query is atomic here (SqlPipe shows when *)
(* it is); a statement that fails or is cut changes nothing, and no handler *)
(* looks at the result of an INSERT.                                       *)
(*                                                                         *)
(* The home of a user is "/fs/" and its name; the account the database     *)
(* comes with, Root, lives in "/fs/" itself.  Aliases are plain file names, *)
(* so a path is a home and an alias.  Handlers that answer with an error   *)
(* change nothing and are not steps.                                       *)
(***************************************************************************)
EXTENDS Integers, Sequences, FiniteSets

CONSTANTS
  Workers,    \* worker processes, each with one client
  Names,      \* user names
  Root,       \* the administrator in the database from the start
  Extends,    \* <<n, m>>: "path LIKE 'home of n%'" matches the paths of m
  Aliases,    \* names of files
  Passwords,  \* passwords
  MaxUsers,   \* bound: rows of users
  MaxFiles,   \* bound: rows of files
  MaxFaults   \* bound: forks and INSERTs that fail, posts that are cut off

ASSUME StorageAssumption ==
  /\ Root \in Names /\ "none" \notin Aliases
  /\ Extends \subseteq Names \X Names
  /\ \A n \in Names : <<n, n>> \in Extends
  /\ MaxUsers \in Nat /\ MaxFiles \in Nat /\ MaxFaults \in Nat

VARIABLES
  users,     \* table users: user_id is the position of a row
  files,     \* table files, in the order of insertion
  dirs,      \* names whose home is a directory on disk
  disk,      \* per path: absent, partial (opened, not closed), whole, mixed
  user,      \* per worker: the global user, a copy of the row made at login
  pc,        \* per worker: how far its handler is
  key,       \* per worker: the path or account its handler works on
  \* history
  raced,     \* keys that two handlers had both checked before either inserted
  torn,      \* paths whose post was cut off by the end of its worker
  homeless,  \* names for which fork failed in create_user_folder
  unlisted,  \* paths whose INSERT failed or was cut
  acked      \* paths whose post was answered with "File OK"

database == <<users, files>>
history == <<raced, torn, homeless, unlisted, acked>>
vars == <<database, dirs, disk, user, pc, key, history>>

\* A path, or with alias "none" the account of that name.
Paths == [home : Names, alias : Aliases]
Keys == [home : Names, alias : Aliases \cup {"none"}]
Account(n) == [home |-> n, alias |-> "none"]

UserRows == [name : Names, pass : Passwords, admin : {"yes", "no"}]
NoUser == [id |-> 0, home |-> Root, admin |-> "no"]

Init ==
  /\ \E p \in Passwords : users = <<[name |-> Root, pass |-> p, admin |-> "yes"]>>
  /\ files = <<>>
  /\ dirs = {Root}
  /\ disk = [k \in Paths |-> "absent"]
  /\ user = [w \in Workers |-> NoUser]
  /\ pc = [w \in Workers |-> "idle"]
  /\ key = [w \in Workers |-> Account(Root)]
  /\ raced = {} /\ torn = {} /\ homeless = {} /\ unlisted = {} /\ acked = {}

At(w, state) == pc[w] = state
Goto(w, state) == pc' = [pc EXCEPT ![w] = state]

\* The end of a handler.
Done(w) == Goto(w, "idle") /\ key' = [key EXCEPT ![w] = Account(Root)]

\* The beginning of a handler: nothing runs, and check_user_logged agrees.
Starts(w) == At(w, "idle") /\ user[w] # NoUser

-----------------------------------------------------------------------------
(* Queries.                                                                *)

\* Mutant: the last row of an answer is taken.
Highest(S) == CHOOSE i \in S : \A j \in S : j <= i

\* run_sqlite_query hands out the first row of an answer.
Lowest(S) == CHOOSE i \in S : \A j \in S : i <= j

\* Rows of users with this name and password; the first one is the answer.
Identified(n, p) == {i \in DOMAIN users : users[i].name = n /\ users[i].pass = p}

Registered(n) == \E i \in DOMAIN users : users[i].name = n

\* Rows of files for: alias = "a" AND path LIKE 'home of n%'.
Matches(n, a) ==
  {i \in DOMAIN files : files[i].alias = a /\ <<n, files[i].home>> \in Extends}

-----------------------------------------------------------------------------
(* login, logout, change_pass: one query at most.                          *)

\* Mutant: the id of the session is one off.
LoginOffByOne(w) ==
  /\ At(w, "idle") /\ user[w] = NoUser
  /\ \E n \in Names, p \in Passwords :
       /\ Identified(n, p) # {}
       /\ LET i == Lowest(Identified(n, p))
          IN  user' = [user EXCEPT ![w] = [id |-> i + 1, home |-> users[i].name,
                                           admin |-> users[i].admin]]
  /\ UNCHANGED <<database, dirs, disk, pc, key, history>>

process_login_cmd(w) ==
  /\ At(w, "idle") /\ user[w] = NoUser
  /\ \E n \in Names, p \in Passwords :
       /\ Identified(n, p) # {}
       /\ LET i == Lowest(Identified(n, p))
          IN  user' = [user EXCEPT ![w] = [id |-> i, home |-> users[i].name,
                                           admin |-> users[i].admin]]
  /\ UNCHANGED <<database, dirs, disk, pc, key, history>>

process_logout_cmd(w) ==
  /\ Starts(w)
  /\ user' = [user EXCEPT ![w] = NoUser]
  /\ UNCHANGED <<database, dirs, disk, pc, key, history>>

process_change_pass_cmd(w) ==
  /\ Starts(w)
  /\ \E p \in Passwords : users' = [users EXCEPT ![user[w].id].pass = p]
  /\ UNCHANGED <<files, dirs, disk, user, pc, key, history>>

-----------------------------------------------------------------------------
(* Checks that are followed by an insert of the same handler.              *)

\* The insert of one changes what the check of the other would have found.
Conflicts(k, l) ==
  /\ k.alias = l.alias
  /\ IF k.alias = "none"
     THEN k.home = l.home
     ELSE <<k.home, l.home>> \in Extends \/ <<l.home, k.home>> \in Extends

\* Handlers between their check and their insert that conflict with key k.
Rivals(k) ==
  {v \in Workers : /\ pc[v] \in {"user_checked", "folder_made", "file_checked"}
                   /\ Conflicts(k, key[v])}

Noticed(k) ==
  raced' = IF Rivals(k) = {} THEN raced
           ELSE raced \cup {k} \cup {key[v] : v \in Rivals(k)}

\* The bounds hold for the rows that are about to be inserted too.
Pending(states) == Cardinality({v \in Workers : pc[v] \in states})
RoomForUser == Len(users) + Pending({"user_checked", "folder_made"}) < MaxUsers
RoomForFile == Len(files) + Pending({"file_checked"}) < MaxFiles

\* Mutant: a name that is in users already can be registered again.
NewUserUnchecked(w) ==
  /\ Starts(w) /\ user[w].admin = "yes" /\ RoomForUser
  /\ \E n \in Names :
       /\ key' = [key EXCEPT ![w] = Account(n)]
       /\ Noticed(Account(n))
  /\ Goto(w, "user_checked")
  /\ UNCHANGED <<database, dirs, disk, user, torn, homeless, unlisted, acked>>

\* new_user: only an administrator, and only a name that is not in users.
NewUserCheck(w) ==
  /\ Starts(w) /\ user[w].admin = "yes" /\ RoomForUser
  /\ \E n \in Names :
       /\ ~Registered(n)
       /\ key' = [key EXCEPT ![w] = Account(n)]
       /\ Noticed(Account(n))
  /\ Goto(w, "user_checked")
  /\ UNCHANGED <<database, dirs, disk, user, torn, homeless, unlisted, acked>>

MayFail ==
  Cardinality(torn) + Cardinality(homeless) + Cardinality(unlisted) < MaxFaults

\* A child runs mkdir and is waited for; without a child there is no folder,
\* and the handler goes on.
create_user_folder(w) ==
  /\ At(w, "user_checked")
  /\ \/ dirs' = dirs \cup {key[w].home} /\ UNCHANGED homeless
     \/ MayFail /\ homeless' = homeless \cup {key[w].home} /\ UNCHANGED dirs
  /\ Goto(w, "folder_made")
  /\ UNCHANGED <<database, disk, user, key, raced, torn, unlisted, acked>>

\* The password and the admin flag of the request are used here only.  When
\* the INSERT fails the client is told "User registered" all the same.
new_user_in_db(w) ==
  /\ At(w, "folder_made")
  /\ \/ \E p \in Passwords, a \in {"yes", "no"} :
          users' = Append(users, [name |-> key[w].home, pass |-> p, admin |-> a])
     \/ UNCHANGED users
  /\ Done(w)
  /\ UNCHANGED <<files, dirs, disk, user, history>>

\* Mutant: a post does not look whether the file is there.
PostUnchecked(w) ==
  /\ Starts(w) /\ RoomForFile
  /\ \E a \in Aliases :
       /\ key' = [key EXCEPT ![w] = [home |-> user[w].home, alias |-> a]]
       /\ Noticed([home |-> user[w].home, alias |-> a])
  /\ Goto(w, "file_checked")
  /\ UNCHANGED <<database, dirs, disk, user, torn, homeless, unlisted, acked>>

\* post: ask_for_file_to_db finds no file of that alias.
PostCheck(w) ==
  /\ Starts(w) /\ RoomForFile
  /\ \E a \in Aliases :
       /\ Matches(user[w].home, a) = {}
       /\ key' = [key EXCEPT ![w] = [home |-> user[w].home, alias |-> a]]
       /\ Noticed([home |-> user[w].home, alias |-> a])
  /\ Goto(w, "file_checked")
  /\ UNCHANGED <<database, dirs, disk, user, torn, homeless, unlisted, acked>>

\* Mutant: the file is written without a row.
InsertForgotten(w) ==
  /\ At(w, "file_checked")
  /\ Goto(w, "inserted")
  /\ UNCHANGED <<database, dirs, disk, user, key, history>>

\* The INSERT may fail, or be cut at the database's limit; the post goes on
\* and writes its file.
insert_alias_in_db(w) ==
  /\ At(w, "file_checked")
  /\ \/ files' = Append(files, key[w]) /\ UNCHANGED unlisted
     \/ MayFail /\ unlisted' = unlisted \cup {key[w]} /\ UNCHANGED files
  /\ Goto(w, "inserted")
  /\ UNCHANGED <<users, dirs, disk, user, key, raced, torn, homeless, acked>>

\* fopen(path, "w") truncates.  Without the folder it fails, nobody looks at
\* the error and the client is told "File OK".
OpenFile(w) ==
  /\ At(w, "inserted")
  /\ IF key[w].home \in dirs
     THEN /\ disk' = [disk EXCEPT ![key[w]] = "partial"]
          /\ Goto(w, "opened")
          /\ UNCHANGED <<acked, key>>
     ELSE /\ Done(w)
          /\ acked' = acked \cup {key[w]}
          /\ UNCHANGED disk
  /\ UNCHANGED <<database, dirs, user, raced, torn, homeless, unlisted>>

\* Mutant: the client is told "File OK" without closing the file.
WriteUnfinished(w) ==
  /\ At(w, "opened")
  /\ acked' = acked \cup {key[w]}
  /\ Done(w)
  /\ UNCHANGED <<database, dirs, disk, user, raced, torn, homeless, unlisted>>

\* fwrite and fclose, then the reply.  Over what somebody else has written
\* since the file was truncated, a longer rest of it may remain.
file_from_raw_data(w) ==
  /\ At(w, "opened")
  /\ \E c \in (IF disk[key[w]] = "partial" THEN {"whole"} ELSE {"whole", "mixed"}) :
       disk' = [disk EXCEPT ![key[w]] = c]
  /\ acked' = acked \cup {key[w]}
  /\ Done(w)
  /\ UNCHANGED <<database, dirs, user, raced, torn, homeless, unlisted>>

-----------------------------------------------------------------------------
(* get                                                                     *)

\* ask_for_file_to_db takes the path of the first row.
GetCheck(w) ==
  /\ Starts(w)
  /\ \E a \in Aliases :
       /\ Matches(user[w].home, a) # {}
       /\ key' = [key EXCEPT ![w] = files[Lowest(Matches(user[w].home, a))]]
  /\ Goto(w, "path_known")
  /\ UNCHANGED <<database, dirs, disk, user, history>>

\* raw_data_from_file finds the file and its bytes are sent.
GetFile(w) ==
  /\ At(w, "path_known") /\ disk[key[w]] # "absent"
  /\ Done(w)
  /\ UNCHANGED <<database, dirs, disk, user, history>>

\* The worker ends: what it has written stays.
Ends(w) ==
  /\ user' = [user EXCEPT ![w] = NoUser]
  /\ Done(w)
  /\ torn' = IF pc[w] \in {"inserted", "opened"} THEN torn \cup {key[w]} ELSE torn
  /\ UNCHANGED <<database, dirs, disk, raced, homeless, unlisted, acked>>

\* Without a file encode_raw_data is given NULL and the worker faults.
GetFaults(w) == At(w, "path_known") /\ disk[key[w]] = "absent" /\ Ends(w)

\* The client leaves or the worker is killed; another one takes its place.
WorkerEnds(w) ==
  /\ user[w] # NoUser
  /\ pc[w] \in {"inserted", "opened"} => MayFail
  /\ Ends(w)

-----------------------------------------------------------------------------
process_new_user_cmd(w) == NewUserCheck(w) \/ create_user_folder(w) \/ new_user_in_db(w)

process_post_cmd(w) ==
  PostCheck(w) \/ insert_alias_in_db(w) \/ OpenFile(w) \/ file_from_raw_data(w)

process_get_cmd(w) == GetCheck(w) \/ GetFile(w) \/ GetFaults(w)

Next == \E w \in Workers :
  \/ process_login_cmd(w) \/ process_logout_cmd(w) \/ process_change_pass_cmd(w)
  \/ process_new_user_cmd(w) \/ process_post_cmd(w) \/ process_get_cmd(w)
  \/ WorkerEnds(w)

Spec == Init /\ [][Next]_vars

-----------------------------------------------------------------------------
(* Properties.                                                             *)

\* Types; a session's user_id is a row of users.
TypeOK ==
  /\ users \in Seq(UserRows) /\ files \in Seq(Paths)
  /\ dirs \subseteq Names /\ homeless \subseteq Names
  /\ disk \in [Paths -> {"absent", "partial", "whole", "mixed"}]
  /\ user \in [Workers -> [id : 0 .. Len(users), home : Names, admin : {"yes", "no"}]]
  /\ pc \in [Workers -> {"idle", "user_checked", "folder_made", "file_checked",
                         "inserted", "opened", "path_known"}]
  /\ key \in [Workers -> Keys]
  /\ raced \subseteq Keys /\ torn \subseteq Paths
  /\ unlisted \subseteq Paths /\ acked \subseteq Paths

\* Every file on disk, finished or not, is listed in files, so that a post
\* can see it, unless its INSERT failed (responder.c 88-93).
FilesHaveRows ==
  \A k \in Paths :
    disk[k] # "absent" => k \in unlisted \/ \E i \in DOMAIN files : files[i] = k

\* The other way round a get can find an alias whose file is missing (and
\* fault on it) only while its post is under way, when the worker of that post
\* ended, or without a home; and a file is unfinished only while a post is
\* writing it or when the worker of one ended (responder.c 31-51, 88-93).
RowsHaveFiles ==
  \A k \in Paths :
    /\ (\E i \in DOMAIN files : files[i] = k) /\ disk[k] = "absent" =>
         \/ k \in torn \/ k.home \in homeless
         \/ \E w \in Workers : At(w, "inserted") /\ key[w] = k
    /\ disk[k] = "partial" =>
         k \in torn \/ \E w \in Workers : At(w, "opened") /\ key[w] = k

\* A file the server has acknowledged is listed and stays as it was posted: no
\* later post truncates it, unless two posts were both checked before either
\* was inserted (responder.c 76-93), its INSERT failed although the client was
\* told "File OK", or it had no home.
AckedStored ==
  \A k \in acked :
    \/ k \in raced \/ k \in unlisted
    \/ /\ \E i \in DOMAIN files : files[i] = k
       /\ disk[k] = "whole" \/ k.home \in homeless

\* A user who has a file gets that one: although LIKE also matches the homes
\* of longer names, the first row found is the user's own, and there is one
\* such row only, unless posts raced (sql_helpers.c 33-38).
OwnFirst ==
  \A i \in DOMAIN files :
    files[i] \in raced \/ Lowest(Matches(files[i].home, files[i].alias)) = i

\* Every account can be logged in to with its name and present password, and
\* no other account answers to them, unless two administrators registered the
\* name at the same time (responder.c 168-176, sql_helpers.c 116-176).
LoginReaches ==
  \A i \in DOMAIN users :
    \/ Account(users[i].name) \in raced
    \/ Identified(users[i].name, users[i].pass) = {i}
=============================================================================
