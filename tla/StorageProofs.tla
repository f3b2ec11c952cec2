--------------------------- MODULE StorageProofs ---------------------------
(***************************************************************************)
(* Theorems about Storage, for every set of workers, names, prefixes,      *)
(* aliases and passwords and every bound.                                  *)
(***************************************************************************)
EXTENDS Storage, WellFoundedInduction, TLAPS

\* A path with a row, or whose INSERT failed.
Listed(k) == k \in unlisted \/ \E i \in DOMAIN files : files[i] = k

\* Paths whose post may have been checked in vain.
Doubtful == raced \cup unlisted

Checking == {"user_checked", "folder_made"}
Checked == {"user_checked", "folder_made", "file_checked"}
Writing == {"inserted", "opened"}

\* What a handler works on: an account in new_user, a path in post and get.
\* A session has the id of a row.
SessionInv ==
  \A w \in Workers :
    /\ user[w] = NoUser \/ user[w].id \in DOMAIN users
    /\ pc[w] \in Checking => key[w].alias = "none"
    /\ pc[w] \in {"file_checked", "inserted", "opened", "path_known"} => key[w] \in Paths

\* Who has an account has a home, or create_user_folder could not fork.
HomeInv ==
  /\ Root \in dirs
  /\ \A i \in DOMAIN users : users[i].name \in dirs \cup homeless
  /\ \A w \in Workers :
       /\ user[w].home \in dirs \cup homeless
       /\ pc[w] \in {"folder_made", "file_checked", "inserted"} =>
            key[w].home \in dirs \cup homeless

\* What a handler has checked is still true before its insert, unless it raced
\* with another handler; and handlers that can spoil each other's check have
\* raced.
CheckInv ==
  /\ \A w \in Workers :
       /\ pc[w] \in Checking => key[w] \in raced \/ ~Registered(key[w].home)
       /\ pc[w] = "file_checked" =>
            key[w] \in raced \/ Matches(key[w].home, key[w].alias) = {}
  /\ \A w \in Workers, v \in Workers :
       w # v /\ pc[w] \in Checked /\ pc[v] \in Checked /\ Conflicts(key[w], key[v])
         => key[w] \in raced

\* Two rows of users with one name, or two rows of files of which the LIKE of
\* the later finds the earlier, come from a race.
NamesInv ==
  \A i \in DOMAIN users, j \in DOMAIN users :
    i # j /\ users[i].name = users[j].name => Account(users[i].name) \in raced

OrderInv ==
  \A i \in DOMAIN files, j \in DOMAIN files :
    j < i /\ j \in Matches(files[i].home, files[i].alias) => files[i] \in raced

\* A handler writes a file that is listed already, that nobody else writes and
\* that was not acknowledged before, unless the check of its post is doubtful.
WriteInv ==
  /\ \A k \in acked : Listed(k)
  /\ \A w \in Workers :
       /\ pc[w] \in Writing => Listed(key[w]) /\ (key[w] \in acked => key[w] \in Doubtful)
       /\ pc[w] = "opened" => disk[key[w]] = "partial" \/ key[w] \in Doubtful
  /\ \A w \in Workers, v \in Workers :
       w # v /\ pc[w] \in Writing /\ pc[v] \in Writing /\ key[w] = key[v]
         => key[w] \in Doubtful

Inv ==
  /\ TypeOK /\ SessionInv /\ HomeInv
  /\ CheckInv /\ NamesInv /\ OrderInv /\ WriteInv
  /\ FilesHaveRows /\ RowsHaveFiles /\ AckedStored

-----------------------------------------------------------------------------
\* The first row of an answer is the one no other row precedes.
LEMMA LowestIs ==
  ASSUME NEW S \in SUBSET Nat, NEW i \in S, \A j \in S : i <= j
  PROVE  Lowest(S) = i
  <1>1. \A m \in S : (\A j \in S : m <= j) => m = i
    OBVIOUS
  <1> QED BY <1>1 DEF Lowest

\* An answer that is not empty has a first row, and no row precedes it.
LEMMA LowestIn ==
  ASSUME NEW S \in SUBSET Nat, S # {}
  PROVE  Lowest(S) \in S /\ \A j \in S : Lowest(S) <= j
  <1> DEFINE R == OpToRel(<, Nat)
  <1>1. \E i \in S : \A j \in S : <<j, i>> \notin R
    <2>1. IsWellFoundedOn(R, Nat)
      BY NatLessThanWellFounded
    <2> HIDE DEF R
    <2> QED BY <2>1, WFMin
  <1>2. \A i \in Nat, j \in Nat : j < i => <<j, i>> \in R
    BY DEF OpToRel
  <1> HIDE DEF R
  <1>3. PICK i \in S : \A j \in S : <<j, i>> \notin R
    BY <1>1
  <1>4. \A j \in S : ~(j < i)
    BY <1>2, <1>3
  <1>5. \A j \in S : i <= j
    BY <1>4
  <1> QED BY <1>3, <1>5 DEF Lowest

\* An insert adds a row at the end of its table and keeps the others.
LEMMA Inserted ==
  ASSUME NEW S, NEW s \in Seq(S), NEW e \in S
  PROVE  /\ Append(s, e) \in Seq(S)
         /\ Len(Append(s, e)) = Len(s) + 1
         /\ DOMAIN s = 1 .. Len(s)
         /\ DOMAIN Append(s, e) = 1 .. Len(s) + 1
         /\ \A i \in 1 .. Len(s) : Append(s, e)[i] = s[i]
         /\ Append(s, e)[Len(s) + 1] = e
  OBVIOUS

\* A new password leaves the rest of its row.
LEMMA PassChanged ==
  ASSUME NEW s \in Seq(UserRows), NEW i \in DOMAIN s, NEW p \in Passwords
  PROVE  LET t == [s EXCEPT ![i].pass = p]
         IN  /\ t \in Seq(UserRows)
             /\ DOMAIN t = DOMAIN s /\ Len(t) = Len(s)
             /\ \A j \in DOMAIN s : t[j].name = s[j].name
  <1> DEFINE r == [s[i] EXCEPT !.pass = p]
  <1>1. s[i] \in UserRows
    OBVIOUS
  <1>2. r \in UserRows /\ r.name = s[i].name
    BY <1>1, Zenon DEF UserRows
  <1>3. [s EXCEPT ![i].pass = p] = [s EXCEPT ![i] = r]
    BY Zenon
  <1> HIDE DEF r
  <1> QED BY <1>2, <1>3

\* Accounts and paths are keys of handlers, and no path is an account.
LEMMA KeyFacts ==
  /\ \A n \in Names : Account(n) \in Keys /\ Account(n).alias = "none" /\ Account(n).home = n
  /\ Paths \subseteq Keys
  /\ \A k \in Keys : k.home \in Names /\ k.alias \in Aliases \cup {"none"}
  /\ \A k \in Paths : k.home \in Names /\ k.alias \in Aliases /\ k.alias # "none"
  /\ \A n \in Names, a \in Aliases : [home |-> n, alias |-> a] \in Paths
  BY StorageAssumption DEF Account, Keys, Paths

\* The database as it is delivered satisfies the invariant.
LEMMA InitInv == Init => Inv
  <1> SUFFICES ASSUME Init PROVE Inv
    OBVIOUS
  <1> USE StorageAssumption, KeyFacts
  <1>1. PICK p \in Passwords : users = <<[name |-> Root, pass |-> p, admin |-> "yes"]>>
    BY DEF Init
  <1>2. users \in Seq(UserRows) /\ Len(users) = 1 /\ DOMAIN users = {1}
    BY <1>1 DEF UserRows
  <1>3. TypeOK
    BY <1>2 DEF Init, TypeOK, NoUser
  <1>4. SessionInv /\ HomeInv
    BY <1>1, <1>2 DEF Init, SessionInv, HomeInv, Checking, NoUser
  <1>5. CheckInv /\ NamesInv /\ OrderInv /\ WriteInv
    BY <1>2 DEF Init, CheckInv, NamesInv, OrderInv, WriteInv, Doubtful, Checking, Checked, Writing
  <1>6. FilesHaveRows /\ RowsHaveFiles /\ AckedStored
    BY DEF Init, FilesHaveRows, RowsHaveFiles, AckedStored
  <1> QED BY <1>3, <1>4, <1>5, <1>6 DEF Inv

\* The parts of the invariant that do not look at the sessions, and those about
\* the files, are kept by steps that leave their state alone.
LEMMA SessionsOnly ==
  ASSUME Inv, UNCHANGED <<users, files, dirs, disk, pc, key, raced, torn, homeless, unlisted, acked>>
  PROVE  /\ CheckInv' /\ NamesInv' /\ OrderInv' /\ WriteInv'
         /\ FilesHaveRows' /\ RowsHaveFiles' /\ AckedStored'
  BY DEF Inv, CheckInv, NamesInv, OrderInv, WriteInv, Doubtful, FilesHaveRows, Listed,
         RowsHaveFiles, AckedStored, Registered, Matches, Conflicts, Listed, At

\* login, logout and change_pass preserve the invariant: a password changes in
\* a row whose name stays (responder.c 104-151, 183-200).
LEMMA SessionStep ==
  ASSUME Inv, NEW w \in Workers,
         process_login_cmd(w) \/ process_logout_cmd(w) \/ process_change_pass_cmd(w)
  PROVE  Inv'
  <1> USE StorageAssumption, KeyFacts
  <1> USE DEF Inv, database, history
  <1>1. CASE process_login_cmd(w)
    <2>1. PICK n \in Names, p \in Passwords :
            /\ Identified(n, p) # {}
            /\ LET i == Lowest(Identified(n, p))
               IN  user' = [user EXCEPT ![w] = [id |-> i, home |-> users[i].name,
                                                admin |-> users[i].admin]]
      BY <1>1 DEF process_login_cmd
    <2> DEFINE i == Lowest(Identified(n, p))
    <2>2. Identified(n, p) \subseteq DOMAIN users /\ DOMAIN users = 1 .. Len(users)
      BY DEF Identified, TypeOK
    <2>3. i \in Identified(n, p)
      BY <2>1, <2>2, LowestIn
    <2>4. i \in DOMAIN users /\ users[i] \in UserRows /\ i \in 1 .. Len(users)
      BY <2>2, <2>3 DEF TypeOK
    <2>5. TypeOK'
      BY <1>1, <2>1, <2>4 DEF process_login_cmd, TypeOK, UserRows
    <2>6. SessionInv' /\ HomeInv'
      BY <1>1, <2>1, <2>4 DEF process_login_cmd, TypeOK, SessionInv, HomeInv
    <2>7. UNCHANGED <<users, files, dirs, disk, pc, key, raced, torn, homeless, unlisted, acked>>
      BY <1>1 DEF process_login_cmd
    <2> QED BY <2>5, <2>6, <2>7, SessionsOnly
  <1>2. CASE process_logout_cmd(w)
    <2>1. TypeOK' /\ SessionInv' /\ HomeInv'
      BY <1>2 DEF process_logout_cmd, TypeOK, SessionInv, HomeInv, NoUser
    <2>2. UNCHANGED <<users, files, dirs, disk, pc, key, raced, torn, homeless, unlisted, acked>>
      BY <1>2 DEF process_logout_cmd
    <2> QED BY <2>1, <2>2, SessionsOnly
  <1>3. CASE process_change_pass_cmd(w)
    <2> DEFINE i == user[w].id
    <2>1. PICK p \in Passwords : users' = [users EXCEPT ![i].pass = p]
      BY <1>3 DEF process_change_pass_cmd
    <2>2. i \in DOMAIN users /\ users[i] \in UserRows
      BY <1>3 DEF process_change_pass_cmd, Starts, SessionInv, TypeOK
    <2>3. /\ users' \in Seq(UserRows)
          /\ DOMAIN users' = DOMAIN users /\ Len(users') = Len(users)
          /\ \A j \in DOMAIN users : users'[j].name = users[j].name
      BY <2>1, <2>2, PassChanged DEF TypeOK
    <2>4. UNCHANGED <<files, dirs, disk, user, pc, key, raced, torn, homeless, unlisted, acked>>
      BY <1>3 DEF process_change_pass_cmd
    <2>5. TypeOK'
      BY <2>3, <2>4 DEF TypeOK
    <2>6. SessionInv' /\ HomeInv' /\ NamesInv'
      BY <2>3, <2>4 DEF SessionInv, HomeInv, NamesInv
    <2>7. CheckInv'
      BY <2>3, <2>4 DEF CheckInv, Registered, Matches, Conflicts
    <2>8. OrderInv' /\ WriteInv' /\ FilesHaveRows' /\ RowsHaveFiles' /\ AckedStored'
      BY <2>4 DEF OrderInv, Matches, WriteInv, Doubtful, Listed, FilesHaveRows, RowsHaveFiles,
                  At, AckedStored
    <2> QED BY <2>5, <2>6, <2>7, <2>8
  <1> QED BY <1>1, <1>2, <1>3

\* Two handlers conflict or not, whichever of them is asked.
LEMMA ConflictsBoth == \A k, l : Conflicts(k, l) => Conflicts(l, k)
  BY DEF Conflicts

\* A check that finds nothing, of a handler that was idle, preserves the
\* invariant: rivals between their check and their insert are noted as raced,
\* and the handler with them (responder.c 77, 168).
LEMMA Check ==
  ASSUME Inv, NEW w \in Workers, NEW k \in Keys, NEW state,
         At(w, "idle"),
         \/ /\ state = "user_checked" /\ k = Account(k.home) /\ ~Registered(k.home)
         \/ /\ state = "file_checked" /\ k \in Paths
            /\ k.home \in dirs \cup homeless
            /\ Matches(k.home, k.alias) = {},
         key' = [key EXCEPT ![w] = k], Goto(w, state), Noticed(k),
         UNCHANGED <<users, files, dirs, disk, user, torn, homeless, unlisted, acked>>
  PROVE  Inv'
  <1> USE StorageAssumption, KeyFacts
  <1> USE DEF Inv, At, Goto
  <1>1. /\ pc' = [pc EXCEPT ![w] = state] /\ pc'[w] = state /\ key'[w] = k
        /\ state \in {"user_checked", "file_checked"}
        /\ \A v \in Workers \ {w} : pc'[v] = pc[v] /\ key'[v] = key[v]
    BY DEF TypeOK
  <1>2. raced \subseteq raced' /\ raced' \subseteq Keys
    BY DEF Noticed, Rivals, TypeOK
  <1>3. TypeOK'
    BY <1>1, <1>2 DEF TypeOK
  <1>4. SessionInv' /\ HomeInv'
    BY <1>1 DEF SessionInv, HomeInv, Checking
  <1>5. CheckInv'
    <2>1. ASSUME NEW v \in Workers
          PROVE  /\ pc'[v] \in Checking =>
                      key'[v] \in raced' \/ ~Registered(key[v].home)'
                 /\ pc'[v] = "file_checked" =>
                      key'[v] \in raced' \/ Matches(key[v].home, key[v].alias)' = {}
      BY <1>1, <1>2, <2>1 DEF CheckInv, Checking, Registered, Matches
    <2>2. ASSUME NEW v \in Workers, v # w, pc[v] \in Checked, Conflicts(k, key[v])
          PROVE  k \in raced' /\ key[v] \in raced'
      <3>1. v \in Rivals(k)
        BY <2>2 DEF Rivals, Checked
      <3> QED BY <3>1 DEF Noticed
    <2>3. ASSUME NEW u \in Workers, NEW v \in Workers, u # v,
                 pc'[u] \in Checked, pc'[v] \in Checked, Conflicts(key'[u], key'[v])
          PROVE  key'[u] \in raced'
      <3>1. CASE u = w
        BY <1>1, <2>2, <2>3, <3>1
      <3>2. CASE v = w
        BY <1>1, <2>2, <2>3, <3>2, ConflictsBoth
      <3>3. CASE u # w /\ v # w
        BY <1>1, <1>2, <2>3, <3>3 DEF CheckInv
      <3> QED BY <3>1, <3>2, <3>3
    <2> QED BY <2>1, <2>3 DEF CheckInv, Conflicts
  <1>6. NamesInv' /\ OrderInv'
    BY <1>2 DEF NamesInv, OrderInv, Matches
  <1>7. WriteInv'
    BY <1>1, <1>2 DEF WriteInv, Doubtful, Writing, Listed
  <1>8. FilesHaveRows'
    BY DEF FilesHaveRows, Listed
  <1>9. RowsHaveFiles'
    BY <1>1 DEF RowsHaveFiles
  <1>10. AckedStored'
    BY <1>2 DEF AckedStored
  <1> QED BY <1>3, <1>4, <1>5, <1>6, <1>7, <1>8, <1>9, <1>10

\* The checks of new_user and post preserve the invariant (responder.c 77,
\* 168).
LEMMA CheckStep ==
  ASSUME Inv, NEW w \in Workers, NewUserCheck(w) \/ PostCheck(w)
  PROVE  Inv'
  <1> USE StorageAssumption, KeyFacts DEF database
  <1>1. CASE NewUserCheck(w)
    <2>1. PICK n \in Names : /\ ~Registered(n)
                             /\ key' = [key EXCEPT ![w] = Account(n)]
                             /\ Noticed(Account(n))
      BY <1>1 DEF NewUserCheck
    <2>2. /\ Account(n) \in Keys
          /\ Account(n).home = n
      OBVIOUS
    <2> QED BY <1>1, <2>1, <2>2, Check DEF NewUserCheck, Starts
  <1>2. CASE PostCheck(w)
    <2> DEFINE k(a) == [home |-> user[w].home, alias |-> a]
    <2>1. PICK a \in Aliases : /\ Matches(user[w].home, a) = {}
                               /\ key' = [key EXCEPT ![w] = k(a)]
                               /\ Noticed(k(a))
      BY <1>2 DEF PostCheck
    <2>2. user[w].home \in Names /\ user[w].home \in dirs \cup homeless
      BY DEF Inv, TypeOK, HomeInv
    <2>3. k(a) \in Paths /\ k(a) \in Keys /\ k(a).home = user[w].home /\ k(a).alias = a
      BY <2>2
    <2> HIDE DEF k
    <2> QED BY <1>2, <2>1, <2>2, <2>3, Check DEF PostCheck, Starts
  <1> QED BY <1>1, <1>2

\* The folder and the row of a new user preserve the invariant: without a race
\* the name is new in users (responder.c 175-176, 213-233).
LEMMA NewUserStep ==
  ASSUME Inv, NEW w \in Workers,
         create_user_folder(w) \/ (new_user_in_db(w) /\ users' # users)
  PROVE  Inv'
  <1> USE StorageAssumption, KeyFacts
  <1> USE DEF Inv, database, history, At, Goto, Done
  <1>1. CASE create_user_folder(w)
    <2>1. /\ pc[w] = "user_checked"
          /\ pc' = [pc EXCEPT ![w] = "folder_made"]
          /\ dirs \subseteq dirs' /\ homeless \subseteq homeless'
          /\ key[w].home \in dirs' \cup homeless'
          /\ UNCHANGED <<users, files, disk, user, key, raced, torn, unlisted, acked>>
      BY <1>1 DEF create_user_folder
    <2>2. key[w].home \in Names
      BY DEF TypeOK
    <2>3. dirs' \subseteq Names /\ homeless' \subseteq Names
      BY <1>1, <2>2 DEF create_user_folder, TypeOK
    <2>4. TypeOK'
      BY <2>1, <2>3 DEF TypeOK
    <2>5. SessionInv' /\ HomeInv'
      BY <2>1 DEF SessionInv, HomeInv, TypeOK, Checking
    <2>6. CheckInv'
      BY <2>1 DEF CheckInv, TypeOK, Checking, Checked, Registered, Matches, Conflicts
    <2>7. NamesInv' /\ OrderInv' /\ FilesHaveRows'
      BY <2>1 DEF NamesInv, OrderInv, Matches, FilesHaveRows, Listed
    <2>8. WriteInv'
      BY <2>1 DEF WriteInv, Doubtful, TypeOK, Writing, Listed
    <2>9. RowsHaveFiles' /\ AckedStored'
      BY <2>1 DEF RowsHaveFiles, AckedStored, TypeOK
    <2> QED BY <2>4, <2>5, <2>6, <2>7, <2>8, <2>9
  <1>2. CASE new_user_in_db(w) /\ users' # users
    <2> DEFINE n == key[w].home
    <2>1. PICK p \in Passwords, a \in {"yes", "no"} :
            users' = Append(users, [name |-> n, pass |-> p, admin |-> a])
      BY <1>2 DEF new_user_in_db
    <2> DEFINE row == [name |-> n, pass |-> p, admin |-> a]
    <2>2. /\ pc[w] = "folder_made"
          /\ pc' = [pc EXCEPT ![w] = "idle"]
          /\ key' = [key EXCEPT ![w] = Account(Root)]
          /\ UNCHANGED <<files, dirs, disk, user, raced, torn, homeless, unlisted, acked>>
      BY <1>2 DEF new_user_in_db
    <2>3. n \in Names /\ row \in UserRows
      BY DEF TypeOK, UserRows
    <2>4. /\ users' \in Seq(UserRows) /\ Len(users') = Len(users) + 1
          /\ DOMAIN users = 1 .. Len(users) /\ DOMAIN users' = 1 .. Len(users) + 1
          /\ \A i \in 1 .. Len(users) : users'[i] = users[i]
          /\ users'[Len(users) + 1].name = n
      BY <2>1, <2>3, Inserted DEF TypeOK
    <2>5. key[w] = Account(n)
      BY <2>2 DEF SessionInv, Checking, TypeOK, Keys, Account
    <2> HIDE DEF n
    <2>6. TypeOK'
      BY <2>2, <2>4 DEF TypeOK
    <2>7. SessionInv'
      BY <2>2, <2>4 DEF SessionInv, TypeOK, Checking
    <2>8. HomeInv'
      <3>1. n \in dirs \cup homeless
        BY <2>2 DEF HomeInv, n
      <3>2. \A i \in DOMAIN users' : users'[i].name \in dirs \cup homeless
        BY <2>4, <3>1 DEF HomeInv
      <3>3. \A v \in Workers :
              pc'[v] \in {"folder_made", "file_checked", "inserted"} =>
                pc'[v] = pc[v] /\ key'[v] = key[v]
        BY <2>2 DEF TypeOK
      <3> QED BY <2>2, <3>2, <3>3 DEF HomeInv
    <2>9. CheckInv'
      <3>1. ASSUME NEW v \in Workers, pc'[v] \in Checking
            PROVE  key'[v] \in raced' \/ ~Registered(key[v].home)'
        <4>1. v # w /\ pc[v] = pc'[v] /\ key'[v] = key[v]
          BY <2>2, <3>1 DEF TypeOK, Checking
        <4>2. CASE key[v].home = n
          <5>1. key[v] = Account(n)
            BY <3>1, <4>1, <4>2 DEF SessionInv, TypeOK, Keys, Account
          <5>2. Conflicts(key[v], key[w])
            BY <2>5, <5>1 DEF Conflicts, Account
          <5> QED BY <2>2, <3>1, <4>1, <5>2 DEF CheckInv, Checking, Checked
        <4>3. CASE key[v].home # n
          BY <2>2, <2>4, <3>1, <4>1, <4>3 DEF CheckInv, Registered
        <4> QED BY <4>2, <4>3
      <3>2. ASSUME NEW v \in Workers, pc'[v] = "file_checked"
            PROVE  key'[v] \in raced' \/ Matches(key[v].home, key[v].alias)' = {}
        BY <2>2, <3>2 DEF CheckInv, Matches, TypeOK
      <3>3. ASSUME NEW u \in Workers, NEW v \in Workers, u # v,
                   pc'[u] \in Checked, pc'[v] \in Checked, Conflicts(key'[u], key'[v])
            PROVE  key'[u] \in raced'
        BY <2>2, <3>3 DEF CheckInv, TypeOK, Checked
      <3> QED BY <3>1, <3>2, <3>3 DEF CheckInv, Conflicts
    <2>10. NamesInv'
      <3>1. Account(n) \in raced \/ \A i \in 1 .. Len(users) : users[i].name # n
        BY <2>2, <2>4, <2>5 DEF CheckInv, Checking, Registered, n
      <3>2. \A i \in DOMAIN users', j \in DOMAIN users' :
              i # j => i \in DOMAIN users \/ j \in DOMAIN users
        BY <2>4
      <3>3. \A i \in DOMAIN users : users'[i] = users[i] /\ i \in DOMAIN users'
        BY <2>4
      <3>4. \A i \in DOMAIN users' : i \notin DOMAIN users => users'[i].name = n
        BY <2>4
      <3>5. \A i \in DOMAIN users : users[i].name = n => Account(n) \in raced
        BY <2>4, <3>1
      <3> QED BY <2>2, <3>2, <3>3, <3>4, <3>5 DEF NamesInv, Account
    <2>11. OrderInv' /\ FilesHaveRows' /\ AckedStored'
      BY <2>2 DEF OrderInv, Matches, FilesHaveRows, Listed, AckedStored
    <2>12. WriteInv'
      BY <2>2 DEF WriteInv, Doubtful, TypeOK, Writing, Listed
    <2>13. RowsHaveFiles'
      <3>1. \A v \in Workers : pc[v] \in Writing => pc'[v] = pc[v] /\ key'[v] = key[v]
        BY <2>2 DEF TypeOK, Writing
      <3> QED BY <2>2, <3>1 DEF RowsHaveFiles, Writing
    <2> QED BY <2>6, <2>7, <2>8, <2>9, <2>10, <2>11, <2>12, <2>13
  <1> QED BY <1>1, <1>2

\* The insert of a post preserves the invariant: without a race the LIKE of the
\* new row finds no older one, nobody writes that file and it was never
\* acknowledged, unless its row was missing (responder.c 88, sql_helpers.c
\* 33-38).
LEMMA InsertStep ==
  ASSUME Inv, NEW w \in Workers, insert_alias_in_db(w),
         files' = Append(files, key[w]), UNCHANGED unlisted
  PROVE  Inv'
  <1> USE StorageAssumption, KeyFacts
  <1> USE DEF Inv, database, history, At, Goto
  <1> DEFINE k == key[w]
  <1>1. /\ pc[w] = "file_checked"
        /\ files' = Append(files, k)
        /\ pc' = [pc EXCEPT ![w] = "inserted"]
        /\ UNCHANGED <<users, dirs, disk, user, key, raced, torn, homeless, unlisted, acked>>
    BY DEF insert_alias_in_db
  <1>2. k \in Paths /\ k.home \in Names /\ <<k.home, k.home>> \in Extends
    BY <1>1 DEF SessionInv
  <1>3. /\ files' \in Seq(Paths) /\ Len(files') = Len(files) + 1
        /\ DOMAIN files = 1 .. Len(files) /\ DOMAIN files' = 1 .. Len(files) + 1
        /\ \A i \in 1 .. Len(files) : files'[i] = files[i]
        /\ files'[Len(files) + 1] = k
    BY <1>1, <1>2, Inserted DEF TypeOK
  <1>4. k \in raced \/ Matches(k.home, k.alias) = {}
    BY <1>1 DEF CheckInv
  <1>5. Listed(k) => k \in Doubtful
    BY <1>2, <1>4 DEF Listed, Doubtful, Matches
  <1>6. \A l : Listed(l) => Listed(l)'
    BY <1>1, <1>3 DEF Listed
  <1>7. Listed(k)'
    BY <1>1, <1>3 DEF Listed
  <1>8. TypeOK'
    BY <1>1, <1>3 DEF TypeOK
  <1>9. SessionInv' /\ HomeInv'
    BY <1>1, <1>2 DEF SessionInv, HomeInv, TypeOK, Checking
  <1>10. CheckInv'
    <2>1. ASSUME NEW v \in Workers, pc'[v] \in Checking
          PROVE  key'[v] \in raced' \/ ~Registered(key[v].home)'
      BY <1>1, <2>1 DEF CheckInv, Registered, TypeOK, Checking
    <2>2. ASSUME NEW v \in Workers, pc'[v] = "file_checked"
          PROVE  key'[v] \in raced' \/ Matches(key[v].home, key[v].alias)' = {}
      <3>1. v # w /\ pc[v] = "file_checked" /\ key'[v] = key[v] /\ key[v] \in Paths
        BY <1>1, <2>2 DEF TypeOK, SessionInv
      <3>2. CASE key[v].alias = k.alias /\ <<key[v].home, k.home>> \in Extends
        <4>1. Conflicts(key[v], k)
          BY <3>1, <3>2 DEF Conflicts
        <4> QED BY <1>1, <3>1, <4>1 DEF CheckInv, Checked
      <3>3. CASE ~(k.alias = key[v].alias /\ <<key[v].home, k.home>> \in Extends)
        <4>1. Len(files) + 1 \notin Matches(key[v].home, key[v].alias)'
          BY <1>1, <1>3, <3>3 DEF Matches
        <4>2. Matches(key[v].home, key[v].alias)' \subseteq
                Matches(key[v].home, key[v].alias)
          <5>1. \A i \in DOMAIN files' : i # Len(files) + 1 =>
                  i \in DOMAIN files /\ files'[i] = files[i]
            BY <1>3
          <5> QED BY <1>1, <4>1, <5>1 DEF Matches
        <4> QED BY <1>1, <3>1, <4>2 DEF CheckInv
      <3> QED BY <3>2, <3>3
    <2>3. ASSUME NEW u \in Workers, NEW v \in Workers, u # v,
                 pc'[u] \in Checked, pc'[v] \in Checked, Conflicts(key'[u], key'[v])
          PROVE  key'[u] \in raced'
      BY <1>1, <2>3 DEF CheckInv, TypeOK, Checked
    <2> QED BY <2>1, <2>2, <2>3 DEF CheckInv, Conflicts
  <1>11. NamesInv'
    BY <1>1 DEF NamesInv
  <1>12. OrderInv'
    <2> SUFFICES ASSUME NEW i \in DOMAIN files', NEW j \in DOMAIN files', j < i,
                        files'[j].alias = files'[i].alias,
                        <<files'[i].home, files'[j].home>> \in Extends
                 PROVE  files'[i] \in raced
      BY <1>1 DEF OrderInv, Matches
    <2>1. CASE i \in 1 .. Len(files)
      BY <1>3, <2>1 DEF OrderInv, Matches
    <2>2. CASE i = Len(files) + 1
      <3>1. j \in Matches(k.home, k.alias)
        <4>1. j \in DOMAIN files /\ files[j].alias = k.alias /\ <<k.home, files[j].home>> \in Extends
          <5>1. Len(files) \in Nat /\ j \in 1 .. Len(files)
            BY <1>3, <2>2 DEF TypeOK
          <5>2. files'[i] = k /\ files'[j] = files[j]
            BY <1>3, <2>2, <5>1
          <5> QED BY <1>3, <5>1, <5>2
        <4> QED BY <4>1 DEF Matches
      <3> QED BY <1>3, <1>4, <2>2, <3>1
    <2> QED BY <1>3, <2>1, <2>2
  <1>13. WriteInv'
    <2>1. \A l \in acked' : Listed(l)'
      BY <1>1, <1>6 DEF WriteInv, Doubtful
    <2>2. ASSUME NEW v \in Workers, pc'[v] \in Writing
          PROVE  Listed(key[v])' /\ (key'[v] \in acked' => key'[v] \in Doubtful')
      <3>1. CASE v = w
        BY <1>1, <1>5, <1>7, <3>1 DEF WriteInv, Doubtful, Listed
      <3>2. CASE v # w
        BY <1>1, <1>3, <2>2, <3>2 DEF WriteInv, Doubtful, TypeOK, Listed
      <3> QED BY <3>1, <3>2
    <2>3. \A v \in Workers : pc'[v] = "opened" =>
            disk'[key'[v]] = "partial" \/ key'[v] \in Doubtful'
      BY <1>1 DEF WriteInv, Doubtful, TypeOK
    <2>4. ASSUME NEW u \in Workers, NEW v \in Workers, u # v,
                 pc'[u] \in Writing, pc'[v] \in Writing, key'[u] = key'[v]
          PROVE  key'[u] \in Doubtful'
      <3>1. CASE u # w /\ v # w
        BY <1>1, <2>4, <3>1 DEF WriteInv, Doubtful, TypeOK
      <3>2. CASE u = w \/ v = w
        BY <1>1, <1>5, <2>4, <3>2 DEF WriteInv, Doubtful, TypeOK, Writing
      <3> QED BY <3>1, <3>2
    <2> QED BY <2>1, <2>2, <2>3, <2>4 DEF WriteInv, Doubtful
  <1>14. FilesHaveRows'
    BY <1>1, <1>6 DEF FilesHaveRows, Listed
  <1>15. RowsHaveFiles'
    <2>1. pc'[w] = "inserted" /\ \A v \in Workers : v # w => pc'[v] = pc[v]
      BY <1>1 DEF TypeOK
    <2>2. \A i \in DOMAIN files' : files'[i] = k \/ \E j \in DOMAIN files : files[j] = files'[i]
      BY <1>3
    <2>3. \A l \in Paths \ {k} :
            (\E i \in DOMAIN files' : files'[i] = l) => \E i \in DOMAIN files : files[i] = l
      BY <2>2
    <2> QED BY <1>1, <2>1, <2>3 DEF RowsHaveFiles
  <1>16. AckedStored'
    <2>1. \A l \in Paths :
            (\E i \in DOMAIN files : files[i] = l) => \E i \in DOMAIN files' : files'[i] = l
      BY <1>3
    <2> QED BY <1>1, <2>1 DEF AckedStored, TypeOK
  <1> QED BY <1>8, <1>9, <1>10, <1>11, <1>12, <1>13, <1>14, <1>15, <1>16

\* An INSERT that fails preserves the invariant: the path is unlisted from now
\* on (responder.c 88).
LEMMA InsertFails ==
  ASSUME Inv, NEW w \in Workers, insert_alias_in_db(w),
         unlisted' = unlisted \cup {key[w]}, UNCHANGED files
  PROVE  Inv'
  <1> USE StorageAssumption, KeyFacts
  <1> USE DEF Inv, At, Goto
  <1> DEFINE k == key[w]
  <1>1. /\ pc[w] = "file_checked" /\ k \in Paths
        /\ pc' = [pc EXCEPT ![w] = "inserted"] /\ pc'[w] = "inserted"
        /\ \A v \in Workers : v # w => pc'[v] = pc[v]
        /\ unlisted' = unlisted \cup {k}
        /\ UNCHANGED <<users, files, dirs, disk, user, key, raced, torn, homeless, acked>>
    BY DEF insert_alias_in_db, SessionInv, TypeOK
  <1> HIDE DEF k
  <1>2. TypeOK'
    BY <1>1 DEF TypeOK
  <1>3. SessionInv' /\ HomeInv'
    BY <1>1 DEF SessionInv, HomeInv, Checking, k
  <1>4. CheckInv'
    BY <1>1 DEF CheckInv, Checking, Checked, Registered, Matches, Conflicts
  <1>5. NamesInv' /\ OrderInv'
    BY <1>1 DEF NamesInv, OrderInv, Matches
  <1>6. WriteInv'
    <2>1. \A v \in Workers : pc'[v] \in Writing => key[v] = k \/ pc[v] \in Writing
      BY <1>1 DEF Writing, k
    <2>2. \A v \in Workers : pc'[v] = "opened" => pc[v] = "opened"
      BY <1>1
    <2>3. k \in Doubtful' /\ Doubtful \subseteq Doubtful'
      BY <1>1 DEF Doubtful
    <2>9. \A v \in Workers : key[v] = k => Listed(key[v])'
      BY <1>1 DEF Listed
    <2>4. \A l : Listed(l) => Listed(l)'
      BY <1>1 DEF Listed
    <2>5. \A l \in acked' : Listed(l)'
      BY <1>1, <2>4 DEF WriteInv
    <2>6. \A v \in Workers : pc'[v] \in Writing =>
            Listed(key[v])' /\ (key'[v] \in acked' => key'[v] \in Doubtful')
      BY <1>1, <2>1, <2>3, <2>4, <2>9 DEF WriteInv, Listed
    <2>7. \A v \in Workers : pc'[v] = "opened" =>
            disk'[key'[v]] = "partial" \/ key'[v] \in Doubtful'
      BY <1>1, <2>2, <2>3 DEF WriteInv
    <2>8. \A u \in Workers, v \in Workers :
            u # v /\ pc'[u] \in Writing /\ pc'[v] \in Writing /\ key'[u] = key'[v]
              => key'[u] \in Doubtful'
      BY <1>1, <2>1, <2>3 DEF WriteInv
    <2> QED BY <2>5, <2>6, <2>7, <2>8 DEF WriteInv, Listed
  <1>7. FilesHaveRows'
    BY <1>1 DEF FilesHaveRows
  <1>8. RowsHaveFiles'
    BY <1>1 DEF RowsHaveFiles
  <1>9. AckedStored'
    BY <1>1 DEF AckedStored
  <1> QED BY <1>2, <1>3, <1>4, <1>5, <1>6, <1>7, <1>8, <1>9

\* A handler that ends, and changes nothing but its session and what is torn,
\* preserves the invariant.
LEMMA Leaves ==
  ASSUME Inv, NEW w \in Workers, Done(w),
         user' = user \/ user' = [user EXCEPT ![w] = NoUser],
         torn \subseteq torn', torn' \subseteq Paths,
         pc[w] \in Writing => key[w] \in torn',
         UNCHANGED <<users, files, dirs, disk, raced, homeless, unlisted, acked>>
  PROVE  Inv'
  <1> USE StorageAssumption, KeyFacts
  <1> USE DEF Inv, At, Goto, Done
  <1>1. /\ pc' = [pc EXCEPT ![w] = "idle"] /\ pc'[w] = "idle"
        /\ key' = [key EXCEPT ![w] = Account(Root)]
        /\ \A v \in Workers \ {w} : pc'[v] = pc[v] /\ key'[v] = key[v]
    BY DEF TypeOK
  <1>2. TypeOK'
    <2>1. user' \in [Workers -> [id : 0 .. Len(users), home : Names, admin : {"yes", "no"}]]
      BY DEF TypeOK, NoUser
    <2>2. key' \in [Workers -> Keys]
      BY <1>1 DEF TypeOK
    <2> QED BY <1>1, <2>1, <2>2 DEF TypeOK
  <1>3. SessionInv'
    BY <1>1 DEF SessionInv, TypeOK, Checking
  <1>4. HomeInv'
    BY <1>1 DEF HomeInv, TypeOK, NoUser
  <1>5. CheckInv'
    BY <1>1 DEF CheckInv, Checking, Checked, Registered, Matches, Conflicts
  <1>6. NamesInv' /\ OrderInv' /\ FilesHaveRows' /\ AckedStored'
    BY DEF NamesInv, OrderInv, Matches, FilesHaveRows, Listed, AckedStored
  <1>7. WriteInv'
    BY <1>1 DEF WriteInv, Doubtful, Writing, Listed
  <1>8. RowsHaveFiles'
    <2> SUFFICES ASSUME NEW l \in Paths
                 PROVE  /\ (\E i \in DOMAIN files : files[i] = l) /\ disk[l] = "absent" =>
                             \/ l \in torn' \/ l.home \in homeless
                             \/ \E v \in Workers : pc'[v] = "inserted" /\ key'[v] = l
                        /\ disk[l] = "partial" =>
                             \/ l \in torn'
                             \/ \E v \in Workers : pc'[v] = "opened" /\ key'[v] = l
      BY <1>1 DEF RowsHaveFiles
    <2>1. CASE pc[w] \in Writing /\ key[w] = l
      BY <2>1
    <2>2. CASE ~(pc[w] \in Writing /\ key[w] = l)
      BY <1>1, <2>2 DEF RowsHaveFiles, Writing
    <2> QED BY <2>1, <2>2
  <1> QED BY <1>2, <1>3, <1>4, <1>5, <1>6, <1>7, <1>8

\* A new user whose INSERT fails: the handler ends (responder.c 176-180).
LEMMA NewUserFails ==
  ASSUME Inv, NEW w \in Workers, new_user_in_db(w), UNCHANGED users
  PROVE  Inv'
  <1>1. pc[w] = "folder_made" /\ torn \subseteq Paths
    BY DEF new_user_in_db, At, Inv, TypeOK
  <1> QED BY <1>1, Leaves DEF new_user_in_db, history, Writing

\* get and the end of a worker preserve the invariant: what a worker has
\* written stays (responder.c 20-62).
LEMMA GetStep ==
  ASSUME Inv, NEW w \in Workers, process_get_cmd(w) \/ WorkerEnds(w)
  PROVE  Inv'
  <1> USE StorageAssumption, KeyFacts DEF database, history
  <1>1. CASE GetCheck(w)
    <2> DEFINE A(a) == Matches(user[w].home, a)
    <2>1. PICK a \in Aliases : A(a) # {} /\ key' = [key EXCEPT ![w] = files[Lowest(A(a))]]
      BY <1>1 DEF GetCheck
    <2>2. A(a) \subseteq DOMAIN files /\ files \in Seq(Paths) /\ DOMAIN files \subseteq Nat
      BY DEF Matches, Inv, TypeOK
    <2>3. Lowest(A(a)) \in A(a)
      BY <2>1, <2>2, LowestIn
    <2> DEFINE k == files[Lowest(A(a))]
    <2>4. k \in Paths /\ k \in Keys
      BY <2>2, <2>3
    <2> HIDE DEF A
    <2>5. /\ pc[w] = "idle" /\ pc' = [pc EXCEPT ![w] = "path_known"]
          /\ key' = [key EXCEPT ![w] = k]
          /\ UNCHANGED <<users, files, dirs, disk, user, raced, torn, homeless, unlisted, acked>>
      BY <1>1, <2>1 DEF GetCheck, Starts, At, Goto
    <2> HIDE DEF k
    <2> USE DEF Inv
    <2>6. TypeOK' /\ SessionInv' /\ HomeInv'
      BY <2>4, <2>5 DEF TypeOK, SessionInv, HomeInv, Checking
    <2>7. CheckInv'
      BY <2>5 DEF CheckInv, TypeOK, Checking, Checked, Registered, Matches, Conflicts
    <2>8. NamesInv' /\ OrderInv' /\ FilesHaveRows' /\ AckedStored'
      BY <2>5 DEF NamesInv, OrderInv, Matches, FilesHaveRows, Listed, AckedStored
    <2>9. WriteInv'
      BY <2>5 DEF WriteInv, Doubtful, TypeOK, Writing, Listed
    <2>10. RowsHaveFiles'
      <3>1. \A v \in Workers : pc[v] \in Writing => pc'[v] = pc[v] /\ key'[v] = key[v]
        BY <2>5 DEF TypeOK, Writing
      <3> QED BY <2>5, <3>1 DEF RowsHaveFiles, At, Writing
    <2> QED BY <2>6, <2>7, <2>8, <2>9, <2>10
  <1>2. CASE GetFile(w)
    <2>1. pc[w] = "path_known" /\ torn \subseteq Paths
      BY <1>2 DEF GetFile, At, Inv, TypeOK
    <2> QED BY <1>2, <2>1, Leaves DEF GetFile, Writing
  <1>3. CASE GetFaults(w) \/ WorkerEnds(w)
    <2>1. Ends(w)
      BY <1>3 DEF GetFaults, WorkerEnds
    <2>2. pc[w] \in Writing => key[w] \in Paths
      BY DEF Inv, SessionInv, Writing
    <2>3. torn \subseteq torn' /\ torn' \subseteq Paths /\ (pc[w] \in Writing => key[w] \in torn')
      BY <2>1, <2>2 DEF Ends, Writing, Inv, TypeOK
    <2> QED BY <2>1, <2>3, Leaves DEF Ends
  <1> QED BY <1>1, <1>2, <1>3 DEF process_get_cmd

\* Opening the file of a post preserves the invariant: what it truncates was
\* not acknowledged, unless posts raced; without a folder there is nothing to
\* open and the name is homeless (responder.c 90-97).
LEMMA OpenStep ==
  ASSUME Inv, NEW w \in Workers, OpenFile(w)
  PROVE  Inv'
  <1> USE StorageAssumption, KeyFacts
  <1> USE DEF Inv, database, At, Goto, Done
  <1> DEFINE k == key[w]
  <1>1. /\ pc[w] = "inserted" /\ k \in Paths /\ Listed(k)
        /\ k \in acked => k \in Doubtful
        /\ k.home \in dirs \cup homeless
        /\ UNCHANGED <<users, files, dirs, user, raced, torn, homeless, unlisted>>
    BY DEF OpenFile, SessionInv, WriteInv, Doubtful, Writing, HomeInv
  <1>2. CASE k.home \in dirs
    <2>1. /\ disk' = [disk EXCEPT ![k] = "partial"] /\ disk'[k] = "partial"
          /\ \A l \in Paths : l # k => disk'[l] = disk[l]
          /\ pc' = [pc EXCEPT ![w] = "opened"] /\ pc'[w] = "opened"
          /\ \A v \in Workers \ {w} : pc'[v] = pc[v]
          /\ UNCHANGED <<acked, key>>
      BY <1>1, <1>2 DEF OpenFile, TypeOK
    <2> HIDE DEF k
    <2>2. TypeOK'
      BY <1>1, <2>1 DEF TypeOK
    <2>3. SessionInv' /\ HomeInv'
      BY <1>1, <2>1 DEF SessionInv, HomeInv, Checking, k
    <2>4. CheckInv'
      BY <1>1, <2>1 DEF CheckInv, Checking, Checked, Registered, Matches, Conflicts
    <2>5. NamesInv' /\ OrderInv'
      BY <1>1 DEF NamesInv, OrderInv, Matches
    <2>6. WriteInv'
      <3>1. \A v \in Workers : pc'[v] \in Writing => pc[v] \in Writing
        BY <1>1, <2>1 DEF Writing
      <3>2. \A v \in Workers : pc'[v] = "opened" =>
              disk'[key[v]] = "partial" \/ key[v] \in Doubtful
        BY <1>1, <2>1 DEF WriteInv, Doubtful, SessionInv, k
      <3> QED BY <1>1, <2>1, <3>1, <3>2 DEF WriteInv, Doubtful, Listed
    <2>7. FilesHaveRows'
      BY <1>1, <2>1 DEF FilesHaveRows, Listed
    <2>8. RowsHaveFiles'
      <3> SUFFICES ASSUME NEW l \in Paths
                   PROVE  /\ (\E i \in DOMAIN files : files[i] = l) /\ disk'[l] = "absent" =>
                               \/ l \in torn \/ l.home \in homeless
                               \/ \E v \in Workers : pc'[v] = "inserted" /\ key[v] = l
                          /\ disk'[l] = "partial" =>
                               \/ l \in torn
                               \/ \E v \in Workers : pc'[v] = "opened" /\ key[v] = l
        BY <1>1, <2>1 DEF RowsHaveFiles
      <3>2. CASE l = k
        BY <2>1, <3>2 DEF k
      <3>3. CASE l # k
        BY <1>1, <2>1, <3>3 DEF RowsHaveFiles, k
      <3> QED BY <3>2, <3>3
    <2>9. AckedStored'
      BY <1>1, <2>1 DEF AckedStored, Doubtful, TypeOK
    <2> QED BY <2>2, <2>3, <2>4, <2>5, <2>6, <2>7, <2>8, <2>9
  <1>3. CASE k.home \notin dirs
    <2>1. /\ pc' = [pc EXCEPT ![w] = "idle"] /\ pc'[w] = "idle"
          /\ key' = [key EXCEPT ![w] = Account(Root)]
          /\ \A v \in Workers \ {w} : pc'[v] = pc[v] /\ key'[v] = key[v]
          /\ acked' = acked \cup {k}
          /\ UNCHANGED disk
      BY <1>1, <1>3 DEF OpenFile, TypeOK
    <2>2. k.home \in homeless
      BY <1>1, <1>3
    <2> HIDE DEF k
    <2>3. TypeOK'
      BY <1>1, <2>1 DEF TypeOK
    <2>4. SessionInv' /\ HomeInv'
      BY <1>1, <2>1 DEF SessionInv, HomeInv, Checking
    <2>5. CheckInv'
      BY <1>1, <2>1 DEF CheckInv, Checking, Checked, Registered, Matches, Conflicts
    <2>6. NamesInv' /\ OrderInv' /\ FilesHaveRows'
      BY <1>1, <2>1 DEF NamesInv, OrderInv, Matches, FilesHaveRows, Listed
    <2>7. WriteInv'
      <3>1. \A l \in acked' : Listed(l)'
        BY <1>1, <2>1 DEF WriteInv, Doubtful, Listed
      <3>2. \A v \in Workers : pc'[v] \in Writing =>
              Listed(key[v])' /\ (key'[v] \in acked' => key'[v] \in Doubtful')
        BY <1>1, <2>1 DEF WriteInv, Doubtful, Listed, Writing, k
      <3> QED BY <1>1, <2>1, <3>1, <3>2 DEF WriteInv, Doubtful, Writing
    <2>8. RowsHaveFiles'
      <3> SUFFICES ASSUME NEW l \in Paths
                   PROVE  /\ (\E i \in DOMAIN files : files[i] = l) /\ disk[l] = "absent" =>
                               \/ l \in torn \/ l.home \in homeless
                               \/ \E v \in Workers : pc'[v] = "inserted" /\ key'[v] = l
                          /\ disk[l] = "partial" =>
                               \/ l \in torn
                               \/ \E v \in Workers : pc'[v] = "opened" /\ key'[v] = l
        BY <1>1, <2>1 DEF RowsHaveFiles
      <3>1. CASE l = k
        BY <1>1, <2>1, <2>2, <3>1 DEF RowsHaveFiles
      <3>2. CASE l # k
        BY <1>1, <2>1, <3>2 DEF RowsHaveFiles, k
      <3> QED BY <3>1, <3>2
    <2>9. AckedStored'
      BY <1>1, <2>1, <2>2 DEF AckedStored, Listed
    <2> QED BY <2>3, <2>4, <2>5, <2>6, <2>7, <2>8, <2>9
  <1> QED BY <1>2, <1>3

\* Writing the file and the reply preserve the invariant: a file that somebody
\* else has changed since it was truncated comes from a race (responder.c
\* 93-97).
LEMMA WriteStep ==
  ASSUME Inv, NEW w \in Workers, file_from_raw_data(w)
  PROVE  Inv'
  <1> USE StorageAssumption, KeyFacts
  <1> USE DEF Inv, database, At, Goto, Done
  <1> DEFINE k == key[w]
  <1>1. /\ pc[w] = "opened" /\ k \in Paths /\ Listed(k)
        /\ disk[k] = "partial" \/ k \in Doubtful
        /\ UNCHANGED <<users, files, dirs, user, raced, torn, homeless, unlisted>>
    BY DEF file_from_raw_data, SessionInv, WriteInv, Doubtful, Writing
  <1>2. PICK c \in {"whole", "mixed"} :
          /\ disk' = [disk EXCEPT ![k] = c]
          /\ disk[k] = "partial" => c = "whole"
    BY DEF file_from_raw_data
  <1>3. /\ disk'[k] = c
        /\ \A l \in Paths : l # k => disk'[l] = disk[l]
        /\ pc' = [pc EXCEPT ![w] = "idle"] /\ pc'[w] = "idle"
        /\ key' = [key EXCEPT ![w] = Account(Root)]
        /\ \A v \in Workers \ {w} : pc'[v] = pc[v] /\ key'[v] = key[v]
        /\ acked' = acked \cup {k}
    BY <1>1, <1>2 DEF file_from_raw_data, TypeOK
  <1>4. \A v \in Workers \ {w} : pc[v] \in Writing /\ key[v] = k => k \in Doubtful
    BY <1>1 DEF WriteInv, Doubtful, Writing
  <1> HIDE DEF k
  <1>5. TypeOK'
    BY <1>1, <1>2, <1>3 DEF TypeOK
  <1>6. SessionInv' /\ HomeInv'
    BY <1>1, <1>3 DEF SessionInv, HomeInv, Checking
  <1>7. CheckInv'
    BY <1>1, <1>3 DEF CheckInv, Checking, Checked, Registered, Matches, Conflicts
  <1>8. NamesInv' /\ OrderInv'
    BY <1>1 DEF NamesInv, OrderInv, Matches
  <1>9. WriteInv'
    <2>1. \A l \in acked' : Listed(l)'
      BY <1>1, <1>3 DEF WriteInv, Doubtful, Listed
    <2>2. \A v \in Workers : pc'[v] \in Writing =>
            Listed(key[v])' /\ (key'[v] \in acked' => key'[v] \in Doubtful')
      BY <1>1, <1>3, <1>4 DEF WriteInv, Doubtful, Listed, Writing
    <2>3. \A v \in Workers : pc'[v] = "opened" =>
            disk'[key'[v]] = "partial" \/ key'[v] \in Doubtful'
      BY <1>1, <1>3, <1>4 DEF WriteInv, Doubtful, SessionInv, Writing
    <2> QED BY <1>1, <1>3, <2>1, <2>2, <2>3 DEF WriteInv, Doubtful, Writing
  <1>10. FilesHaveRows'
    BY <1>1, <1>3 DEF FilesHaveRows, Listed
  <1>11. RowsHaveFiles'
    <2> SUFFICES ASSUME NEW l \in Paths
                 PROVE  /\ (\E i \in DOMAIN files : files[i] = l) /\ disk'[l] = "absent" =>
                             \/ l \in torn \/ l.home \in homeless
                             \/ \E v \in Workers : pc'[v] = "inserted" /\ key'[v] = l
                        /\ disk'[l] = "partial" =>
                             \/ l \in torn
                             \/ \E v \in Workers : pc'[v] = "opened" /\ key'[v] = l
      BY <1>1, <1>3 DEF RowsHaveFiles
    <2>2. CASE l = k
      BY <1>2, <1>3, <2>2
    <2>3. CASE l # k
      BY <1>1, <1>3, <2>3 DEF RowsHaveFiles, k
    <2> QED BY <2>2, <2>3
  <1>12. AckedStored'
    BY <1>1, <1>2, <1>3 DEF AckedStored, Listed, Doubtful, TypeOK
  <1> QED BY <1>5, <1>6, <1>7, <1>8, <1>9, <1>10, <1>11, <1>12

-----------------------------------------------------------------------------
\* Every step of a worker preserves the invariant.
LEMMA NextInv == Inv /\ [Next]_vars => Inv'
  <1> SUFFICES ASSUME Inv, [Next]_vars PROVE Inv'
    OBVIOUS
  <1>1. CASE UNCHANGED vars
    <2>1. UNCHANGED <<users, files, dirs, disk, user, pc, key, raced, torn, homeless, unlisted, acked>>
      BY <1>1 DEF vars, database, history
    <2>2. TypeOK' /\ SessionInv' /\ HomeInv'
      BY <2>1 DEF Inv, TypeOK, SessionInv, HomeInv
    <2> QED BY <2>1, <2>2, SessionsOnly DEF Inv
  <1>2. CASE Next
    <2>1. ASSUME NEW w \in Workers, insert_alias_in_db(w) PROVE Inv'
      BY <2>1, InsertStep, InsertFails DEF insert_alias_in_db
    <2> QED BY <1>2, <2>1, SessionStep, CheckStep, NewUserStep, NewUserFails, OpenStep,
               WriteStep, GetStep
            DEF Next, process_new_user_cmd, process_post_cmd
  <1> QED BY <1>1, <1>2

\* The invariant holds in every reachable state.
LEMMA AlwaysInv == Spec => []Inv
  BY InitInv, NextInv, PTL DEF Spec

\* The tables, the disk and the sessions keep their types, and the id of a
\* session stays within the table users.
THEOREM TypeCorrect == Spec => []TypeOK
  <1>1. Inv => TypeOK
    BY DEF Inv
  <1> QED BY <1>1, AlwaysInv, PTL

\* Every file on disk has its row, whatever handlers interleave or end, unless
\* an INSERT whose result the post ignores has failed (responder.c 88-93).
THEOREM FilesAreListed == Spec => []FilesHaveRows
  <1>1. Inv => FilesHaveRows
    BY DEF Inv
  <1> QED BY <1>1, AlwaysInv, PTL

\* A row whose file is missing, or a file that is unfinished, has a reason
\* (responder.c 31-51, 88-93).
THEOREM RowsAreExplained == Spec => []RowsHaveFiles
  <1>1. Inv => RowsHaveFiles
    BY DEF Inv
  <1> QED BY <1>1, AlwaysInv, PTL

\* An acknowledged file is listed and no later post changes it, unless posts
\* raced, its INSERT failed or it had no home (responder.c 76-97).
THEOREM AckedStaysStored == Spec => []AckedStored
  <1>1. Inv => AckedStored
    BY DEF Inv
  <1> QED BY <1>1, AlwaysInv, PTL

\* The first row that a user's LIKE finds is the user's own (sql_helpers.c
\* 33-38).
THEOREM OwnFileFirst == Spec => []OwnFirst
  <1>1. ASSUME Inv PROVE OwnFirst
    <2> SUFFICES ASSUME NEW i \in DOMAIN files, files[i] \notin raced
                 PROVE  Lowest(Matches(files[i].home, files[i].alias)) = i
      BY DEF OwnFirst
    <2> DEFINE S == Matches(files[i].home, files[i].alias)
    <2>1. files[i] \in Paths /\ DOMAIN files \subseteq Nat
      BY <1>1 DEF Inv, TypeOK
    <2>2. S \in SUBSET Nat /\ S \subseteq DOMAIN files /\ i \in S
      BY <2>1, StorageAssumption, KeyFacts DEF Matches
    <2>3. \A j \in S : ~(j < i)
      BY <1>1, <2>2 DEF Inv, OrderInv
    <2>4. \A j \in S : i <= j
      BY <2>2, <2>3
    <2> HIDE DEF S
    <2>5. Lowest(S) = i
      BY <2>2, <2>4, LowestIs
    <2> QED BY <2>5 DEF S
  <1> QED BY <1>1, AlwaysInv, PTL

\* An account answers to its name and password alone, unless two administrators
\* registered the name at the same time (responder.c 168-176, sql_helpers.c
\* 116-176).
THEOREM LoginIsUnique == Spec => []LoginReaches
  <1>1. ASSUME Inv PROVE LoginReaches
    BY <1>1 DEF Inv, NamesInv, LoginReaches, Identified
  <1> QED BY <1>1, AlwaysInv, PTL
=============================================================================
