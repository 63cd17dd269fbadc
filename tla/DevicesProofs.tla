---------------------------- MODULE DevicesProofs ----------------------------
(***************************************************************************)
(* Proofs about Devices for any names, any command line and any number of  *)
(* descriptors: what the environment holds after each turn of              *)
(* fdinfo_setenv(), what has been added after each turn of the loop of     *)
(* __franken_fdinit(), and so which devices there are and which of them is *)
(* the root.                                                               *)
(***************************************************************************)
EXTENDS Devices, WellFoundedInduction, TLAPS

(* What rexec opened: under descriptors of their own, and apart from the
   socket of open_9pfs(). *)
ListOK ==
    /\ \A i \in DOMAIN fdinfo_list :
          /\ fdinfo_list[i].class \in Opened
          /\ fdinfo_list[i].class = "ROOT" => fdinfo_list[i].name = "-"
          /\ fdinfo_list[i].fd <= Len(fds) + 2
          /\ phase # "rexec" /\ spec_9pfs # "NULL" => fdinfo_list[i].fd # Len(fds) + 1
    /\ \A i, j \in DOMAIN fdinfo_list : fdinfo_list[i].fd = fdinfo_list[j].fd => i = j

(* Where the loops are. *)
CursorsOK ==
    /\ info <= Len(fdinfo_list) + 1
    /\ phase = "rexec" => info = 1
    /\ phase \in {"fdinit", "create", "up"} => info = Len(fdinfo_list) + 1
    /\ phase \in {"rexec", "setenv"} => n = 0 /\ env = 1 /\ added = <<>> /\ valid = {}
    /\ (n = 0 /\ env = 1) \/ env = n
    /\ env <= Len(environ) + 1
    /\ phase \in {"create", "up"} => env = Len(environ) + 1

(* The first variable is not a descriptor. *)
FirstIsOther == 1 \in DOMAIN environ /\ ~Passed(environ[1])

(* Of the arguments up to k, the one at m is the last of its name. *)
LatestTo(m, k) == \A j \in m + 1 .. k : ~SameName(fdinfo_list[j], fdinfo_list[m])

IsListed(v) == \E m \in 1 .. info - 1 : v = fdinfo_list[m] /\ LatestTo(m, info - 1)
Is9pfs(v) == v.class = "9PFS_FD" /\ v.name = "-" /\ spec_9pfs # "NULL" /\ v.fd = Len(fds) + 1

(* The variables that fdinfo_setenv() has set so far. *)
EnvironOK ==
    /\ \A i, j \in DOMAIN environ :
          Passed(environ[i]) /\ SameName(environ[i], environ[j]) => i = j
    /\ \A i \in DOMAIN environ :
          Passed(environ[i]) => phase # "rexec" /\ (Is9pfs(environ[i]) \/ IsListed(environ[i]))
    /\ \A m \in 1 .. info - 1 : \E i \in DOMAIN environ : SameName(environ[i], fdinfo_list[m])
    /\ phase # "rexec" /\ spec_9pfs # "NULL" => \E i \in DOMAIN environ : Is9pfs(environ[i])

(* Variables are in the order in which their names were first used. *)
OrderOK ==
    \A i, j \in DOMAIN environ :
        i < j /\ environ[i].class \in Opened /\ environ[j].class \in Opened =>
            \A m \in 1 .. info - 1 : SameName(environ[j], fdinfo_list[m]) =>
                \E k \in 1 .. m - 1 : SameName(environ[i], fdinfo_list[k])

(* What __franken_fdinit() has added so far, in the order of the variables. *)
AddedOK ==
    /\ \A a \in DOMAIN added : \E j \in 1 .. env - 1 :
          Passed(environ[j]) /\ added[a] = Device(environ[j])
    /\ \A j \in 1 .. env - 1 : Passed(environ[j]) =>
          \E a \in DOMAIN added : added[a] = Device(environ[j])
    /\ \A a, c \in DOMAIN added, i, j \in 1 .. env - 1 :
          /\ a < c /\ Passed(environ[i]) /\ Passed(environ[j])
          /\ added[a] = Device(environ[i]) /\ added[c] = Device(environ[j])
          => i < j
    /\ valid = {added[a].fd : a \in DOMAIN added}

Inv == TypeOK /\ ListOK /\ CursorsOK /\ FirstIsOther /\ EnvironOK /\ OrderOK /\ AddedOK /\ RootIsRootfs

LEMMA VariableIs ==
  ASSUME NEW v \in Variable
  PROVE  v.class \in Class /\ v.name \in Name /\ v.fd \in Nat
  BY DEF Variable

LEMMA VarIs ==
  ASSUME NEW class \in Class, NEW name \in Name, NEW fd \in Nat
  PROVE  /\ Var(class, name, fd) \in Variable /\ Var(class, name, fd).class = class
         /\ Var(class, name, fd).name = name /\ Var(class, name, fd).fd = fd
  BY DEF Var, Variable

(* Facts of the types. *)
LEMMA Types ==
  ASSUME TypeOK
  PROVE  /\ fds \in Seq(Descriptor) /\ Len(fds) \in Nat
         /\ fdinfo_list \in Seq(Variable) /\ Len(fdinfo_list) \in Nat
         /\ DOMAIN fdinfo_list = 1 .. Len(fdinfo_list)
         /\ environ \in Seq(Variable) /\ Len(environ) \in Nat /\ DOMAIN environ = 1 .. Len(environ)
         /\ added \in Seq(AnyDevice) /\ Len(added) \in Nat /\ DOMAIN added = 1 .. Len(added)
         /\ info \in Nat /\ info >= 1 /\ n \in Nat /\ env \in Nat /\ env >= 1
         /\ \A i \in DOMAIN fdinfo_list : /\ fdinfo_list[i] \in Variable
                                          /\ fdinfo_list[i].fd \in Nat
         /\ \A i \in DOMAIN environ : environ[i] \in Variable /\ environ[i].fd \in Nat
<1>1. /\ fds \in Seq(Descriptor) /\ fdinfo_list \in Seq(Variable) /\ environ \in Seq(Variable)
      /\ added \in Seq(AnyDevice) /\ info \in Nat /\ info >= 1 /\ n \in Nat /\ env \in Nat /\ env >= 1
  BY DEF TypeOK
<1>2. /\ \A i \in DOMAIN fdinfo_list : fdinfo_list[i] \in Variable
      /\ \A i \in DOMAIN environ : environ[i] \in Variable
  BY <1>1
<1> QED
  BY <1>1, <1>2, VariableIs

-----------------------------------------------------------------------------
(* Initial states. *)

LEMMA SetenvOther ==
  ASSUME NEW e \in Seq(Variable), \A i \in DOMAIN e : e[i].class = "other",
         NEW v \in Variable, v.class = "other"
  PROVE  /\ setenv(e, v, FALSE) \in Seq(Variable)
         /\ \A i \in DOMAIN setenv(e, v, FALSE) : setenv(e, v, FALSE)[i].class = "other"
         /\ 1 \in DOMAIN setenv(e, v, FALSE)
<1>1. CASE Named(e, v) = {}
  <2>1. setenv(e, v, FALSE) = Append(e, v)
    BY <1>1 DEF setenv
  <2>2. /\ Append(e, v) \in Seq(Variable) /\ 1 \in DOMAIN Append(e, v)
        /\ \A i \in DOMAIN Append(e, v) : Append(e, v)[i].class = "other"
    OBVIOUS
  <2> QED
    BY <2>1, <2>2
<1>2. CASE Named(e, v) # {}
  <2>1. setenv(e, v, FALSE) = e
    BY <1>2 DEF setenv
  <2>2. 1 \in DOMAIN e
    BY <1>2 DEF Named
  <2> QED
    BY <2>1, <2>2
<1> QED
  BY <1>1, <1>2

LEMMA InitInv == Init => Inv
<1> SUFFICES ASSUME Init PROVE Inv
  OBVIOUS
<1>1. /\ phase = "rexec" /\ fds = <<>> /\ fdinfo_list = <<>> /\ info = 1
      /\ n = 0 /\ env = 1 /\ valid = {} /\ added = <<>>
  BY DEF Init
<1>2. PICK e \in Inherited : environ = uuid(e)
  BY DEF Init
<1>3. Var("other", "PATH", NoFd) \in Variable /\ Var("other", "UUID", NoFd) \in Variable
  <2>1. "other" \in Class /\ "PATH" \in Name /\ "UUID" \in Name /\ NoFd \in Nat
    BY DEF Class, Name, NoFd
  <2> QED
    BY <2>1, VarIs
<1>4. e \in Seq(Variable) /\ \A i \in DOMAIN e : e[i].class = "other"
  <2> DEFINE p == Var("other", "PATH", NoFd)
             u == Var("other", "UUID", NoFd)
  <2>1. p.class = "other" /\ u.class = "other"
    BY DEF Var
  <2>2. e \in {<<>>, <<p>>, <<u>>}
    BY DEF Inherited
  <2> HIDE DEF p, u
  <2>3. p \in Variable /\ u \in Variable
    BY <1>3 DEF p, u
  <2>4. /\ <<>> \in Seq(Variable) /\ <<p>> \in Seq(Variable) /\ <<u>> \in Seq(Variable)
        /\ DOMAIN <<>> = {} /\ DOMAIN <<p>> = {1} /\ DOMAIN <<u>> = {1}
    BY <2>3
  <2>5. CASE e = <<>>
    BY <2>4, <2>5
  <2>6. CASE e = <<p>>
    BY <2>1, <2>4, <2>6
  <2>7. CASE e = <<u>>
    BY <2>1, <2>4, <2>7
  <2> QED
    BY <2>2, <2>5, <2>6, <2>7
<1>5. environ \in Seq(Variable) /\ 1 \in DOMAIN environ /\ \A i \in DOMAIN environ : environ[i].class = "other"
  <2>1. Var("other", "UUID", NoFd).class = "other"
    BY DEF Var
  <2> QED
    BY <1>2, <1>3, <1>4, <2>1, SetenvOther DEF uuid
<1>6. TypeOK
  BY <1>1, <1>5 DEF TypeOK
<1>7. ListOK
  BY <1>1 DEF ListOK
<1>8. CursorsOK
  BY <1>1, <1>5 DEF CursorsOK
<1>9. FirstIsOther
  BY <1>5 DEF FirstIsOther, Passed
<1>10. EnvironOK
  BY <1>1, <1>5 DEF EnvironOK, Passed
<1>11. OrderOK
  BY <1>5 DEF OrderOK, Opened
<1>12. AddedOK
  BY <1>1 DEF AddedOK
<1>13. RootIsRootfs
  BY <1>1 DEF RootIsRootfs
<1> QED
  BY <1>6, <1>7, <1>8, <1>9, <1>10, <1>11, <1>12, <1>13 DEF Inv

-----------------------------------------------------------------------------
(* rexec. *)

(* Before open_9pfs() the environment has no descriptor. *)
LEMMA NothingPassed ==
  ASSUME Inv, phase = "rexec"
  PROVE  \A i \in DOMAIN environ : environ[i].class = "other"
  BY DEF Inv, EnvironOK, Passed

LEMMA OpenInv ==
  ASSUME Inv, NEW type \in {"reg", "blk", "sock"}, NEW class \in Opened,
         NEW name \in Disk \cup Net \cup {"-"}, class = "ROOT" => name = "-", OpenAs(type, class, name)
  PROVE  Inv'
<1> USE DEF Inv
<1>1. /\ phase = "rexec" /\ fds' = Append(fds, type)
      /\ fdinfo_list' = Append(fdinfo_list, Var(class, name, Len(fds) + 3))
      /\ UNCHANGED <<phase, info, spec_9pfs, environ, n, env, valid, added, root>>
  BY DEF OpenAs, Arg, NextFd
<1> DEFINE v == Var(class, name, Len(fds) + 3)
<1>2. v \in Variable /\ v.class = class /\ v.name = name /\ v.fd = Len(fds) + 3
  <2>1. class \in Class /\ name \in Name /\ Len(fds) + 3 \in Nat
    BY Types DEF Class, Name
  <2> QED
    BY <2>1, VarIs
<1> HIDE DEF v
<1>3. /\ fds \in Seq(Descriptor) /\ fdinfo_list \in Seq(Variable)
      /\ Len(fds) \in Nat /\ Len(fdinfo_list) \in Nat
      /\ \A i \in DOMAIN fdinfo_list : fdinfo_list[i].fd \in Nat
  BY Types
<1>4. /\ fds' \in Seq(Descriptor) /\ Len(fds') = Len(fds) + 1
      /\ fdinfo_list' \in Seq(Variable) /\ DOMAIN fdinfo_list' = 1 .. Len(fdinfo_list) + 1
      /\ DOMAIN fdinfo_list = 1 .. Len(fdinfo_list)
      /\ Len(fdinfo_list') = Len(fdinfo_list) + 1
      /\ \A i \in 1 .. Len(fdinfo_list) : fdinfo_list'[i] = fdinfo_list[i]
      /\ fdinfo_list'[Len(fdinfo_list) + 1] = v
  <2>1. type \in Descriptor
    BY DEF Descriptor
  <2>2. fdinfo_list' = Append(fdinfo_list, v)
    BY <1>1 DEF v
  <2> QED
    BY <1>1, <1>2, <1>3, <2>1, <2>2
<1>5. TypeOK'
  BY <1>1, <1>4 DEF TypeOK
<1>6. ListOK'
  <2>1. ASSUME NEW i \in DOMAIN fdinfo_list
        PROVE  fdinfo_list[i].fd \in Nat /\ fdinfo_list[i].fd <= Len(fds) + 2
    BY <1>3 DEF ListOK
  <2>2. ASSUME NEW i \in DOMAIN fdinfo_list'
        PROVE  /\ fdinfo_list'[i].class \in Opened
               /\ fdinfo_list'[i].class = "ROOT" => fdinfo_list'[i].name = "-"
               /\ fdinfo_list'[i].fd <= Len(fds') + 2
    <3>1. CASE i \in DOMAIN fdinfo_list
      BY <1>3, <1>4, <2>1, <3>1 DEF ListOK
    <3>2. CASE i = Len(fdinfo_list) + 1
      BY <1>2, <1>3, <1>4, <3>2
    <3> QED
      BY <1>4, <3>1, <3>2
  <2>3. ASSUME NEW i \in DOMAIN fdinfo_list', NEW j \in DOMAIN fdinfo_list',
               fdinfo_list'[i].fd = fdinfo_list'[j].fd
        PROVE  i = j
    <3>1. CASE i \in DOMAIN fdinfo_list /\ j \in DOMAIN fdinfo_list
      BY <1>4, <2>3, <3>1 DEF ListOK
    <3>2. CASE i = Len(fdinfo_list) + 1 /\ j \in DOMAIN fdinfo_list
      BY <1>2, <1>3, <1>4, <2>1, <2>3, <3>2
    <3>3. CASE i \in DOMAIN fdinfo_list /\ j = Len(fdinfo_list) + 1
      BY <1>2, <1>3, <1>4, <2>1, <2>3, <3>3
    <3> QED
      BY <1>4, <3>1, <3>2, <3>3
  <2> QED
    BY <1>1, <2>2, <2>3 DEF ListOK
<1>7. CursorsOK'
  BY <1>1, <1>3, <1>4 DEF CursorsOK
<1>8. FirstIsOther'
  BY <1>1 DEF FirstIsOther
<1>9. \A i \in DOMAIN environ' : environ'[i].class = "other"
  BY <1>1, NothingPassed
<1>10. EnvironOK'
  <2>1. info' = 1 /\ phase' = "rexec"
    BY <1>1 DEF CursorsOK
  <2> QED
    BY <1>9, <2>1 DEF EnvironOK, Passed
<1>11. OrderOK'
  BY <1>9 DEF OrderOK, Opened
<1>12. AddedOK'
  <2>1. AddedOK /\ added' = added /\ env' = env /\ environ' = environ /\ valid' = valid
    BY <1>1
  <2> QED
    BY ONLY <2>1 DEF AddedOK
<1>13. RootIsRootfs'
  BY <1>1 DEF RootIsRootfs
<1> QED
  BY <1>5, <1>6, <1>7, <1>8, <1>10, <1>11, <1>12, <1>13

LEMMA NorootInv == ASSUME Inv, ArgNoroot PROVE Inv'
<1> USE DEF Inv
<1>1. /\ phase = "rexec" /\ fds' = Append(fds, "chr")
      /\ UNCHANGED <<phase, fdinfo_list, info, spec_9pfs, environ, n, env, valid, added, root>>
  BY DEF ArgNoroot, Arg
<1>2. /\ fds' \in Seq(Descriptor) /\ Len(fds') = Len(fds) + 1 /\ Len(fds) \in Nat
  <2>1. "chr" \in Descriptor
    BY DEF Descriptor
  <2> QED
    BY <1>1, <2>1, Types
<1>3. TypeOK'
  BY <1>1, <1>2 DEF TypeOK
<1>4. ListOK'
  <2>1. \A i \in DOMAIN fdinfo_list : fdinfo_list[i].fd \in Nat
    BY Types
  <2>2. \A i \in DOMAIN fdinfo_list : fdinfo_list[i].fd <= Len(fds') + 2
    BY <1>2, <2>1 DEF ListOK
  <2> QED
    BY <1>1, <2>2 DEF ListOK
<1>5. CursorsOK' /\ FirstIsOther'
  BY <1>1 DEF CursorsOK, FirstIsOther
<1>6. \A i \in DOMAIN environ' : environ'[i].class = "other"
  BY <1>1, NothingPassed
<1>7. EnvironOK'
  <2>1. info' = 1 /\ phase' = "rexec"
    BY <1>1 DEF CursorsOK
  <2> QED
    BY <1>6, <2>1 DEF EnvironOK, Passed
<1>8. OrderOK'
  BY <1>6 DEF OrderOK, Opened
<1>9. AddedOK' /\ RootIsRootfs'
  BY <1>1 DEF AddedOK, RootIsRootfs
<1> QED
  BY <1>3, <1>4, <1>5, <1>7, <1>8, <1>9

LEMMA Arg9pfsInv == ASSUME Inv, NEW g \in Guest, Arg9pfs(g) PROVE Inv'
<1> USE DEF Inv
<1>1. /\ phase = "rexec"
      /\ UNCHANGED <<phase, fds, fdinfo_list, info, environ, n, env, valid, added, root>>
  BY DEF Arg9pfs, Arg
<1>2. TypeOK' /\ ListOK' /\ CursorsOK' /\ FirstIsOther'
  BY <1>1 DEF TypeOK, ListOK, CursorsOK, FirstIsOther
<1>3. \A i \in DOMAIN environ' : environ'[i].class = "other"
  BY <1>1, NothingPassed
<1>4. EnvironOK'
  <2>1. info' = 1 /\ phase' = "rexec"
    BY <1>1 DEF CursorsOK
  <2> QED
    BY <1>3, <2>1 DEF EnvironOK, Passed
<1>5. OrderOK'
  BY <1>3 DEF OrderOK, Opened
<1>6. AddedOK' /\ RootIsRootfs'
  BY <1>1 DEF AddedOK, RootIsRootfs
<1> QED
  BY <1>2, <1>4, <1>5, <1>6

LEMMA Open9pfsInv == ASSUME Inv, Open9pfs PROVE Inv'
<1> USE DEF Inv
<1>1. /\ phase = "rexec" /\ phase' = "setenv" /\ environ' = With9pfs(environ)
      /\ fds' = IF spec_9pfs = "NULL" THEN Append(fds, "sock") ELSE fds \o <<"sock", "sock">>
      /\ UNCHANGED <<fdinfo_list, info, spec_9pfs, n, env, valid, added, root>>
  BY DEF Open9pfs
<1>2. /\ info = 1 /\ n = 0 /\ env = 1 /\ added = <<>> /\ valid = {}
  BY <1>1 DEF CursorsOK
<1>3. \A i \in DOMAIN environ : environ[i].class = "other"
  BY <1>1, NothingPassed
<1>4. /\ environ \in Seq(Variable) /\ fds \in Seq(Descriptor) /\ Len(fds) \in Nat
  BY Types
<1>5. /\ fds' \in Seq(Descriptor)
      /\ spec_9pfs = "NULL" => Len(fds') = Len(fds) + 1
      /\ spec_9pfs # "NULL" => Len(fds') = Len(fds) + 2
  <2>1. "sock" \in Descriptor
    BY DEF Descriptor
  <2>2. CASE spec_9pfs = "NULL"
    BY <1>1, <1>4, <2>1, <2>2
  <2>3. CASE spec_9pfs # "NULL"
    <3>1. <<"sock", "sock">> \in Seq(Descriptor) /\ Len(<<"sock", "sock">>) = 2
      BY <2>1
    <3>2. fds' = fds \o <<"sock", "sock">>
      BY <1>1, <2>3
    <3> HIDE DEF Inv
    <3> QED
      BY <1>4, <2>3, <3>1, <3>2
  <2> QED
    BY <2>2, <2>3
<1> DEFINE w == Var("9PFS_FD", "-", Len(fds) + 3)
           u == Var("other", "9PFS_MNT", NoFd)
<1>6. /\ w \in Variable /\ w.class = "9PFS_FD" /\ w.name = "-" /\ w.fd = Len(fds) + 3
      /\ u \in Variable /\ u.class = "other"
  <2>1. /\ "9PFS_FD" \in Class /\ "other" \in Class /\ "-" \in Name /\ "9PFS_MNT" \in Name
        /\ NoFd \in Nat /\ Len(fds) + 3 \in Nat
    BY <1>4 DEF Class, Name, NoFd
  <2> QED
    BY <2>1, VarIs
(* The environment is one without descriptors, with the socket at its end. *)
<1>7. \E e \in Seq(Variable) :
         /\ \A i \in DOMAIN e : e[i].class = "other"
         /\ 1 \in DOMAIN e
         /\ spec_9pfs = "NULL" => environ' = e
         /\ spec_9pfs # "NULL" => environ' = Append(e, w)
  <2>1. CASE spec_9pfs = "NULL"
    <3>1. environ' = environ
      BY <1>1, <2>1 DEF With9pfs
    <3> QED
      BY <1>3, <1>4, <2>1, <3>1 DEF FirstIsOther
  <2>2. CASE spec_9pfs # "NULL"
    <3> DEFINE e == setenv(environ, u, FALSE)
    <3>1. environ' = setenv(e, w, FALSE)
      BY <1>1, <2>2 DEF With9pfs, NextFd
    <3> HIDE DEF w, u
    <3>2. /\ e \in Seq(Variable) /\ 1 \in DOMAIN e
          /\ \A i \in DOMAIN e : e[i].class = "other"
      BY <1>3, <1>4, <1>6, SetenvOther
    <3> HIDE DEF e
    <3>3. Named(e, w) = {}
      BY <1>6, <3>2 DEF Named, SameName
    <3>4. environ' = Append(e, w)
      BY <3>1, <3>3 DEF setenv
    <3> QED
      BY <2>2, <3>2, <3>4
  <2> QED
    BY <2>1, <2>2
<1>8. PICK e \in Seq(Variable) :
         /\ \A i \in DOMAIN e : e[i].class = "other"
         /\ 1 \in DOMAIN e
         /\ spec_9pfs = "NULL" => environ' = e
         /\ spec_9pfs # "NULL" => environ' = Append(e, w)
  BY <1>7
<1> HIDE DEF w, u
<1>9. /\ environ' \in Seq(Variable) /\ 1 \in DOMAIN environ' /\ environ'[1].class = "other"
      /\ \A i \in DOMAIN environ' : environ'[i].class = "other" \/ (environ'[i] = w /\ spec_9pfs # "NULL")
      /\ \A i, j \in DOMAIN environ' : environ'[i].class # "other" /\ environ'[j].class # "other" => i = j
      /\ spec_9pfs # "NULL" => \E i \in DOMAIN environ' : environ'[i] = w
  <2>1. CASE spec_9pfs = "NULL"
    BY <1>8, <2>1
  <2>2. CASE spec_9pfs # "NULL"
    <3>1. environ' = Append(e, w)
      BY <1>8, <2>2
    <3>2. /\ environ' \in Seq(Variable) /\ Len(e) \in Nat /\ DOMAIN e = 1 .. Len(e)
          /\ DOMAIN environ' = 1 .. Len(e) + 1 /\ environ'[Len(e) + 1] = w
          /\ \A i \in 1 .. Len(e) : environ'[i] = e[i]
      BY <1>6, <3>1
    <3>3. \A i \in 1 .. Len(e) : environ'[i].class = "other"
      BY <1>8, <3>2
    <3>4. 1 \in 1 .. Len(e) /\ Len(e) + 1 \in DOMAIN environ'
      BY <1>8, <3>2
    <3>5. \A i \in DOMAIN environ' : i \in 1 .. Len(e) \/ i = Len(e) + 1
      BY <3>2
    <3> HIDE DEF Inv
    <3>6. \A i \in DOMAIN environ' : environ'[i].class = "other" \/ environ'[i] = w
      BY <3>2, <3>3, <3>5
    <3>7. \A i, j \in DOMAIN environ' : environ'[i].class # "other" /\ environ'[j].class # "other" => i = j
      BY <3>3, <3>5
    <3> QED
      BY <2>2, <3>2, <3>3, <3>4, <3>6, <3>7
  <2> QED
    BY <2>1, <2>2
<1>10. TypeOK'
  BY <1>1, <1>5, <1>9 DEF TypeOK
<1>11. ListOK'
  <2>1. ASSUME NEW i \in DOMAIN fdinfo_list
        PROVE  /\ fdinfo_list[i].fd <= Len(fds') + 2
               /\ spec_9pfs # "NULL" => fdinfo_list[i].fd # Len(fds') + 1
    <3>1. fdinfo_list[i].fd \in Nat /\ fdinfo_list[i].fd <= Len(fds) + 2
      BY Types DEF ListOK
    <3> QED
      BY <1>4, <1>5, <3>1
  <2> QED
    BY <1>1, <2>1 DEF ListOK
<1>12. CursorsOK'
  <2>1. Len(environ') \in Nat
    BY <1>9
  <2> QED
    BY <1>1, <1>2, <2>1, Types DEF CursorsOK
<1>13. FirstIsOther'
  BY <1>9 DEF FirstIsOther, Passed
<1>14. EnvironOK'
  <2>1. ASSUME NEW i \in DOMAIN environ', NEW j \in DOMAIN environ',
               environ'[i].class # "other", SameName(environ'[i], environ'[j])
        PROVE  i = j
    BY <1>9, <2>1 DEF SameName
  <2>2. \A i \in DOMAIN environ' : environ'[i] = w /\ spec_9pfs # "NULL" => Is9pfs(environ[i])'
    <3>1. spec_9pfs # "NULL" => Len(fds) + 3 = Len(fds') + 1
      BY <1>4, <1>5
    <3> QED
      BY <1>1, <1>6, <3>1 DEF Is9pfs
  <2>3. \A i \in DOMAIN environ' : environ'[i].class # "other" => Is9pfs(environ[i])'
    BY <1>9, <2>2
  <2>4. spec_9pfs' # "NULL" => \E i \in DOMAIN environ' : Is9pfs(environ[i])'
    BY <1>1, <1>9, <2>2
  <2>5. 1 .. info' - 1 = {}
    BY <1>1, <1>2
  <2> HIDE DEF Inv
  <2> QED
    BY <1>1, <2>1, <2>3, <2>4, <2>5 DEF EnvironOK, Passed
<1>15. OrderOK'
  <2>1. 1 .. info' - 1 = {}
    BY <1>1, <1>2
  <2> QED
    BY <2>1 DEF OrderOK
<1>16. AddedOK'
  <2>1. 1 .. env' - 1 = {} /\ DOMAIN added' = {} /\ valid' = {}
    BY <1>1, <1>2
  <2> QED
    BY ONLY <2>1 DEF AddedOK
<1>17. RootIsRootfs'
  BY <1>1 DEF RootIsRootfs
<1> QED
  BY <1>10, <1>11, <1>12, <1>13, <1>14, <1>15, <1>16, <1>17

(* What setenv() does of a variable at most once in the environment: it is at
   one place afterwards, and the other places are as they were. *)
LEMMA SetenvPlace ==
  ASSUME NEW e \in Seq(Variable), NEW v \in Variable,
         \A i, j \in DOMAIN e : SameName(e[i], v) /\ SameName(e[j], v) => i = j
  PROVE  LET f == setenv(e, v, TRUE) IN
         \E p \in DOMAIN f :
            /\ f \in Seq(Variable) /\ f[p] = v
            /\ Len(f) >= Len(e)
            /\ \A i \in DOMAIN f : i # p => i \in DOMAIN e /\ f[i] = e[i] /\ ~SameName(e[i], v)
            /\ p \in DOMAIN e => SameName(e[p], v)
            /\ p \notin DOMAIN e => p = Len(e) + 1
<1> DEFINE f == setenv(e, v, TRUE)
<1>1. CASE Named(e, v) = {}
  <2>1. f = Append(e, v)
    BY <1>1 DEF setenv
  <2> HIDE DEF f
  <2>2. /\ f \in Seq(Variable) /\ Len(e) \in Nat /\ DOMAIN e = 1 .. Len(e) /\ Len(f) = Len(e) + 1
        /\ DOMAIN f = 1 .. Len(e) + 1 /\ f[Len(e) + 1] = v
        /\ \A i \in 1 .. Len(e) : f[i] = e[i]
    BY <2>1
  <2>3. \A i \in DOMAIN e : ~SameName(e[i], v)
    BY <1>1 DEF Named
  <2>4. \A i \in DOMAIN f : i # Len(e) + 1 => i \in DOMAIN e
    BY <2>2
  <2>5. Len(e) + 1 \in DOMAIN f /\ Len(e) + 1 \notin DOMAIN e /\ Len(f) >= Len(e)
    BY <2>2
  <2> QED
    BY <2>2, <2>3, <2>4, <2>5 DEF f
<1>2. CASE Named(e, v) # {}
  <2>1. PICK p \in DOMAIN e : SameName(e[p], v)
    BY <1>2 DEF Named
  <2>2. f = [i \in DOMAIN e |-> IF i \in Named(e, v) THEN v ELSE e[i]]
    BY <1>2 DEF setenv
  <2> HIDE DEF f
  <2>3. \A i \in DOMAIN e : i \in Named(e, v) <=> i = p
    BY <2>1 DEF Named
  <2>4. /\ DOMAIN f = DOMAIN e /\ f[p] = v
        /\ \A i \in DOMAIN e : i # p => f[i] = e[i]
    BY <2>1, <2>2, <2>3
  <2>5. Len(e) \in Nat /\ DOMAIN e = 1 .. Len(e) /\ \A i \in DOMAIN e : e[i] \in Variable
    OBVIOUS
  <2>6. \A i \in DOMAIN e : f[i] \in Variable
    BY <2>4, <2>5
  <2>7. f \in [1 .. Len(e) -> Variable]
    BY <2>2, <2>4, <2>5, <2>6
  <2>8. f \in Seq(Variable) /\ Len(f) = Len(e)
    BY <2>5, <2>7
  <2>9. \A i \in DOMAIN e : i # p => ~SameName(e[i], v)
    BY <2>1
  <2>10. Len(f) >= Len(e)
    BY <2>5, <2>8
  <2> QED
    BY <2>1, <2>4, <2>8, <2>9, <2>10 DEF f
<1> QED
  BY <1>1, <1>2

LEMMA SetenvInv == ASSUME Inv, fdinfo_setenv PROVE Inv'
<1> USE DEF Inv
<1>1. /\ phase = "setenv" /\ info \in DOMAIN fdinfo_list
      /\ environ' = setenv(environ, fdinfo_list[info], TRUE) /\ info' = info + 1
      /\ UNCHANGED <<phase, fds, fdinfo_list, spec_9pfs, n, env, valid, added, root>>
  BY DEF fdinfo_setenv
<1> DEFINE v == fdinfo_list[info]
<1>2. /\ environ \in Seq(Variable) /\ Len(environ) \in Nat /\ DOMAIN environ = 1 .. Len(environ)
      /\ Len(fdinfo_list) \in Nat /\ DOMAIN fdinfo_list = 1 .. Len(fdinfo_list)
      /\ info \in Nat /\ info >= 1 /\ v \in Variable
  BY <1>1, Types
<1>3. v.class \in Opened
  BY <1>1 DEF ListOK
<1>4. Passed(v)
  BY <1>3 DEF Passed, Opened
<1>5. n = 0 /\ env = 1 /\ added = <<>> /\ valid = {}
  BY <1>1 DEF CursorsOK
<1>6. \A i, j \in DOMAIN environ : SameName(environ[i], v) /\ SameName(environ[j], v) => i = j
  BY <1>4 DEF EnvironOK, SameName, Passed
<1>7. PICK p \in DOMAIN environ' :
         /\ environ' \in Seq(Variable) /\ environ'[p] = v
         /\ Len(environ') >= Len(environ)
         /\ \A i \in DOMAIN environ' : i # p => /\ i \in DOMAIN environ /\ environ'[i] = environ[i]
                                                /\ ~SameName(environ[i], v)
         /\ p \in DOMAIN environ => SameName(environ[p], v)
         /\ p \notin DOMAIN environ => p = Len(environ) + 1
  <2> HIDE DEF v
  <2>1. environ' = setenv(environ, v, TRUE)
    BY <1>1 DEF v
  <2> QED
    BY <1>2, <1>6, <2>1, SetenvPlace
<1> HIDE DEF v
<1>8. /\ Len(environ') \in Nat /\ DOMAIN environ' = 1 .. Len(environ') /\ DOMAIN environ \subseteq DOMAIN environ'
      /\ \A i \in DOMAIN environ : SameName(environ'[i], environ[i])
  <2>1. Len(environ') \in Nat /\ DOMAIN environ' = 1 .. Len(environ')
    BY <1>7
  <2>2. DOMAIN environ \subseteq DOMAIN environ'
    BY <1>2, <1>7, <2>1
  <2> QED
    BY <1>7, <2>1, <2>2 DEF SameName
<1>9. TypeOK'
  <2>1. info' \in Nat \ {0}
    <3>1. info' = info + 1
      BY <1>1
    <3> QED
      BY ONLY <1>2, <3>1
  <2>2. TypeOK
    OBVIOUS
  <2> QED
    BY ONLY <1>1, <1>7, <2>1, <2>2 DEF TypeOK
<1>10. ListOK'
  <2>1. ListOK /\ fdinfo_list' = fdinfo_list /\ fds' = fds /\ phase' = phase /\ spec_9pfs' = spec_9pfs
    BY <1>1
  <2> QED
    BY ONLY <2>1 DEF ListOK
<1>11. CursorsOK'
  <2>1. info' <= Len(fdinfo_list') + 1 /\ phase' = "setenv"
    BY <1>1, <1>2
  <2>2. n' = 0 /\ env' = 1 /\ added' = <<>> /\ valid' = {}
    BY <1>1, <1>5
  <2> HIDE DEF Inv
  <2> QED
    BY <1>8, <2>1, <2>2 DEF CursorsOK
<1>12. FirstIsOther'
  <2>1. 1 \in DOMAIN environ /\ ~Passed(environ[1])
    BY DEF FirstIsOther
  <2>2. 1 \in DOMAIN environ' /\ SameName(environ'[1], environ[1])
    BY <1>8, <2>1
  <2> QED
    BY <2>1, <2>2 DEF FirstIsOther, Passed, SameName
<1>13. \A i \in DOMAIN environ : Is9pfs(environ[i]) => environ'[i] = environ[i] /\ i \in DOMAIN environ'
  BY <1>3, <1>7, <1>8 DEF Is9pfs, SameName, Opened
<1>14. EnvironOK'
  <2>1. ASSUME NEW i \in DOMAIN environ', NEW j \in DOMAIN environ',
               environ'[i].class # "other", SameName(environ'[i], environ'[j])
        PROVE  i = j
    <3>1. CASE i # p /\ j # p
      BY <1>7, <2>1, <3>1 DEF EnvironOK, Passed
    <3>2. CASE i = p /\ j # p
      BY <1>7, <2>1, <3>2 DEF SameName
    <3>3. CASE i # p /\ j = p
      BY <1>7, <2>1, <3>3 DEF SameName
    <3> QED
      BY <3>1, <3>2, <3>3
  <2>2. ASSUME NEW i \in DOMAIN environ', environ'[i].class # "other"
        PROVE  Is9pfs(environ[i])' \/ IsListed(environ[i])'
    <3>1. CASE i = p
      <4>1. info \in 1 .. info' - 1 /\ info + 1 .. info' - 1 = {} /\ fdinfo_list'[info] = v
        BY <1>1, <1>2 DEF v
      <4> HIDE DEF Inv
      <4> QED
        BY <1>7, <3>1, <4>1 DEF IsListed, LatestTo
    <3>2. CASE i # p
      <4>1. i \in DOMAIN environ /\ environ'[i] = environ[i] /\ ~SameName(environ[i], v)
        BY <1>7, <3>2
      <4>2. Is9pfs(environ[i]) \/ IsListed(environ[i])
        BY <2>2, <4>1 DEF EnvironOK, Passed
      <4>3. CASE Is9pfs(environ[i])
        BY <1>1, <4>1, <4>3 DEF Is9pfs
      <4>4. CASE IsListed(environ[i])
        <5>1. PICK m \in 1 .. info - 1 : environ[i] = fdinfo_list[m] /\ LatestTo(m, info - 1)
          BY <4>4 DEF IsListed
        <5>2. ASSUME NEW j \in m + 1 .. info PROVE ~SameName(fdinfo_list[j], fdinfo_list[m])
          <6>1. CASE j = info
            BY <4>1, <5>1, <6>1 DEF v, SameName
          <6>2. CASE j # info
            <7>1. j \in m + 1 .. info - 1
              BY <1>2, <6>2
            <7> QED
              BY <5>1, <7>1 DEF LatestTo
          <6> QED
            BY <6>1, <6>2
        <5>3. info' - 1 = info /\ m \in 1 .. info' - 1
          BY <1>1, <1>2
        <5> HIDE DEF Inv
        <5> QED
          BY <1>1, <4>1, <5>1, <5>2, <5>3 DEF IsListed, LatestTo
      <4> QED
        BY <4>2, <4>3, <4>4
    <3> QED
      BY <3>1, <3>2
  <2>3. ASSUME NEW m \in 1 .. info' - 1
        PROVE  \E i \in DOMAIN environ' : SameName(environ'[i], fdinfo_list'[m])
    <3>1. CASE m = info
      BY <1>1, <1>7, <3>1 DEF SameName, v
    <3>2. CASE m # info
      <4>1. m \in 1 .. info - 1
        BY <1>1, <1>2, <3>2
      <4>2. PICK i \in DOMAIN environ : SameName(environ[i], fdinfo_list[m])
        BY <4>1 DEF EnvironOK
      <4> QED
        BY <1>1, <1>8, <4>2 DEF SameName
    <3> QED
      BY <3>1, <3>2
  <2>4. spec_9pfs' # "NULL" => \E i \in DOMAIN environ' : Is9pfs(environ[i])'
    <3>1. spec_9pfs # "NULL" => \E i \in DOMAIN environ : Is9pfs(environ[i])
      BY <1>1 DEF EnvironOK
    <3> QED
      BY <1>1, <1>13, <3>1 DEF Is9pfs
  <2>5. phase' # "rexec"
    BY <1>1
  <2> HIDE DEF Inv
  <2> QED
    BY <2>1, <2>2, <2>3, <2>4, <2>5 DEF EnvironOK, Passed
<1>15. OrderOK'
  <2> SUFFICES ASSUME NEW i \in DOMAIN environ', NEW j \in DOMAIN environ', i < j,
                      environ'[i].class \in Opened, environ'[j].class \in Opened,
                      NEW m \in 1 .. info' - 1, SameName(environ'[j], fdinfo_list'[m])
               PROVE  \E k \in 1 .. m - 1 : SameName(environ'[i], fdinfo_list'[k])
    BY DEF OrderOK
  <2>1. CASE m = info
    <3>1. SameName(environ'[j], v)
      BY <1>1, <2>1 DEF v
    <3>2. j = p
      BY <1>7, <3>1
    <3>3. i # p
      BY <1>8, <3>2
    <3>4. i \in DOMAIN environ /\ environ'[i] = environ[i]
      BY <1>7, <3>3
    <3>5. IsListed(environ[i])
      BY <3>4 DEF EnvironOK, Is9pfs, Passed, Opened
    <3> QED
      BY <1>1, <2>1, <3>4, <3>5 DEF IsListed, SameName
  <2>2. CASE m # info
    <3>1. m \in 1 .. info - 1
      BY <1>1, <1>2, <2>2
    <3>2. SameName(environ'[j], fdinfo_list[m])
      BY <1>1
    <3>3. j \in DOMAIN environ
      <4> SUFFICES ASSUME j \notin DOMAIN environ PROVE FALSE
        OBVIOUS
      <4>1. j = p
        BY <1>7
      <4>2. PICK q \in DOMAIN environ : SameName(environ[q], fdinfo_list[m])
        BY <3>1 DEF EnvironOK
      <4>3. SameName(environ[q], v) /\ q # p
        BY <1>7, <3>2, <4>1, <4>2 DEF SameName
      <4> QED
        BY <1>7, <1>8, <4>2, <4>3
    <3>4. i \in DOMAIN environ
      BY <1>2, <1>8, <3>3
    <3>5. /\ environ[i].class \in Opened /\ environ[j].class \in Opened
          /\ SameName(environ[j], fdinfo_list[m]) /\ SameName(environ'[i], environ[i])
      BY <1>8, <3>2, <3>3, <3>4 DEF SameName
    <3>6. PICK k \in 1 .. m - 1 : SameName(environ[i], fdinfo_list[k])
      BY <3>1, <3>3, <3>4, <3>5 DEF OrderOK
    <3> QED
      BY <1>1, <3>5, <3>6 DEF SameName
  <2> QED
    BY <2>1, <2>2
<1>16. AddedOK'
  <2>1. 1 .. env' - 1 = {} /\ DOMAIN added' = {} /\ valid' = {}
    BY <1>1, <1>5
  <2> QED
    BY ONLY <2>1 DEF AddedOK
<1>17. RootIsRootfs'
  BY <1>1 DEF RootIsRootfs
<1> QED
  BY <1>9, <1>10, <1>11, <1>12, <1>14, <1>15, <1>16, <1>17

LEMMA ExecInv == ASSUME Inv, Exec PROVE Inv'
<1> USE DEF Inv
<1>1. /\ phase = "setenv" /\ info \notin DOMAIN fdinfo_list /\ phase' = "fdinit"
      /\ UNCHANGED <<fds, fdinfo_list, info, spec_9pfs, environ, n, env, valid, added, root>>
  BY DEF Exec
<1>2. info = Len(fdinfo_list) + 1
  BY <1>1, Types DEF CursorsOK
<1>3. TypeOK' /\ FirstIsOther' /\ RootIsRootfs'
  BY <1>1 DEF TypeOK, FirstIsOther, RootIsRootfs
<1>4. CursorsOK'
  BY <1>1, <1>2 DEF CursorsOK
<1>5. ListOK'
  BY <1>1 DEF ListOK
<1>6. EnvironOK' /\ OrderOK'
  <2>1. EnvironOK /\ OrderOK /\ phase # "rexec" /\ phase' # "rexec"
    BY <1>1
  <2>2. UNCHANGED <<fds, fdinfo_list, info, spec_9pfs, environ>>
    BY <1>1
  <2> QED
    BY ONLY <2>1, <2>2 DEF EnvironOK, OrderOK, IsListed, Is9pfs, LatestTo
<1>7. AddedOK'
  <2>1. AddedOK /\ environ' = environ /\ env' = env /\ valid' = valid /\ added' = added
    BY <1>1
  <2> QED
    BY ONLY <2>1 DEF AddedOK
<1> QED
  BY <1>3, <1>4, <1>5, <1>6, <1>7

-----------------------------------------------------------------------------
(* The program. *)

LEMMA DeviceIs ==
  ASSUME NEW v \in Variable
  PROVE  /\ Device(v) \in AnyDevice /\ Device(v).fd = v.fd
         /\ Device(v).kind = "disk" <=> v.class \in {"DISK", "ROOT"}
<1>1. v.class \in Class /\ v.fd \in Nat
  BY VariableIs
<1>2. "disk" \notin Class
  BY DEF Class, Opened
<1> QED
  BY <1>1, <1>2 DEF Device, AnyDevice

(* No two variables hold the same descriptor. *)
LEMMA EnvFds ==
  ASSUME Inv, NEW i \in DOMAIN environ, NEW j \in DOMAIN environ,
         Passed(environ[i]), Passed(environ[j]), environ[i].fd = environ[j].fd
  PROVE  i = j
<1> USE DEF Inv
<1>1. /\ phase # "rexec"
      /\ Is9pfs(environ[i]) \/ IsListed(environ[i])
      /\ Is9pfs(environ[j]) \/ IsListed(environ[j])
  BY DEF EnvironOK
<1>2. 1 .. info - 1 \subseteq DOMAIN fdinfo_list
  BY Types DEF CursorsOK
<1>3. SameName(environ[i], environ[j]) => i = j
  BY DEF EnvironOK
<1>4. CASE Is9pfs(environ[i]) /\ Is9pfs(environ[j])
  BY <1>3, <1>4 DEF Is9pfs, SameName
<1>5. CASE IsListed(environ[i]) /\ IsListed(environ[j])
  <2>1. PICK m \in 1 .. info - 1 : environ[i] = fdinfo_list[m]
    BY <1>5 DEF IsListed
  <2>2. PICK k \in 1 .. info - 1 : environ[j] = fdinfo_list[k]
    BY <1>5 DEF IsListed
  <2>3. m = k
    BY <1>2, <2>1, <2>2 DEF ListOK
  <2> QED
    BY <1>3, <2>1, <2>2, <2>3 DEF SameName
<1>6. ASSUME NEW v, NEW w, Is9pfs(v), IsListed(w) PROVE v.fd # w.fd
  <2>1. PICK m \in 1 .. info - 1 : w = fdinfo_list[m]
    BY <1>6 DEF IsListed
  <2> QED
    BY <1>1, <1>2, <1>6, <2>1 DEF Is9pfs, ListOK
<1> QED
  BY <1>1, <1>4, <1>5, <1>6

(* A device stems from one variable, which the loop has passed. *)
LEMMA AddedFrom ==
  ASSUME Inv, NEW a \in DOMAIN added, NEW i \in DOMAIN environ,
         Passed(environ[i]), added[a] = Device(environ[i])
  PROVE  i \in 1 .. env - 1
<1> USE DEF Inv
<1>1. PICK j \in 1 .. env - 1 : Passed(environ[j]) /\ added[a] = Device(environ[j])
  BY DEF AddedOK
<1>2. j \in DOMAIN environ
  BY Types DEF CursorsOK
<1>3. environ[i].fd = environ[j].fd
  <2>1. environ[i] \in Variable /\ environ[j] \in Variable
    BY <1>2, Types
  <2>2. Device(environ[i]) = Device(environ[j])
    BY <1>1
  <2> HIDE DEF Inv
  <2> QED
    BY <2>1, <2>2, DeviceIs
<1> QED
  BY <1>1, <1>2, <1>3, EnvFds

LEMMA FdInitInv == ASSUME Inv, FdInit PROVE Inv'
<1> USE DEF Inv
<1>1. /\ phase = "fdinit" /\ env \in DOMAIN environ /\ env' = n + 1 /\ n' = n + 1
      /\ UNCHANGED <<phase, fds, fdinfo_list, info, spec_9pfs, environ, root>>
      /\ Passed(environ[env]) => valid' = valid \cup {environ[env].fd} /\ added' = Append(added, Device(environ[env]))
      /\ ~Passed(environ[env]) => UNCHANGED <<valid, added>>
  BY DEF FdInit
<1> DEFINE d == Device(environ[env])
<1>2. /\ environ \in Seq(Variable) /\ Len(environ) \in Nat /\ DOMAIN environ = 1 .. Len(environ)
      /\ added \in Seq(AnyDevice) /\ Len(added) \in Nat /\ DOMAIN added = 1 .. Len(added)
      /\ n \in Nat /\ env \in Nat /\ env >= 1
      /\ \A i \in DOMAIN environ : environ[i] \in Variable
  BY Types
<1>3. ListOK' /\ FirstIsOther' /\ RootIsRootfs'
  BY <1>1 DEF ListOK, FirstIsOther, RootIsRootfs
<1>4. CursorsOK'
  <2>1. /\ env' = n' /\ env' <= Len(environ') + 1 /\ phase' = "fdinit"
    BY <1>1, <1>2 DEF CursorsOK
  <2>2. info' = Len(fdinfo_list') + 1 /\ Len(fdinfo_list') \in Nat
    BY <1>1, Types DEF CursorsOK
  <2> HIDE DEF Inv
  <2> QED
    BY <2>1, <2>2 DEF CursorsOK
<1>5. EnvironOK' /\ OrderOK'
  <2>1. EnvironOK /\ OrderOK /\ phase' = phase
    BY <1>1
  <2>2. UNCHANGED <<fds, fdinfo_list, info, spec_9pfs, environ>>
    BY <1>1
  <2> QED
    BY ONLY <2>1, <2>2 DEF EnvironOK, OrderOK, IsListed, Is9pfs, LatestTo
<1>6. CASE ~Passed(environ[env])
  <2>1. valid' = valid /\ added' = added
    BY <1>1, <1>6
  <2>2. TypeOK'
    <3>1. env' \in Nat \ {0} /\ n' \in Nat
      BY <1>1, <1>2
    <3> QED
      BY ONLY <1>1, <2>1, <3>1, TypeOK DEF TypeOK
  <2>3. \A j \in 1 .. env' - 1 : Passed(environ[j]) => j \in 1 .. env - 1
    <3>1. env' = 1 \/ env' = env + 1
      BY <1>1, <1>2 DEF CursorsOK
    <3>2. \A j \in 1 .. env' - 1 : j \in 1 .. env - 1 \/ j = env
      BY ONLY <1>2, <3>1
    <3> QED
      BY <1>6, <3>2
  <2>4. \A j \in 1 .. env - 1 : j \in 1 .. env' - 1 \/ ~Passed(environ[j])
    BY <1>1, <1>2 DEF CursorsOK, FirstIsOther
  <2>5. AddedOK'
    <3>1. AddedOK /\ environ' = environ
      BY <1>1
    <3> QED
      BY ONLY <2>1, <2>3, <2>4, <3>1 DEF AddedOK
  <2> QED
    BY <1>3, <1>4, <1>5, <2>2, <2>5
<1>7. CASE Passed(environ[env])
  <2>1. env' - 1 = env /\ env' \in Nat \ {0} /\ n' \in Nat
    BY <1>1, <1>2, <1>7 DEF CursorsOK, FirstIsOther
  <2>2. /\ d \in AnyDevice /\ d.fd = environ[env].fd
    BY <1>1, <1>2, DeviceIs
  <2>3. valid' = valid \cup {d.fd} /\ added' = Append(added, d)
    BY <1>1, <1>7, <2>2
  <2> HIDE DEF d
  <2>4. /\ added' \in Seq(AnyDevice) /\ DOMAIN added' = 1 .. Len(added) + 1
        /\ added'[Len(added) + 1] = d
        /\ \A a \in 1 .. Len(added) : added'[a] = added[a]
    BY <1>2, <2>2, <2>3
  <2>5. TypeOK'
    BY ONLY <1>1, <2>1, <2>4, TypeOK DEF TypeOK
  <2>6. \A a \in DOMAIN added' : a \in DOMAIN added \/ a = Len(added) + 1
    BY <1>2, <2>4
  <2>7. DOMAIN added \subseteq DOMAIN added' /\ Len(added) + 1 \in DOMAIN added'
    BY <1>2, <2>4
  <2>8. /\ \A j \in 1 .. env : j \in 1 .. env - 1 \/ j = env
        /\ 1 .. env - 1 \subseteq 1 .. env /\ env \in 1 .. env /\ 1 .. env \subseteq DOMAIN environ
    BY <1>1, <1>2
  <2>9. ASSUME NEW a \in DOMAIN added'
        PROVE  \E j \in 1 .. env : Passed(environ[j]) /\ added'[a] = Device(environ[j])
    <3>1. CASE a \in DOMAIN added
      BY <1>2, <2>4, <2>8, <3>1 DEF AddedOK
    <3>2. CASE a = Len(added) + 1
      BY <1>7, <2>4, <2>8, <3>2 DEF d
    <3> QED
      BY <2>6, <3>1, <3>2
  <2>10. ASSUME NEW j \in 1 .. env, Passed(environ[j])
         PROVE  \E a \in DOMAIN added' : added'[a] = Device(environ[j])
    <3>1. CASE j \in 1 .. env - 1
      BY <1>2, <2>4, <2>7, <2>10, <3>1 DEF AddedOK
    <3>2. CASE j = env
      BY <2>4, <2>7, <3>2 DEF d
    <3> QED
      BY <2>8, <3>1, <3>2
  <2>11. ASSUME NEW a \in DOMAIN added, NEW i \in 1 .. env,
                Passed(environ[i]), added'[a] = Device(environ[i])
         PROVE  added[a] = Device(environ[i]) /\ i \in 1 .. env - 1
    BY <1>2, <2>4, <2>8, <2>11, AddedFrom
  <2>12. ASSUME NEW a \in DOMAIN added', NEW c \in DOMAIN added', NEW i \in 1 .. env, NEW j \in 1 .. env,
                a < c, Passed(environ[i]), Passed(environ[j]),
                added'[a] = Device(environ[i]), added'[c] = Device(environ[j])
         PROVE  i < j
    <3>1. a \in DOMAIN added
      BY <1>2, <2>4, <2>12
    <3>2. added[a] = Device(environ[i]) /\ i \in 1 .. env - 1
      BY <2>11, <2>12, <3>1
    <3>3. CASE c \in DOMAIN added
      <4>1. added[c] = Device(environ[j]) /\ j \in 1 .. env - 1
        BY <2>11, <2>12, <3>3
      <4> QED
        BY <2>12, <3>1, <3>2, <3>3, <4>1 DEF AddedOK
    <3>4. CASE c = Len(added) + 1
      <4>1. Device(environ[j]) = Device(environ[env])
        BY <2>4, <2>12, <3>4 DEF d
      <4>2. environ[j].fd = environ[env].fd
        BY <1>1, <1>2, <2>8, <4>1, DeviceIs
      <4>3. j = env
        BY <1>1, <1>7, <2>8, <2>12, <4>2, EnvFds
      <4> QED
        BY <1>2, <3>2, <4>3
    <3> QED
      BY <2>6, <3>3, <3>4
  <2>13. valid' = {added'[a].fd : a \in DOMAIN added'}
    <3>1. valid = {added[a].fd : a \in DOMAIN added}
      BY DEF AddedOK
    <3> HIDE DEF Inv
    <3> QED
      BY <1>2, <2>3, <2>4, <2>6, <2>7, <3>1
  <2>14. AddedOK'
    <3>1. environ' = environ
      BY <1>1
    <3> QED
      BY ONLY <2>1, <2>9, <2>10, <2>12, <2>13, <3>1 DEF AddedOK, Passed, Device
  <2> QED
    BY <1>3, <1>4, <1>5, <2>5, <2>14
<1> QED
  BY <1>6, <1>7

LEMMA FdInitDoneInv == ASSUME Inv, FdInitDone PROVE Inv'
<1> USE DEF Inv
<1>1. /\ phase = "fdinit" /\ env \notin DOMAIN environ /\ phase' = "create"
      /\ UNCHANGED <<fds, fdinfo_list, info, spec_9pfs, environ, n, env, valid, added, root>>
  BY DEF FdInitDone
<1>2. env = Len(environ) + 1
  BY <1>1, Types DEF CursorsOK
<1>3. TypeOK' /\ FirstIsOther' /\ RootIsRootfs'
  BY <1>1 DEF TypeOK, FirstIsOther, RootIsRootfs
<1>4. CursorsOK'
  BY <1>1, <1>2 DEF CursorsOK
<1>5. ListOK'
  BY <1>1 DEF ListOK
<1>6. EnvironOK' /\ OrderOK'
  <2>1. EnvironOK /\ OrderOK /\ phase # "rexec" /\ phase' # "rexec"
    BY <1>1
  <2>2. UNCHANGED <<fds, fdinfo_list, info, spec_9pfs, environ>>
    BY <1>1
  <2> QED
    BY ONLY <2>1, <2>2 DEF EnvironOK, OrderOK, IsListed, Is9pfs, LatestTo
<1>7. AddedOK'
  <2>1. AddedOK /\ environ' = environ /\ env' = env /\ valid' = valid /\ added' = added
    BY <1>1
  <2> QED
    BY ONLY <2>1 DEF AddedOK
<1> QED
  BY <1>3, <1>4, <1>5, <1>6, <1>7

(* After fdinfo_setenv() the last argument of a name is in the environment. *)
LEMMA LatestIn ==
  ASSUME Inv, info = Len(fdinfo_list) + 1, NEW i \in DOMAIN fdinfo_list, Latest(i)
  PROVE  \E q \in DOMAIN environ : environ[q] = fdinfo_list[i] /\ Passed(environ[q])
<1> USE DEF Inv
<1>1. Len(fdinfo_list) \in Nat /\ DOMAIN fdinfo_list = 1 .. Len(fdinfo_list) /\ info - 1 = Len(fdinfo_list)
  BY Types
<1>2. PICK q \in DOMAIN environ : SameName(environ[q], fdinfo_list[i])
  BY <1>1 DEF EnvironOK
<1>3. fdinfo_list[i].class \in Opened
  BY DEF ListOK
<1>4. Passed(environ[q]) /\ ~Is9pfs(environ[q])
  BY <1>2, <1>3 DEF Passed, Is9pfs, SameName, Opened
<1>5. PICK m \in 1 .. Len(fdinfo_list) : environ[q] = fdinfo_list[m] /\ LatestTo(m, Len(fdinfo_list))
  BY <1>1, <1>4 DEF EnvironOK, IsListed
<1>6. SameName(fdinfo_list[m], fdinfo_list[i]) /\ SameName(fdinfo_list[i], fdinfo_list[m])
  BY <1>2, <1>5 DEF SameName
<1>7. i \notin m + 1 .. Len(fdinfo_list) /\ m \notin i + 1 .. Len(fdinfo_list)
  BY <1>5, <1>6 DEF LatestTo, Latest
<1>8. m = i
  BY ONLY <1>1, <1>7, i \in DOMAIN fdinfo_list, m \in 1 .. Len(fdinfo_list)
<1> QED
  BY <1>4, <1>5, <1>8

(* A name that is on the list has a first place there. *)
LEMMA FirstOf ==
  ASSUME TypeOK, NEW m \in DOMAIN fdinfo_list
  PROVE  \E f \in DOMAIN fdinfo_list : First(f) /\ SameName(fdinfo_list[f], fdinfo_list[m])
<1> DEFINE R == {ss \in Nat \X Nat : ss[1] < ss[2]}
           T == {f \in DOMAIN fdinfo_list : SameName(fdinfo_list[f], fdinfo_list[m])}
<1>1. IsWellFoundedOn(R, Nat)
  BY NatLessThanWellFounded DEF OpToRel
<1>2. \A x, y \in Nat : y < x => <<y, x>> \in R
  OBVIOUS
<1> HIDE DEF R
<1>3. DOMAIN fdinfo_list = 1 .. Len(fdinfo_list) /\ Len(fdinfo_list) \in Nat
  BY Types
<1>4. T \subseteq Nat /\ m \in T
  BY <1>3 DEF SameName
<1>5. PICK f \in T : \A y \in T : ~(<<y, f>> \in R)
  BY <1>1, <1>4, WFMin
<1>6. ASSUME NEW j \in 1 .. f - 1, SameName(fdinfo_list[j], fdinfo_list[f]) PROVE FALSE
  <2>1. j \in DOMAIN fdinfo_list /\ j < f /\ j \in Nat /\ f \in Nat
    BY <1>3
  <2>2. j \in T
    BY <1>6, <2>1 DEF SameName
  <2> QED
    BY <1>2, <1>5, <2>1, <2>2
<1> QED
  BY <1>5, <1>6 DEF First

(* Unless a disk was named after it, the root is the disk that was added last. *)
LEMMA RootIsLast ==
  ASSUME Inv, phase = "create", ~DiskFollows,
         NEW i \in DOMAIN fdinfo_list, fdinfo_list[i].class = "ROOT", Latest(i)
  PROVE  Mounted = fdinfo_list[i].fd
<1> USE DEF Inv
<1>1. info = Len(fdinfo_list) + 1 /\ env = Len(environ) + 1
  BY DEF CursorsOK
<1>2. /\ Len(fdinfo_list) \in Nat /\ DOMAIN fdinfo_list = 1 .. Len(fdinfo_list)
      /\ Len(environ) \in Nat /\ DOMAIN environ = 1 .. Len(environ)
      /\ Len(added) \in Nat /\ DOMAIN added = 1 .. Len(added)
      /\ 1 .. info - 1 = DOMAIN fdinfo_list /\ 1 .. env - 1 = DOMAIN environ
      /\ \A j \in DOMAIN environ : environ[j] \in Variable
  BY <1>1, Types
<1>3. PICK q \in DOMAIN environ : environ[q] = fdinfo_list[i] /\ Passed(environ[q])
  BY <1>1, LatestIn
<1>4. PICK a \in DOMAIN added : added[a] = Device(environ[q])
  BY <1>2, <1>3 DEF AddedOK
<1>5. added[a].kind = "disk" /\ added[a].fd = fdinfo_list[i].fd
  <2> HIDE DEF Inv
  <2> QED
    BY <1>2, <1>3, <1>4, DeviceIs
<1>6. ASSUME NEW c \in lkl_disk_add, a < c PROVE FALSE
  <2>1. PICK j \in DOMAIN environ : Passed(environ[j]) /\ added[c] = Device(environ[j])
    BY <1>2 DEF AddedOK, lkl_disk_add
  <2>2. environ[j].class \in {"DISK", "ROOT"}
    <3> HIDE DEF Inv
    <3>1. added[c].kind = "disk"
      BY DEF lkl_disk_add
    <3> QED
      BY <1>2, <2>1, <3>1, DeviceIs
  <2>3. q < j
    BY <1>2, <1>3, <1>4, <1>6, <2>1 DEF AddedOK, lkl_disk_add
  <2>4. PICK m \in DOMAIN fdinfo_list : environ[j] = fdinfo_list[m]
    <3>1. ~Is9pfs(environ[j])
      BY <2>2 DEF Is9pfs
    <3> QED
      BY <1>2, <2>1, <3>1 DEF EnvironOK, IsListed
  <2>5. CASE environ[j].class = "ROOT"
    <3>1. SameName(environ[q], environ[j])
      BY <1>3, <2>4, <2>5 DEF ListOK, SameName
    <3>2. q = j
      BY <1>3, <3>1 DEF EnvironOK
    <3> QED
      BY <1>2, <2>3, <3>2
  <2>6. CASE environ[j].class = "DISK"
    <3>1. PICK f \in DOMAIN fdinfo_list : First(f) /\ SameName(fdinfo_list[f], fdinfo_list[m])
      BY FirstOf
    <3>2. fdinfo_list[f].class = "DISK" /\ SameName(environ[j], fdinfo_list[f])
      BY <2>4, <2>6, <3>1 DEF SameName
    <3>3. environ[q].class \in Opened /\ environ[j].class \in Opened
      BY <1>3, <2>6 DEF Opened
    <3>4. PICK k \in 1 .. f - 1 : SameName(environ[q], fdinfo_list[k])
      BY <1>2, <2>3, <3>1, <3>2, <3>3 DEF OrderOK
    <3>5. k \in DOMAIN fdinfo_list /\ k < f /\ fdinfo_list[k].class = "ROOT"
      BY <1>2, <1>3, <3>4 DEF SameName
    <3> QED
      BY <3>1, <3>2, <3>5 DEF DiskFollows
  <2> QED
    BY <2>2, <2>5, <2>6
<1>7. a \in lkl_disk_add /\ \A c \in lkl_disk_add : a >= c
  BY <1>2, <1>5, <1>6 DEF lkl_disk_add
<1>8. Max(lkl_disk_add) = a
  <2>1. \A c \in lkl_disk_add : c \in Nat
    BY <1>2 DEF lkl_disk_add
  <2> HIDE DEF Inv
  <2>2. /\ Max(lkl_disk_add) \in lkl_disk_add
        /\ \A c \in lkl_disk_add : Max(lkl_disk_add) >= c
    BY <1>7 DEF Max
  <2> QED
    BY <1>7, <2>1, <2>2
<1> QED
  BY <1>5, <1>8 DEF Mounted

LEMMA FdInitCreateInv == ASSUME Inv, FdInitCreate PROVE Inv'
<1> USE DEF Inv
<1>1. /\ phase = "create" /\ phase' = "up"
      /\ root' \in {NoFd, Mounted} \/ (spec_9pfs = "/" /\ root' = NinePfs)
      /\ UNCHANGED <<fds, fdinfo_list, info, spec_9pfs, environ, n, env, valid, added>>
  BY DEF FdInitCreate, DiskRoot
<1>2. TypeOK' /\ FirstIsOther'
  BY <1>1 DEF TypeOK, FirstIsOther
<1>3. CursorsOK'
  BY <1>1 DEF CursorsOK
<1>4. ListOK'
  BY <1>1 DEF ListOK
<1>5. EnvironOK' /\ OrderOK'
  <2>1. EnvironOK /\ OrderOK /\ phase # "rexec" /\ phase' # "rexec"
    BY <1>1
  <2>2. UNCHANGED <<fds, fdinfo_list, info, spec_9pfs, environ>>
    BY <1>1
  <2> QED
    BY ONLY <2>1, <2>2 DEF EnvironOK, OrderOK, IsListed, Is9pfs, LatestTo
<1>6. AddedOK'
  <2>1. AddedOK /\ environ' = environ /\ env' = env /\ valid' = valid /\ added' = added
    BY <1>1
  <2> QED
    BY ONLY <2>1 DEF AddedOK
<1>7. RootIsRootfs'
  <2>1. ASSUME ~DiskFollows, NEW i \in DOMAIN fdinfo_list, fdinfo_list[i].class = "ROOT", Latest(i)
        PROVE  root' \in {NoFd, fdinfo_list[i].fd} \cup (IF spec_9pfs = "/" THEN {NinePfs} ELSE {})
    BY <1>1, <2>1, RootIsLast
  <2>2. fdinfo_list' = fdinfo_list /\ spec_9pfs' = spec_9pfs
    BY <1>1
  <2> QED
    BY ONLY <2>1, <2>2 DEF RootIsRootfs, RootfsMounted, DiskFollows, First, Latest
<1> QED
  BY <1>2, <1>3, <1>4, <1>5, <1>6, <1>7

LEMMA NextInv == ASSUME Inv, [Next]_vars PROVE Inv'
<1>1. ASSUME NEW d \in Disk, ArgDisk(d) PROVE Inv'
  <2>1. FileType(d) \in {"reg", "blk", "sock"} /\ "DISK" \in Opened
    BY DEF FileType, Opened
  <2> QED
    BY <1>1, <2>1, OpenInv DEF ArgDisk
<1>2. ASSUME NEW d \in Disk, ArgRootfs(d) PROVE Inv'
  <2>1. FileType(d) \in {"reg", "blk", "sock"} /\ "ROOT" \in Opened
    BY DEF FileType, Opened
  <2> QED
    BY <1>2, <2>1, OpenInv DEF ArgRootfs
<1>3. ASSUME NEW i \in Net, ArgNet(i) PROVE Inv'
  <2>1. "NET" \in Opened
    BY DEF Opened
  <2> QED
    BY <1>3, <2>1, OpenInv DEF ArgNet
<1>4. CASE ArgConfig
  <2>1. "CONFIGJSON" \in Opened
    BY DEF Opened
  <2> QED
    BY <1>4, <2>1, OpenInv DEF ArgConfig
<1>5. CASE UNCHANGED vars
  <2>1. Inv /\ UNCHANGED vars
    BY <1>5
  <2> QED
    BY ONLY <2>1 DEF vars, Inv, TypeOK, ListOK, CursorsOK, FirstIsOther, EnvironOK, OrderOK, AddedOK,
                     RootIsRootfs, RootfsMounted, IsListed, Is9pfs, LatestTo, DiskFollows, First, Latest
<1> QED
  BY <1>1, <1>2, <1>3, <1>4, <1>5, NorootInv, Arg9pfsInv, Open9pfsInv, SetenvInv, ExecInv, FdInitInv,
     FdInitDoneInv, FdInitCreateInv DEF Next

LEMMA DevicesOnceFromInv == ASSUME Inv PROVE DevicesOnce
<1> USE DEF Inv
<1> SUFFICES ASSUME phase \in {"create", "up"}
             PROVE  /\ \A i, j \in DOMAIN added : i # j => added[i].fd # added[j].fd
                    /\ {added[i] : i \in DOMAIN added} =
                          {Device(fdinfo_list[i]) : i \in {i \in DOMAIN fdinfo_list : Latest(i)}} \cup Device9pfs
                    /\ valid = {added[i].fd : i \in DOMAIN added}
  BY DEF DevicesOnce
<1>1. info = Len(fdinfo_list) + 1 /\ env = Len(environ) + 1
  BY DEF CursorsOK
<1>2. /\ Len(fdinfo_list) \in Nat /\ DOMAIN fdinfo_list = 1 .. Len(fdinfo_list)
      /\ Len(environ) \in Nat /\ DOMAIN environ = 1 .. Len(environ)
      /\ Len(added) \in Nat /\ DOMAIN added = 1 .. Len(added)
      /\ info - 1 = Len(fdinfo_list) /\ 1 .. env - 1 = DOMAIN environ
      /\ \A j \in DOMAIN environ : environ[j] \in Variable
  BY <1>1, Types
<1>3. /\ \A a \in DOMAIN added : \E j \in DOMAIN environ : Passed(environ[j]) /\ added[a] = Device(environ[j])
      /\ \A j \in DOMAIN environ : Passed(environ[j]) => \E a \in DOMAIN added : added[a] = Device(environ[j])
      /\ valid = {added[a].fd : a \in DOMAIN added}
  BY <1>2 DEF AddedOK
<1>4. ASSUME NEW a \in DOMAIN added, NEW c \in DOMAIN added, a < c PROVE added[a].fd # added[c].fd
  <2>1. PICK i \in DOMAIN environ : Passed(environ[i]) /\ added[a] = Device(environ[i])
    BY <1>3
  <2>2. PICK j \in DOMAIN environ : Passed(environ[j]) /\ added[c] = Device(environ[j])
    BY <1>3
  <2>3. i < j
    BY <1>2, <1>4, <2>1, <2>2 DEF AddedOK
  <2>4. added[a].fd = environ[i].fd /\ added[c].fd = environ[j].fd
    BY <1>2, <2>1, <2>2, DeviceIs
  <2>5. i # j
    BY <1>2, <2>3
  <2> QED
    BY <2>1, <2>2, <2>4, <2>5, EnvFds
<1>5. \A i, j \in DOMAIN added : i # j => added[i].fd # added[j].fd
  <2>1. \A i, j \in DOMAIN added : i # j => i < j \/ j < i
    BY <1>2
  <2> QED
    BY <1>4, <2>1
<1> DEFINE L == {Device(fdinfo_list[i]) : i \in {i \in DOMAIN fdinfo_list : Latest(i)}}
<1>6. ASSUME NEW v, Is9pfs(v) PROVE Device(v) \in Device9pfs
  <2>1. v.class = "9PFS_FD" /\ v.fd = Len(fds) + 1 /\ spec_9pfs # "NULL"
    BY <1>6 DEF Is9pfs
  <2> HIDE DEF Inv
  <2> QED
    BY <2>1 DEF Device, Device9pfs
<1>7. ASSUME NEW a \in DOMAIN added PROVE added[a] \in L \cup Device9pfs
  <2>1. PICK j \in DOMAIN environ : Passed(environ[j]) /\ added[a] = Device(environ[j])
    BY <1>3
  <2>2. Is9pfs(environ[j]) \/ IsListed(environ[j])
    BY <2>1 DEF EnvironOK
  <2>3. CASE IsListed(environ[j])
    <3>1. PICK m \in 1 .. info - 1 : environ[j] = fdinfo_list[m] /\ LatestTo(m, info - 1)
      BY <2>3 DEF IsListed
    <3>2. m \in DOMAIN fdinfo_list /\ Latest(m)
      BY <1>2, <3>1 DEF Latest, LatestTo
    <3> QED
      BY <2>1, <3>1, <3>2
  <2> QED
    BY <1>6, <2>1, <2>2, <2>3
<1>8. ASSUME NEW d \in L PROVE d \in {added[i] : i \in DOMAIN added}
  <2>1. PICK i \in DOMAIN fdinfo_list : Latest(i) /\ d = Device(fdinfo_list[i])
    OBVIOUS
  <2>2. PICK q \in DOMAIN environ : environ[q] = fdinfo_list[i] /\ Passed(environ[q])
    BY <1>1, <2>1, LatestIn
  <2> QED
    BY <1>3, <2>1, <2>2
<1>9. ASSUME NEW d \in Device9pfs PROVE d \in {added[i] : i \in DOMAIN added}
  <2>1. spec_9pfs # "NULL" /\ d = [kind |-> "9PFS_FD", fd |-> Len(fds) + 1]
    BY DEF Device9pfs
  <2>2. PICK i \in DOMAIN environ : Is9pfs(environ[i])
    BY <2>1 DEF EnvironOK
  <2>3. Passed(environ[i]) /\ Device(environ[i]) = d
    BY <2>1, <2>2 DEF Is9pfs, Passed, Device
  <2> QED
    BY <1>3, <2>2, <2>3
<1>10. {added[i] : i \in DOMAIN added} = L \cup Device9pfs
  <2> HIDE DEF L, Inv
  <2> QED
    BY <1>7, <1>8, <1>9
<1> QED
  BY <1>3, <1>5, <1>10

LEMMA AlwaysInv == Spec => []Inv
  BY InitInv, NextInv, PTL DEF Spec

(* What rexec, setenv() and the loop of __franken_fdinit() leave in the
   environment and among the devices is always of the type that the next of
   them expects, for command lines of any length. *)
THEOREM TypeCorrect == Spec => []TypeOK
<1>1. Inv => TypeOK
  BY DEF Inv
<1> QED
  BY <1>1, AlwaysInv, PTL

(* Whatever is named on the command line, and however often, the kernel starts
   with exactly one device for each name, under the descriptor that rexec
   opened last for it, and one for the 9P connection (rexec.c fdinfo_setenv,
   open_9pfs; fdinit.c __franken_fdinit). *)
THEOREM EveryDeviceOnce == Spec => []DevicesOnce
  BY AlwaysInv, DevicesOnceFromInv, PTL

(* __franken_fdinit_create() mounts the image of the last rootfs: argument, or
   nothing, or the 9P file system, for any command line on which no disk is
   first named after a rootfs: argument. *)
THEOREM RootAlwaysRootfs == Spec => []RootIsRootfs
<1>1. Inv => RootIsRootfs
  BY DEF Inv
<1> QED
  BY <1>1, AlwaysInv, PTL
=============================================================================
