------------------------------ MODULE ToolsProofs ------------------------------
(***************************************************************************)
(* The programs that use the library: they only ever make calls it allows, *)
(* and those that end by themselves have saved what they changed.          *)
(***************************************************************************)
EXTENDS Tools, FileChainProofs

-----------------------------------------------------------------------------
(* The sequences of calls: fs_mount comes first, fs_umount last and        *)
(* neither in between; a few never write.                                  *)
LEMMA CallTable ==
  /\ DOMAIN CallsOf = {"info", "ls", "add", "rm", "cat", "stat", "simple_writer", "simple_reader"}
  /\ "script" \notin DOMAIN CallsOf
BY DEF CallsOf

LEMMA EachSequence ==
  /\ CallsOf["info"] = <<"mount", "umount">>
  /\ CallsOf["ls"] = <<"mount", "umount">>
  /\ CallsOf["add"] = <<"mount", "create", "open", "write", "close", "umount">>
  /\ CallsOf["rm"] = <<"mount", "delete", "umount">>
  /\ CallsOf["cat"] = <<"mount", "open", "stat", "read", "close", "umount">>
  /\ CallsOf["stat"] = <<"mount", "open", "stat", "close", "umount">>
  /\ CallsOf["simple_writer"] = <<"mount", "create", "open", "write", "close", "umount">>
  /\ CallsOf["simple_reader"] = <<"mount", "open", "lseek", "read", "close", "umount">>
BY DEF CallsOf

LEMMA WriterLength == ASSUME tool.cmd = "simple_writer" PROVE LastCall = 6
BY EachSequence DEF LastCall

LEMMA SequenceEnds ==
  ASSUME NEW cmd \in DOMAIN CallsOf
  PROVE  /\ Len(CallsOf[cmd]) \in Nat /\ Len(CallsOf[cmd]) >= 2
         /\ CallsOf[cmd][1] = "mount"
         /\ CallsOf[cmd][Len(CallsOf[cmd])] = "umount"
         /\ \A k \in 2 .. Len(CallsOf[cmd]) - 1 : CallsOf[cmd][k] \notin {"mount", "umount"}
<1>1. CASE cmd = "info" \/ cmd = "ls"
  <2>1. Len(CallsOf[cmd]) = 2 /\ CallsOf[cmd][1] = "mount" /\ CallsOf[cmd][2] = "umount"
    BY <1>1, EachSequence
  <2>2. 2 .. Len(CallsOf[cmd]) - 1 = {}
    BY <2>1
  <2> QED
    BY <2>1, <2>2
<1>2. CASE cmd = "add" \/ cmd = "simple_writer"
  <2>1. Len(CallsOf[cmd]) = 6 /\ CallsOf[cmd][1] = "mount" /\ CallsOf[cmd][6] = "umount"
    BY <1>2, EachSequence
  <2>2. /\ CallsOf[cmd][2] # "umount" /\ CallsOf[cmd][3] # "umount"
        /\ CallsOf[cmd][4] # "umount" /\ CallsOf[cmd][5] # "umount"
    BY <1>2, EachSequence
  <2>3. /\ CallsOf[cmd][2] # "mount" /\ CallsOf[cmd][3] # "mount"
        /\ CallsOf[cmd][4] # "mount" /\ CallsOf[cmd][5] # "mount"
    BY <1>2, EachSequence
  <2>4. 2 .. Len(CallsOf[cmd]) - 1 = {2, 3, 4, 5}
    BY <2>1
  <2> QED
    BY <2>1, <2>2, <2>3, <2>4
<1>3. CASE cmd = "rm"
  <2>1. Len(CallsOf[cmd]) = 3 /\ CallsOf[cmd][1] = "mount" /\ CallsOf[cmd][3] = "umount"
    BY <1>3, EachSequence
  <2>2. /\ CallsOf[cmd][2] # "umount"
    BY <1>3, EachSequence
  <2>3. /\ CallsOf[cmd][2] # "mount"
    BY <1>3, EachSequence
  <2>4. 2 .. Len(CallsOf[cmd]) - 1 = {2}
    BY <2>1
  <2> QED
    BY <2>1, <2>2, <2>3, <2>4
<1>4. CASE cmd = "cat"
  <2>1. Len(CallsOf[cmd]) = 6 /\ CallsOf[cmd][1] = "mount" /\ CallsOf[cmd][6] = "umount"
    BY <1>4, EachSequence
  <2>2. /\ CallsOf[cmd][2] # "umount" /\ CallsOf[cmd][3] # "umount"
        /\ CallsOf[cmd][4] # "umount" /\ CallsOf[cmd][5] # "umount"
    BY <1>4, EachSequence
  <2>3. /\ CallsOf[cmd][2] # "mount" /\ CallsOf[cmd][3] # "mount"
        /\ CallsOf[cmd][4] # "mount" /\ CallsOf[cmd][5] # "mount"
    BY <1>4, EachSequence
  <2>4. 2 .. Len(CallsOf[cmd]) - 1 = {2, 3, 4, 5}
    BY <2>1
  <2> QED
    BY <2>1, <2>2, <2>3, <2>4
<1>5. CASE cmd = "simple_reader"
  <2>1. Len(CallsOf[cmd]) = 6 /\ CallsOf[cmd][1] = "mount" /\ CallsOf[cmd][6] = "umount"
    BY <1>5, EachSequence
  <2>2. /\ CallsOf[cmd][2] # "umount" /\ CallsOf[cmd][3] # "umount"
        /\ CallsOf[cmd][4] # "umount" /\ CallsOf[cmd][5] # "umount"
    BY <1>5, EachSequence
  <2>3. /\ CallsOf[cmd][2] # "mount" /\ CallsOf[cmd][3] # "mount"
        /\ CallsOf[cmd][4] # "mount" /\ CallsOf[cmd][5] # "mount"
    BY <1>5, EachSequence
  <2>4. 2 .. Len(CallsOf[cmd]) - 1 = {2, 3, 4, 5}
    BY <2>1
  <2> QED
    BY <2>1, <2>2, <2>3, <2>4
<1>6. CASE cmd = "stat"
  <2>1. Len(CallsOf[cmd]) = 5 /\ CallsOf[cmd][1] = "mount" /\ CallsOf[cmd][5] = "umount"
    BY <1>6, EachSequence
  <2>2. /\ CallsOf[cmd][2] # "umount" /\ CallsOf[cmd][3] # "umount"
        /\ CallsOf[cmd][4] # "umount"
    BY <1>6, EachSequence
  <2>3. /\ CallsOf[cmd][2] # "mount" /\ CallsOf[cmd][3] # "mount"
        /\ CallsOf[cmd][4] # "mount"
    BY <1>6, EachSequence
  <2>4. 2 .. Len(CallsOf[cmd]) - 1 = {2, 3, 4}
    BY <2>1
  <2> QED
    BY <2>1, <2>2, <2>3, <2>4
<1> QED
  BY <1>1, <1>2, <1>3, <1>4, <1>5, <1>6, CallTable

LEMMA ReadersRead ==
  ASSUME NEW cmd \in ReadsOnly, NEW k \in 1 .. Len(CallsOf[cmd])
  PROVE  cmd \in DOMAIN CallsOf /\ CallsOf[cmd][k] \notin {"create", "delete", "write"}
<1>1. cmd \in DOMAIN CallsOf
  BY CallTable DEF ReadsOnly
<1>2. CASE cmd \in {"info", "ls"}
  BY <1>1, <1>2, EachSequence
<1>3. CASE cmd = "cat"
  BY <1>1, <1>3, EachSequence
<1>4. CASE cmd = "simple_reader"
  BY <1>1, <1>4, EachSequence
<1>5. CASE cmd = "stat"
  BY <1>1, <1>5, EachSequence
<1> QED
  BY <1>2, <1>3, <1>4, <1>5 DEF ReadsOnly

-----------------------------------------------------------------------------
(* A process is told apart from none, and keeps its command and its file.  *)
LEMMA ProcessMoves ==
  ASSUME ToolTyped, Running, NEW k \in Nat, NEW fd \in Fds,
         tool' = [tool EXCEPT !.fd = fd, !.at = k]
  PROVE  /\ ToolTyped' /\ Running'
         /\ tool'.cmd = tool.cmd /\ tool'.name = tool.name /\ tool'.count = tool.count
         /\ tool'.at = k /\ tool'.fd = fd
<1>1. tool \in Processes
  BY DEF ToolTyped, Running
<1>2. tool = [cmd |-> tool.cmd, at |-> tool.at, name |-> tool.name, fd |-> tool.fd,
              count |-> tool.count]
  BY <1>1 DEF Processes
<1>3. tool' = [cmd |-> tool.cmd, at |-> k, name |-> tool.name, fd |-> fd,
               count |-> tool.count]
  BY <1>2
<1>4. tool' \in Processes
  BY <1>1, <1>3 DEF Processes
<1>5. tool'.cmd = tool.cmd /\ tool'.name = tool.name
  BY <1>3
<1>6. ToolTyped' /\ Running'
  BY <1>4, <1>5, NoToolAssumption DEF ToolTyped, Running, Program
<1> QED
  BY <1>3, <1>6

LEMMA ProcessAt ==
  ASSUME ToolTyped, Running, NEW k \in Nat, tool' = [tool EXCEPT !.at = k]
  PROVE  /\ ToolTyped' /\ Running'
         /\ tool'.cmd = tool.cmd /\ tool'.name = tool.name /\ tool'.count = tool.count
         /\ tool'.at = k /\ tool'.fd = tool.fd
<1>1. tool \in Processes
  BY DEF ToolTyped, Running
<1>2. tool.fd \in Fds
  BY <1>1 DEF Processes
<1>3. tool' = [tool EXCEPT !.fd = tool.fd, !.at = k]
  BY <1>1 DEF Processes
<1> QED
  BY <1>2, <1>3, ProcessMoves

(* Where a process goes when a call returns.                               *)
LEMMA NextPosition ==
  ASSUME ToolTyped, Running
  PROVE  /\ tool.at \in Nat /\ tool.fd \in Fds /\ tool.count \in 0 .. MaxCount
         /\ Program => tool.cmd \in DOMAIN CallsOf /\ LastCall \in Nat /\ tool.name \in Names
         /\ UNCHANGED tool =>
              ToolTyped' /\ Running'
         /\ Advance =>
              ToolTyped' /\ Running' /\ tool' = [tool EXCEPT !.at = tool.at + 1]
         /\ Program /\ ExitNow =>
              ToolTyped' /\ Running' /\ tool' = [tool EXCEPT !.at = LastCall + 1]
         /\ Program /\ Fail =>
              ToolTyped' /\ Running'
                /\ tool' = [tool EXCEPT !.at =
                              IF tool.cmd \in Asserts THEN LastCall + 1 ELSE LastCall]
         /\ Script /\ Fail =>
              ToolTyped' /\ Running' /\ tool' = [tool EXCEPT !.at = Ending]
         /\ \A k \in {Ending, Ended, MountRefused, Aborted} :
              tool' = [tool EXCEPT !.at = k] => ToolTyped' /\ Running'
<1>1. tool \in Processes
  BY DEF ToolTyped, Running
<1>2. tool.at \in Nat /\ tool.fd \in Fds /\ tool.count \in 0 .. MaxCount
  BY <1>1 DEF Processes
<1>3. Program => tool.cmd \in DOMAIN CallsOf /\ LastCall \in Nat /\ tool.name \in Names
  BY <1>1, SequenceEnds DEF Processes, Program, LastCall, ToolTyped
<1>4. UNCHANGED tool => ToolTyped' /\ Running'
  BY DEF ToolTyped, Running, Program
<1>5. ASSUME Advance
      PROVE  ToolTyped' /\ Running' /\ tool' = [tool EXCEPT !.at = tool.at + 1]
  <2>1. tool' = [tool EXCEPT !.at = tool.at + 1]
    BY <1>1, <1>5 DEF Advance, Processes
  <2> QED
    BY <1>2, <2>1, ProcessAt
<1>6. ASSUME Program, ExitNow
      PROVE  ToolTyped' /\ Running' /\ tool' = [tool EXCEPT !.at = LastCall + 1]
  BY <1>3, <1>6, ProcessAt DEF ExitNow
<1>7. ASSUME Program, Fail
      PROVE  /\ ToolTyped' /\ Running'
             /\ tool' = [tool EXCEPT !.at =
                           IF tool.cmd \in Asserts THEN LastCall + 1 ELSE LastCall]
  <2>1. tool' = [tool EXCEPT !.at = IF tool.cmd \in Asserts THEN LastCall + 1 ELSE LastCall]
    BY <1>7 DEF Fail, Program
  <2>2. (IF tool.cmd \in Asserts THEN LastCall + 1 ELSE LastCall) \in Nat
    BY <1>3, <1>7
  <2> QED
    BY <2>1, <2>2, ProcessAt
<1>8. ASSUME Script, Fail
      PROVE  ToolTyped' /\ Running' /\ tool' = [tool EXCEPT !.at = Ending]
  <2>1. tool' = [tool EXCEPT !.at = Ending]
    BY <1>8 DEF Fail, Script, Asserts
  <2>2. Ending \in Nat
    BY DEF Ending
  <2> QED
    BY <2>1, <2>2, ProcessAt
<1>9. ASSUME NEW k \in {Ending, Ended, MountRefused, Aborted}, tool' = [tool EXCEPT !.at = k]
      PROVE  ToolTyped' /\ Running'
  <2>1. k \in Nat
    BY DEF Ending, Ended, MountRefused, Aborted
  <2> QED
    BY <1>9, <2>1, ProcessAt
<1> QED
  BY <1>2, <1>3, <1>4, <1>5, <1>6, <1>7, <1>8, <1>9

-----------------------------------------------------------------------------
(* Each step of a program is a step of the library or none.                *)
LEMMA FdOfSlot ==
  ASSUME TypeInv, NEW fd \in Fds, IsOpen(fd)
  PROVE  root[open_files[fd].file].file_size \in 0 .. MaxSize
<1>1. open_files[fd] \in FileDescriptor
  BY DEF TypeInv, TypeOK, IsOpen
<1>2. open_files[fd].file \in Files
  BY <1>1 DEF FileDescriptor
<1> QED
  BY <1>2 DEF TypeInv, TypeOK, Root, File

LEMMA OpenIntoSlot ==
  ASSUME ToolTyped, Running, NEW name \in Names, OpenInto(name)
  PROVE  /\ Next /\ ToolTyped' /\ Running'
         /\ tool'.cmd = tool.cmd /\ tool'.name = tool.name
         /\ tool'.at = IF tool.cmd = "script" THEN tool.at ELSE tool.at + 1
<1> DEFINE k  == IF tool.cmd = "script" THEN tool.at ELSE tool.at + 1
           fd == Least(Fds \ OpenFds)
<1>1. tool \in Processes
  BY DEF ToolTyped, Running
<1>2. tool.at \in Nat /\ tool' = [tool EXCEPT !.fd = fd, !.at = k]
  BY <1>1 DEF OpenInto, Processes
<1>3. fd \in Fds
  <2>1. OpenFds # Fds
    BY DEF OpenInto, Open, AddFile
  <2> QED
    BY <2>1, EmptySlotIsFd
<1>4. k \in Nat
  BY <1>2
<1> HIDE DEF k, fd
<1>5. ToolTyped' /\ Running' /\ tool'.cmd = tool.cmd /\ tool'.name = tool.name /\ tool'.at = k
  BY <1>2, <1>3, <1>4, ProcessMoves
<1>6. Next
  BY DEF OpenInto, Next, Caller
<1> QED
  BY <1>5, <1>6 DEF k

(* A process begins at its first call.                                     *)
LEMMA ProcessBegins ==
  ASSUME Start
  PROVE  /\ tool = NoTool /\ UNCHANGED vars
         /\ tool' \in Processes /\ tool'.at = 1
         /\ tool'.cmd # "script" => tool'.name \in Names
<1>1. PICK cmd \in DOMAIN CallsOf \union {"script"}, name \in Names \union {NoName},
           count \in 0 .. MaxCount :
        Begin(cmd, name, count) /\ (cmd # "script" => name \in Names)
  <2>1. \A cmd \in DOMAIN CallsOf : CountsOf(cmd) \subseteq 0 .. MaxCount
    BY MaxCountAssumption DEF CountsOf
  <2>2. 0 \in 0 .. MaxCount
    BY MaxCountAssumption
  <2>3. CASE \E cmd \in DOMAIN CallsOf, name \in Names : \E count \in CountsOf(cmd) :
               Begin(cmd, name, count)
    BY <2>1, <2>3
  <2>4. CASE Begin("script", NoName, 0)
    BY <2>2, <2>4
  <2> QED
    BY <2>3, <2>4 DEF Start
<1>2. 0 \in Fds /\ 1 \in Nat
  BY NumFdsAssumption DEF Fds, CountMod
<1> QED
  BY <1>1, <1>2 DEF Begin, Processes

LEMMA ToolStepIsCall ==
  ASSUME ToolTyped, TypeInv, ToolNext
  PROVE  [Next \/ Kill]_vars /\ ToolTyped'
<1>1. CASE Start
  BY <1>1, ProcessBegins DEF ToolTyped, Program
<1>2. CASE Exit \/ Timeout
  <2>1. Kill /\ tool' = NoTool
    BY <1>2 DEF Exit, Timeout
  <2> QED
    BY <2>1 DEF ToolTyped, Program, Running
<1>3. ASSUME Running
      PROVE  /\ tool.fd \in Fds /\ tool.count \in 0 .. MaxCount
             /\ Program => tool.name \in Names
             /\ UNCHANGED tool \/ Advance => ToolTyped'
             /\ Program /\ (ExitNow \/ Fail) => ToolTyped'
             /\ Script /\ Fail => ToolTyped'
             /\ \A k \in {Ending, Ended, MountRefused, Aborted} :
                  tool' = [tool EXCEPT !.at = k] => ToolTyped'
  BY <1>3, NextPosition
<1>4. ASSUME NEW fd \in Fds, NEW count \in 0 .. MaxCount, count > 0, Read(fd, count)
      PROVE  Next
  BY <1>4 DEF Next, Caller
<1>5. ASSUME NEW fd \in Fds, NEW count \in 0 .. MaxCount, count > 0,
             Write(fd, count) \/ WriteFirstBlock(fd, count) \/ WriteNoBlock(fd, count)
      PROVE  Next
  BY <1>5 DEF Next, Caller
<1>6. CASE ToolMount \/ ToolUmount
  <2>1. Program
    BY <1>6 DEF ToolMount, ToolUmount, At
  <2> QED
    BY <1>3, <1>6, <2>1 DEF ToolMount, ToolUmount, Program, Next, Caller
<1>7. CASE ToolCreate \/ ToolDelete
  <2>1. Program
    BY <1>7 DEF ToolCreate, ToolDelete, At
  <2> QED
    BY <1>3, <1>7, <2>1 DEF ToolCreate, ToolDelete, Program, Next, Caller
<1>8. CASE ToolOpen
  <2>1. Program
    BY <1>8 DEF ToolOpen, At
  <2> QED
    BY <1>3, <1>8, <2>1, OpenIntoSlot DEF ToolOpen, Program
<1>9. CASE ToolStat
  <2>1. Program
    BY <1>9 DEF ToolStat, At
  <2> QED
    BY <1>3, <1>9, <2>1 DEF ToolStat, Program
<1>10. CASE ToolLseek
  <2>1. Program
    BY <1>10 DEF ToolLseek, At
  <2>2. ASSUME NEW offset \in 1 .. MaxSize, Lseek(tool.fd, offset)
        PROVE  Next
    <3>1. offset \in 0 .. MaxSize
      BY MaxSizeAssumption
    <3> QED
      BY <1>3, <2>1, <2>2, <3>1 DEF Program, Next, Caller
  <2> QED
    BY <1>3, <1>10, <2>1, <2>2 DEF ToolLseek, Program
<1>11. CASE ToolRead
  <2> DEFINE count == IF tool.cmd = "cat" THEN FileOfTool.file_size ELSE tool.count
  <2>1. Program
    BY <1>11 DEF ToolRead, At
  <2>2. tool.fd \in Fds /\ tool.count \in 0 .. MaxCount
    BY <1>3, <2>1 DEF Program
  <2>3. ASSUME Read(tool.fd, count)
        PROVE  Next
    <3>1. count > 0 /\ IsOpen(tool.fd)
      BY <2>3 DEF Read
    <3>2. FileOfTool.file_size \in 0 .. MaxSize
      BY <2>2, <3>1, FdOfSlot DEF FileOfTool
    <3>3. count \in 0 .. MaxCount
      BY <2>2, <3>2, WholeFileAssumption, MaxSizeAssumption, MaxCountAssumption
    <3> HIDE DEF count
    <3> QED
      BY <1>4, <2>2, <2>3, <3>1, <3>3
  <2> QED
    BY <1>3, <1>11, <2>1, <2>3 DEF ToolRead, Program
<1>12. CASE ToolWrite
  <2>1. Program
    BY <1>12 DEF ToolWrite, At
  <2> QED
    BY <1>3, <1>5, <1>12, <2>1 DEF ToolWrite, BeginWrite, Program
<1>13. CASE ToolClose
  <2>1. Program
    BY <1>13 DEF ToolClose, At
  <2> QED
    BY <1>3, <1>13, <2>1 DEF ToolClose, Program, Next, Caller
<1>14. CASE InLoop
  BY <1>14 DEF InLoop, Next, CallStep, ToolTyped, Program, Running
<1>15. CASE Return
  <2>1. Next
    BY <1>15 DEF Return, Next, CallStep
  <2>2. Program \/ Script
    BY <1>15 DEF Return, Program, Script
  <2> QED
    BY <1>3, <1>15, <2>1, <2>2 DEF Return, Script, Program
<1>16. CASE ScriptCall
  <2>1. Script
    BY <1>16 DEF ScriptCall
  <2>2. ASSUME NEW count \in 1 .. MaxCount, Read(tool.fd, count) \/ BeginWrite(count)
        PROVE  Next
    <3>1. count \in 0 .. MaxCount /\ count > 0
      OBVIOUS
    <3> QED
      BY <1>3, <1>4, <1>5, <2>1, <2>2, <3>1 DEF BeginWrite, Script
  <2> QED
    BY <1>3, <1>16, <2>1, <2>2, OpenIntoSlot DEF ScriptCall, Script, Next, Caller
<1>17. CASE ScriptMount \/ ScriptEnding
  <2>1. Script
    BY <1>17 DEF ScriptMount, ScriptEnding
  <2> QED
    BY <1>3, <1>17, <2>1 DEF ScriptMount, ScriptEnding, Script, Next, Caller
<1> QED
  BY <1>1, <1>2, <1>6, <1>7, <1>8, <1>9, <1>10, <1>11, <1>12, <1>13, <1>14, <1>15, <1>16, <1>17
  DEF ToolNext, ProgramStep

ToolTypeInv == ToolTyped /\ TypeInv

LEMMA ToolTypeStep ==
  ToolTypeInv /\ [ToolNext]_toolVars => ToolTypeInv' /\ [Next \/ Kill]_vars
<1> SUFFICES ASSUME ToolTypeInv, [ToolNext]_toolVars
             PROVE  ToolTypeInv' /\ [Next \/ Kill]_vars
  OBVIOUS
<1>1. [Next \/ Kill]_vars /\ ToolTyped'
  BY ToolStepIsCall DEF ToolTypeInv, toolVars, ToolTyped, Program, Running
<1>2. TypeInv'
  BY <1>1, TypeStep DEF ToolTypeInv
<1> QED
  BY <1>1, <1>2 DEF ToolTypeInv

LEMMA ToolTypeInit == ToolInit => ToolTypeInv
BY TypeInit DEF ToolInit, ToolTypeInv, ToolTyped, Program, Running

(* The programs call the library as any caller may who can die at any      *)
(* moment: what is proved of CrashSpec holds whatever commands and scripts *)
(* are run, and however they end.                                          *)
THEOREM ToolsUseLibrary == ToolSpec => CrashSpec
<1>1. ToolInit => Init
  BY DEF ToolInit
<1> QED
  BY <1>1, ToolTypeInit, ToolTypeStep, PTL DEF ToolSpec, CrashSpec

-----------------------------------------------------------------------------
(***************************************************************************)
(* What ends by itself has saved.                                          *)
(***************************************************************************)
LEMMA WriterSequence ==
  ASSUME NEW k \in 1 .. Len(CallsOf["simple_writer"])
  PROVE  LET c == CallsOf["simple_writer"][k] IN
         /\ c \notin {"delete", "stat", "read", "lseek"}
         /\ c = "create" => k = 2
         /\ c = "open" => k = 3
         /\ c = "write" => k = 4
         /\ c = "close" => k = 5
<1>1. Len(CallsOf["simple_writer"]) = 6
  BY EachSequence
<1>2. k \in {1, 2, 3, 4, 5, 6}
  BY <1>1
<1>3. /\ CallsOf["simple_writer"][1] = "mount"
      /\ CallsOf["simple_writer"][2] = "create"
      /\ CallsOf["simple_writer"][3] = "open"
  BY EachSequence
<1>4. /\ CallsOf["simple_writer"][4] = "write"
      /\ CallsOf["simple_writer"][5] = "close"
      /\ CallsOf["simple_writer"][6] = "umount"
  BY EachSequence
<1> QED
  BY <1>2, <1>3, <1>4

(* Where in its sequence a program is that makes a given call.             *)
LEMMA PositionOfCall ==
  ASSUME ToolTyped, Program, tool.at \in 1 .. LastCall
  PROVE  LET c == CallsOf[tool.cmd][tool.at] IN
         /\ c = "mount" => tool.at = 1
         /\ c = "umount" => tool.at = LastCall
         /\ c \notin {"mount", "umount"} => tool.at \in 2 .. LastCall - 1
         /\ c \in {"create", "delete", "write"} => tool.cmd \notin ReadsOnly
         /\ tool.cmd = "simple_writer" =>
              /\ c \notin {"delete", "stat", "read", "lseek"}
              /\ c = "create" => tool.at = 2
              /\ c = "open" => tool.at = 3
              /\ c = "write" => tool.at = 4
              /\ c = "close" => tool.at = 5
<1> DEFINE c == CallsOf[tool.cmd][tool.at]
<1>1. tool.cmd \in DOMAIN CallsOf
  BY NextPosition DEF Program
<1>2. /\ LastCall \in Nat /\ LastCall >= 2
      /\ CallsOf[tool.cmd][1] = "mount" /\ CallsOf[tool.cmd][LastCall] = "umount"
      /\ \A k \in 2 .. LastCall - 1 : CallsOf[tool.cmd][k] \notin {"mount", "umount"}
  BY <1>1, SequenceEnds DEF LastCall
<1>3. tool.at = 1 \/ tool.at = LastCall \/ tool.at \in 2 .. LastCall - 1
  BY <1>2
<1>4. /\ c = "mount" => tool.at = 1
      /\ c = "umount" => tool.at = LastCall
      /\ c \notin {"mount", "umount"} => tool.at \in 2 .. LastCall - 1
  BY <1>2, <1>3
<1>5. c \in {"create", "delete", "write"} => tool.cmd \notin ReadsOnly
  BY ReadersRead DEF LastCall
<1>6. tool.cmd = "simple_writer" =>
        /\ c \notin {"delete", "stat", "read", "lseek"}
        /\ c = "create" => tool.at = 2
        /\ c = "open" => tool.at = 3
        /\ c = "write" => tool.at = 4
        /\ c = "close" => tool.at = 5
  BY WriterSequence DEF LastCall
<1> HIDE DEF c
<1> QED
  BY <1>4, <1>5, <1>6 DEF c

-----------------------------------------------------------------------------
(* The write of simple_writer, to a file that has no block: it goes from   *)
(* one fresh block to the next, whatever the rest of the volume is.        *)
LEMMA FreshFile ==
  ASSUME TypeInv, NEW fd \in Fds, IsOpen(fd)
  PROVE  open_files[fd].file \in Files
BY DEF TypeInv, TypeOK, IsOpen, FileDescriptor

LEMMA FreshBegins ==
  ASSUME TypeInv, ToolTyped, Program, call = Idle, FreshWrite,
         BeginWrite(tool.count), UNCHANGED tool
  PROVE  FreshWrite'
<1> DEFINE fd == tool.fd
           i  == open_files[fd].file
<1>1. fd \in Fds /\ tool.count \in 0 .. MaxCount
  BY NextPosition DEF Program
<1>2. IsOpen(fd) /\ root[i].first_index = FAT_EOC /\ tool.count > 0
  BY DEF FreshWrite, FreshFiles, Idle, BeginWrite, Write, WriteFirstBlock, WriteNoBlock, Writable
<1>3. i \in Files
  BY <1>1, <1>2, FreshFile
<1>4. root \in Root /\ fat \in Fat
  BY DEF TypeInv, TypeOK
<1> HIDE DEF i
<1>5. CASE Write(fd, tool.count)
  BY <1>2, <1>5 DEF Write, i
<1>6. CASE WriteFirstBlock(fd, tool.count)
  <2> DEFINE block == Least(FreeBlocks(fat))
  <2>1. block \in DataBlocks
    BY <1>4, <1>6, FreeBlockIsData DEF WriteFirstBlock
  <2>2. /\ root' = [root EXCEPT ![i].first_index = block]
        /\ fat' = [fat EXCEPT ![block] = FAT_EOC]
        /\ open_files' = open_files
        /\ call' = InCall("alloc", fd, tool.count, block)
    BY <1>6 DEF WriteFirstBlock, i
  <2> HIDE DEF block
  <2>3. root'[i].first_index = block
    BY <1>3, <1>4, <2>2 DEF Root, File
  <2>4. fat'[block] = FAT_EOC
    BY <1>4, <2>1, <2>2, BlockFacts DEF Fat
  <2>5. call'.pc = "alloc" /\ call'.arg = fd /\ call'.have = 1
        /\ call'.count = tool.count /\ call'.block = block
    BY <2>2 DEF InCall
  <2>6. WrittenFirst' = block
    BY <2>2, <2>3, <2>5 DEF WrittenFirst, i
  <2>7. find_data_block(fat', block, 0) = block
    BY FindFirst
  <2> DEFINE have == call'.have
             f    == fat'
             b1   == call'.block
             w1   == WrittenFirst'
             pc   == call'.pc
  <2>8. /\ have > 0
        /\ \A n \in 0 .. have - 1 : find_data_block(f, w1, n) \in DataBlocks
        /\ b1 = find_data_block(f, w1, have - 1)
        /\ f[b1] = FAT_EOC
    <3>1. have = 1 /\ b1 = block /\ w1 = block /\ f[block] = FAT_EOC
          /\ find_data_block(f, block, 0) = block
      BY <2>4, <2>5, <2>6, <2>7
    <3> HIDE DEF have, f, b1, w1
    <3>2. \A n \in 0 .. have - 1 : n = 0
      BY <3>1
    <3>3. have - 1 = 0 /\ have > 0
      BY <3>1
    <3> QED
      BY <2>1, <3>1, <3>2, <3>3
  <2> HIDE DEF have, f, b1, w1
  <2> QED
    BY <1>2, <2>5, <2>8 DEF FreshWrite, have, f, b1, w1
<1>7. CASE WriteNoBlock(fd, tool.count)
  <2>1. call'.pc = "xfer" /\ FreeBlocks(fat)' = {}
    BY <1>7 DEF WriteNoBlock, InCall, FreeBlocks
  <2> QED
    BY <2>1 DEF FreshWrite
<1> QED
  BY <1>5, <1>6, <1>7 DEF BeginWrite

(* The entries of the blocks behind the last one stay as they are when a   *)
(* free block is linked to it.                                             *)
LEMMA FreshExtended ==
  ASSUME NEW f \in Fat, NEW first, NEW n \in Nat,
         \A k \in 0 .. n : find_data_block(f, first, k) \in DataBlocks,
         NEW last, last = find_data_block(f, first, n), f[last] = FAT_EOC,
         NEW block \in DataBlocks, f[block] = 0,
         NEW g, g[last] = block, g[block] = FAT_EOC,
         \A b \in Blocks : b # block /\ b # last => g[b] = f[b]
  PROVE  /\ \A k \in 0 .. n + 1 : find_data_block(g, first, k) \in DataBlocks
         /\ find_data_block(g, first, n + 1) = block
         /\ g[block] = FAT_EOC
<1>1. last \in DataBlocks /\ last \in Blocks /\ block \in Blocks /\ block # last
      /\ last # FAT_EOC /\ block # FAT_EOC
  <2>1. n \in 0 .. n
    OBVIOUS
  <2>2. last \in DataBlocks
    BY <2>1
  <2>3. block # last
    BY BlockFacts
  <2> QED
    BY <2>2, <2>3, BlockFacts
<1>3. ASSUME NEW k \in 0 .. n - 1
      PROVE  g[find_data_block(f, first, k)] = f[find_data_block(f, first, k)]
  <2> DEFINE b == find_data_block(f, first, k)
             c == find_data_block(f, first, k + 1)
  <2>1. k \in 0 .. n /\ k + 1 \in 0 .. n /\ k \in Nat
    OBVIOUS
  <2>2. b \in DataBlocks /\ c \in DataBlocks
    BY <2>1
  <2>3. c = f[b]
    BY <2>1, <2>2, FindNext, BlockFacts DEF NextInChain
  <2> HIDE DEF b, c
  <2>4. f[b] # 0 /\ f[b] # FAT_EOC /\ b \in Blocks
    BY <2>2, <2>3, BlockFacts DEF DataBlocks
  <2> QED
    BY <1>1, <2>4 DEF b
<1>4. ASSUME NEW k \in 0 .. n
      PROVE  find_data_block(g, first, k) = find_data_block(f, first, k)
  <2>1. k \in Nat /\ 0 .. k - 1 \subseteq 0 .. n - 1
    OBVIOUS
  <2>2. \A m \in 0 .. k - 1 :
          g[find_data_block(f, first, m)] = f[find_data_block(f, first, m)]
    BY <1>3, <2>1
  <2> QED
    BY <2>1, <2>2, SameChain
<1>5. find_data_block(g, first, n + 1) = block
  <2>1. n \in 0 .. n
    OBVIOUS
  <2>2. find_data_block(g, first, n) = last
    BY <1>4, <2>1
  <2> QED
    BY <1>1, <2>2, FindNext DEF NextInChain
<1>6. ASSUME NEW k \in 0 .. n + 1
      PROVE  find_data_block(g, first, k) \in DataBlocks
  <2>1. k \in 0 .. n \/ k = n + 1
    OBVIOUS
  <2> QED
    BY <1>4, <1>5, <2>1
<1> QED
  BY <1>5, <1>6

LEMMA FreshGoes ==
  ASSUME TypeInv, FreshWrite, Walk \/ Extend \/ Allocated
  PROVE  FreshWrite'
<1> DEFINE first == WrittenFirst
           last  == call.block
           have  == call.have
           block == Least(FreeBlocks(fat))
<1>1. call.pc = "alloc" /\ UNCHANGED <<root, open_files>>
  BY DEF Walk, Extend, Allocated
<1>2. /\ call.count > 0 /\ have > 0
      /\ \A n \in 0 .. have - 1 : find_data_block(fat, first, n) \in DataBlocks
      /\ last = find_data_block(fat, first, have - 1)
      /\ fat[last] = FAT_EOC
  BY <1>1 DEF FreshWrite
<1>3. fat \in Fat /\ call \in Calls /\ have \in Nat
  BY DEF TypeInv, TypeOK, Calls
<1>4. CASE Walk
  BY <1>2, <1>4 DEF Walk
<1>5. CASE Extend
  <2>1. /\ fat' = [fat EXCEPT ![last] = block, ![block] = FAT_EOC]
        /\ call'.pc = "alloc" /\ call'.arg = call.arg /\ call'.count = call.count
        /\ call'.block = block /\ call'.have = have + 1
    BY <1>3, <1>5 DEF Extend, Calls
  <2>2. block \in DataBlocks /\ fat[block] = 0
    BY <1>3, <1>5, FreeBlockIsData DEF Extend
  <2>3. WrittenFirst' = first
    BY <1>1, <2>1 DEF WrittenFirst
  <2> HIDE DEF first, last, have, block
  <2>4. PICK p \in Nat : p = have - 1
    BY <1>2, <1>3
  <2>5. last \in DataBlocks
    <3>1. p \in 0 .. have - 1
      BY <1>3, <2>4
    <3> QED
      BY <1>2, <2>4, <3>1
  <2>6. /\ fat'[last] = block /\ fat'[block] = FAT_EOC
        /\ \A b \in Blocks : b # block /\ b # last => fat'[b] = fat[b]
    BY <1>2, <1>3, <2>1, <2>2, <2>5, BlockFacts DEF Fat
  <2>7. /\ \A k \in 0 .. p + 1 : find_data_block(fat', first, k) \in DataBlocks
        /\ find_data_block(fat', first, p + 1) = block
        /\ fat'[block] = FAT_EOC
    BY <1>2, <1>3, <2>2, <2>4, <2>6, FreshExtended
  <2> DEFINE have1 == call'.have
             f1    == fat'
             b1    == call'.block
             w1    == WrittenFirst'
  <2>8. /\ have1 > 0
        /\ \A n \in 0 .. have1 - 1 : find_data_block(f1, w1, n) \in DataBlocks
        /\ b1 = find_data_block(f1, w1, have1 - 1)
        /\ f1[b1] = FAT_EOC
    <3>1. have1 = have + 1 /\ b1 = block
      BY <2>1
    <3>2. w1 = first
      BY <2>3
    <3>3. /\ \A k \in 0 .. p + 1 : find_data_block(f1, first, k) \in DataBlocks
          /\ find_data_block(f1, first, p + 1) = block
          /\ f1[block] = FAT_EOC
      BY <2>7
    <3> HIDE DEF have1, f1, b1, w1
    <3>4. have1 - 1 = p + 1 /\ have1 > 0
      BY <1>3, <2>4, <3>1
    <3> QED
      BY <3>1, <3>2, <3>3, <3>4
  <2>9. call'.pc = "alloc" /\ call'.count > 0
    BY <1>2, <2>1
  <2> HIDE DEF have1, f1, b1, w1
  <2> QED
    BY <2>8, <2>9 DEF FreshWrite, have1, f1, b1, w1
<1>6. CASE Allocated
  <2>1. call'.pc = "xfer" /\ call'.arg = call.arg /\ call'.count = call.count /\ fat' = fat
    BY <1>3, <1>6 DEF Allocated, Calls
  <2>2. LastBlock' = LastBlock /\ FreeBlocks(fat)' = FreeBlocks(fat)
    BY <1>1, <2>1 DEF LastBlock, TargetBlocks, FreeBlocks
  <2>3. ASSUME have >= TargetBlocks
        PROVE  LastBlock # FAT_EOC
    <3>1. open_files[call.arg].offset \in Nat /\ call.count \in Nat
      BY <1>1, OffsetModAssumption, MaxCountAssumption
      DEF TypeInv, TypeOK, CallTyped, IsOpen, FileDescriptor, Calls
    <3>2. TargetBlocks \in Nat /\ TargetBlocks > 0
      BY <1>2, <3>1, TargetBlocksPositive DEF TargetBlocks
    <3>3. TargetBlocks - 1 \in 0 .. have - 1
      BY <1>3, <2>3, <3>2
    <3>4. LastBlock \in DataBlocks
      BY <1>2, <3>3 DEF LastBlock, WrittenFirst
    <3> QED
      BY <3>4, BlockFacts
  <2>4. LastBlock = FAT_EOC => FreeBlocks(fat) = {}
    BY <1>6, <2>3 DEF Allocated
  <2> QED
    BY <2>1, <2>2, <2>4 DEF FreshWrite
<1> QED
  BY <1>4, <1>5, <1>6

(* A program goes to position k.                                           *)
LEMMA ProgramGoes ==
  ASSUME ToolTyped', Running', Program,
         tool'.cmd = tool.cmd, tool'.name = tool.name,
         NEW k \in 1 .. LastCall + 1, tool'.at = k,
         k = 1 => status' = "unmounted",
         k \in 2 .. LastCall => status' = "mounted",
         call' # Idle => k =< LastCall /\ CallsOf[tool.cmd][k] = CallOfProgram',
         tool.cmd \in ReadsOnly => TablesSaved',
         tool.cmd = "simple_writer" =>
           /\ k = 2 => TablesSaved'
           /\ k = 3 => (Named(tool.name) # {} /\ FreshFiles(Named(tool.name)))'
           /\ k = 4 => FreshWrite',
         k > LastCall =>
           TablesSaved' \/ (tool.cmd = "simple_writer" /\ FreeBlocks(fat') = {})
  PROVE  ProgramInv' /\ ScriptInv'
<1>1. Program' /\ ~Script' /\ LastCall' = LastCall
  BY DEF Program, Script, LastCall
<1>2. ScriptInv'
  BY <1>1 DEF ScriptInv
<1> QED
  BY <1>1, <1>2 DEF ProgramInv, Idle

ToolSpecInv == ToolTyped /\ TypeInv /\ ToolInv

(* A program that is about to make a call.                                 *)
LEMMA AtCall ==
  ASSUME ToolSpecInv, NEW name, At(name)
  PROVE  /\ ToolTyped /\ Running /\ Program /\ call = Idle
         /\ LastCall \in Nat /\ LastCall >= 2 /\ tool.at \in 1 .. LastCall
         /\ CallsOf[tool.cmd][tool.at] = name
         /\ tool.cmd = "simple_writer" => LastCall = 6
         /\ tool.cmd \in ReadsOnly => TablesSaved
         /\ name \notin {"mount", "umount"} =>
              status = "mounted" /\ tool.at \in 2 .. LastCall - 1
<1>1. Program /\ Running /\ call = Idle /\ tool.at =< LastCall
      /\ CallsOf[tool.cmd][tool.at] = name
  BY DEF At, Program
<1>2. ToolTyped /\ ProgramInv
  BY DEF ToolSpecInv, ToolInv
<1>3. tool.at \in 1 .. LastCall + 1 /\ (tool.cmd \in ReadsOnly => TablesSaved)
      /\ (tool.at \in 2 .. LastCall => status = "mounted")
  BY <1>1, <1>2 DEF ProgramInv
<1>4. LastCall \in Nat /\ LastCall >= 2
  BY <1>1, <1>2, NextPosition, SequenceEnds DEF LastCall
<1>5. tool.at \in 1 .. LastCall
  BY <1>1, <1>3, <1>4
<1>6. tool.cmd = "simple_writer" => LastCall = 6
  BY WriterLength
<1>7. name \notin {"mount", "umount"} => tool.at \in 2 .. LastCall - 1
  BY <1>1, <1>2, <1>5, PositionOfCall
<1> QED
  BY <1>1, <1>2, <1>3, <1>4, <1>5, <1>6, <1>7

LEMMA ToolMountStep ==
  ASSUME ToolSpecInv, ToolMount
  PROVE  ProgramInv' /\ ScriptInv' /\ Running'
<1>1. At("mount")
  BY DEF ToolMount
<1>2. tool.at = 1
  BY <1>1, AtCall, PositionOfCall
<1>3. TablesSaved /\ status = "unmounted"
  BY <1>1, <1>2, AtCall DEF ToolSpecInv, ToolInv, ProgramInv
<1>4. CASE MountOk /\ Advance
  <2>1. ToolTyped' /\ Running' /\ tool' = [tool EXCEPT !.at = 2]
    BY <1>1, <1>2, <1>4, AtCall, NextPosition
  <2>2. tool'.cmd = tool.cmd /\ tool'.name = tool.name /\ tool'.at = 2
    BY <1>1, <2>1, AtCall, ProcessAt
  <2>3. status' = "mounted" /\ call' = Idle /\ TablesSaved'
    BY <1>4 DEF MountOk, TablesSaved
  <2>4. 2 \in 1 .. LastCall + 1 /\ ~(2 > LastCall)
    BY <1>1, AtCall
  <2> QED
    BY <1>1, <2>1, <2>2, <2>3, <2>4, AtCall, ProgramGoes
<1>5. CASE MountFails /\ ExitNow
  <2>1. ToolTyped' /\ Running' /\ tool' = [tool EXCEPT !.at = LastCall + 1]
    BY <1>1, <1>5, AtCall, NextPosition
  <2>2. tool'.cmd = tool.cmd /\ tool'.name = tool.name /\ tool'.at = LastCall + 1
    BY <1>1, <2>1, AtCall, ProcessAt
  <2>3. call' = Idle /\ TablesSaved'
    BY <1>3, <1>5 DEF MountFails, TablesSaved
  <2>4. LastCall + 1 \in 1 .. LastCall + 1 /\ LastCall + 1 # 1 /\ LastCall + 1 \notin 2 .. LastCall
        /\ (tool.cmd = "simple_writer" => LastCall + 1 = 7)
    BY <1>1, AtCall
  <2> QED
    BY <1>1, <2>1, <2>2, <2>3, <2>4, AtCall, ProgramGoes
<1> QED
  BY <1>4, <1>5 DEF ToolMount

LEMMA ToolUmountStep ==
  ASSUME ToolSpecInv, ToolUmount
  PROVE  ProgramInv' /\ ScriptInv' /\ Running'
<1>1. At("umount")
  BY DEF ToolUmount
<1>2. tool.at = LastCall
  BY <1>1, AtCall, PositionOfCall
<1>3. /\ ToolTyped' /\ Running' /\ tool'.cmd = tool.cmd /\ tool'.name = tool.name
      /\ tool'.at = LastCall
  BY <1>1, <1>2, AtCall, NextPosition DEF ToolUmount
<1>4. status' = "mounted" /\ CallOfProgram' = "umount"
  BY DEF ToolUmount, Umount, Ready, CallOfProgram, Idle
<1>5. TablesSaved => TablesSaved'
  <2>1. fat' = fat /\ root' = root /\ disk' = [disk EXCEPT !.fat = fat]
    BY DEF ToolUmount, Umount
  <2>2. disk \in [fat: Fat, root: Root]
    BY DEF ToolSpecInv, TypeInv, TypeOK
  <2> QED
    BY <2>1, <2>2 DEF TablesSaved
<1>6. LastCall \in 1 .. LastCall + 1 /\ LastCall # 1 /\ ~(LastCall > LastCall)
      /\ (tool.cmd = "simple_writer" => LastCall = 6)
  BY <1>1, AtCall
<1> QED
  BY <1>1, <1>2, <1>3, <1>4, <1>5, <1>6, AtCall, ProgramGoes

(* A call in the middle of the sequence that returns leads to the next one.*)
LEMMA Advances ==
  ASSUME ToolSpecInv, Program, tool.at \in 2 .. LastCall - 1, Advance,
         status' = "mounted", call' = Idle,
         tool.cmd \in ReadsOnly => TablesSaved',
         tool.cmd = "simple_writer" =>
           /\ tool.at # 3
           /\ tool.at = 2 => Named(tool.name)' # {} /\ FreshFiles(Named(tool.name))'
  PROVE  ProgramInv' /\ ScriptInv' /\ Running'
<1> DEFINE k == tool.at + 1
<1>1. ToolTyped /\ Running /\ LastCall \in Nat
  BY NextPosition DEF ToolSpecInv, Program
<1>2. ToolTyped' /\ Running' /\ tool' = [tool EXCEPT !.at = k] /\ k \in Nat
  BY <1>1, NextPosition
<1>3. tool'.cmd = tool.cmd /\ tool'.name = tool.name /\ tool'.at = k
  BY <1>1, <1>2, ProcessAt
<1>4. /\ k \in 1 .. LastCall + 1 /\ k \notin {1, 2} /\ ~(k > LastCall)
      /\ k = 3 => tool.at = 2
      /\ k = 4 => tool.at = 3
  BY <1>1
<1> HIDE DEF k
<1> QED
  BY <1>1, <1>2, <1>3, <1>4, ProgramGoes

(* One that fails leads to fs_umount, or to the end with nothing to save.  *)
LEMMA Fails ==
  ASSUME ToolSpecInv, Program, tool.at \in 2 .. LastCall - 1, Fail, UNCHANGED vars,
         status = "mounted", call = Idle,
         tool.cmd \in ReadsOnly \/ tool.cmd \in Asserts => TablesSaved
  PROVE  ProgramInv' /\ ScriptInv' /\ Running'
<1> DEFINE k == IF tool.cmd \in Asserts THEN LastCall + 1 ELSE LastCall
<1>1. ToolTyped /\ Running /\ LastCall \in Nat
  BY NextPosition DEF ToolSpecInv, Program
<1>2. ToolTyped' /\ Running' /\ tool' = [tool EXCEPT !.at = k] /\ k \in Nat
  BY <1>1, NextPosition
<1>3. tool'.cmd = tool.cmd /\ tool'.name = tool.name /\ tool'.at = k
  BY <1>1, <1>2, ProcessAt
<1>4. /\ k \in 1 .. LastCall + 1 /\ k # 1
      /\ k > LastCall => tool.cmd \in Asserts
      /\ tool.cmd = "simple_writer" => k = 7
  <2>1. tool.cmd = "simple_writer" => LastCall = 6
    BY WriterLength
  <2>2. tool.cmd = "simple_writer" => tool.cmd \in Asserts
    BY DEF Asserts
  <2> QED
    BY <1>1, <2>1, <2>2
<1>5. status' = status /\ call' = call /\ TablesSaved' = TablesSaved
  BY DEF vars, TablesSaved
<1> HIDE DEF k
<1> QED
  BY <1>1, <1>2, <1>3, <1>4, <1>5, ProgramGoes

LEMMA ToolCreateStep ==
  ASSUME ToolSpecInv, ToolCreate
  PROVE  ProgramInv' /\ ScriptInv' /\ Running'
<1>1. At("create")
  BY DEF ToolCreate
<1>2. /\ Program /\ tool.at \in 2 .. LastCall - 1 /\ status = "mounted" /\ call = Idle
      /\ tool.cmd \notin ReadsOnly /\ (tool.cmd = "simple_writer" => tool.at = 2)
  BY <1>1, AtCall, PositionOfCall
<1>3. CASE Create(tool.name) /\ Advance
  <2>1. status' = "mounted" /\ call' = Idle
    BY <1>2, <1>3 DEF Create
  <2>2. Named(tool.name)' # {} /\ FreshFiles(Named(tool.name))'
    <3> DEFINE new == Least(Named(NoName))
               r2  == root'
    <3>1. new \in Files /\ Named(tool.name) = {}
      BY <1>3, EmptyEntryIsFile DEF Create
    <3>2. root \in Root
      BY DEF ToolSpecInv, TypeInv, TypeOK
    <3>3. /\ r2[new].filename = tool.name /\ r2[new].first_index = FAT_EOC
          /\ \A i \in Files : i # new => r2[i] = root[i]
      BY <1>3, <3>1, <3>2 DEF Create, Root
    <3>4. tool'.name = tool.name
      BY <1>2, <1>3, NextPosition, ProcessAt DEF ToolSpecInv, Program
    <3> HIDE DEF new, r2
    <3>5. \A i \in Files : r2[i].filename = tool.name => i = new
      BY <3>1, <3>3 DEF Named
    <3>6. Named(tool.name)' = {i \in Files : r2[i].filename = tool.name}
      BY <3>4 DEF Named, r2
    <3>7. \A i \in Named(tool.name)' : r2[i].first_index = FAT_EOC
      BY <3>3, <3>5, <3>6
    <3>8. FreshFiles(Named(tool.name))'
      BY <3>7 DEF FreshFiles, r2
    <3>9. new \in Named(tool.name)'
      BY <3>1, <3>3, <3>6
    <3> QED
      BY <3>8, <3>9
  <2>3. tool.cmd = "simple_writer" => tool.at # 3
    BY <1>2
  <2> QED
    BY <1>2, <1>3, <2>1, <2>2, <2>3, Advances
<1>4. CASE Fail /\ UNCHANGED vars
  <2>1. tool.cmd \in Asserts => TablesSaved
    BY <1>2 DEF Asserts, ReadsOnly, ToolSpecInv, ToolInv, ProgramInv
  <2> QED
    BY <1>2, <1>4, <2>1, Fails
<1> QED
  BY <1>3, <1>4 DEF ToolCreate

LEMMA ToolDeleteStep ==
  ASSUME ToolSpecInv, ToolDelete
  PROVE  ProgramInv' /\ ScriptInv' /\ Running'
<1>1. At("delete")
  BY DEF ToolDelete
<1>2. /\ Program /\ tool.at \in 2 .. LastCall - 1 /\ status = "mounted" /\ call = Idle
      /\ CallsOf[tool.cmd][tool.at] = "delete"
      /\ tool.cmd \notin ReadsOnly /\ tool.cmd # "simple_writer" /\ LastCall \in Nat
  BY <1>1, AtCall, PositionOfCall
<1>3. CASE DeleteEmpty(tool.name) /\ Advance
  <2>1. status' = "mounted" /\ call' = Idle
    BY <1>2, <1>3 DEF DeleteEmpty
  <2> QED
    BY <1>2, <1>3, <2>1, Advances
<1>4. CASE Delete(tool.name) /\ UNCHANGED tool
  <2>1. ToolTyped' /\ Running' /\ tool'.cmd = tool.cmd /\ tool'.name = tool.name /\ tool'.at = tool.at
    BY <1>1, <1>4, AtCall, NextPosition
  <2>2. status' = "mounted" /\ CallOfProgram' = "delete"
    BY <1>2, <1>4 DEF Delete, CallOfProgram, Idle
  <2>3. tool.at \in 1 .. LastCall + 1 /\ tool.at # 1 /\ ~(tool.at > LastCall)
    BY <1>2
  <2> QED
    BY <1>2, <2>1, <2>2, <2>3, ProgramGoes
<1>5. CASE Fail /\ UNCHANGED vars
  <2>1. tool.cmd \notin Asserts
    BY <1>2 DEF Asserts, ReadsOnly
  <2> QED
    BY <1>2, <1>5, <2>1, Fails
<1> QED
  BY <1>3, <1>4, <1>5 DEF ToolDelete

(* simple_writer opens the file it has just created.                       *)
LEMMA FreshOpened ==
  ASSUME ToolSpecInv, Program, call = Idle, tool.cmd = "simple_writer", tool.at = 3,
         OpenInto(tool.name)
  PROVE  FreshWrite'
<1> DEFINE fd == Least(Fds \ OpenFds)
<1>1. FreshFiles(Named(tool.name))
  BY DEF ToolSpecInv, ToolInv, ProgramInv
<1>2. fd \in Fds
  BY EmptySlotIsFd DEF OpenInto, Open, AddFile
<1>3. PICK i \in Named(tool.name) :
        /\ open_files' = [open_files EXCEPT ![fd] = [file |-> i, offset |-> 0]]
        /\ root' = root /\ call' = Idle
  BY DEF OpenInto, Open, AddFile
<1>4. open_files \in [Fds -> FileDescriptor \union {NULL}]
  BY DEF ToolSpecInv, TypeInv, TypeOK
<1> HIDE DEF fd
<1>5. open_files'[fd] = [file |-> i, offset |-> 0]
  BY <1>2, <1>3, <1>4
<1>6. [file |-> i, offset |-> 0] # NULL
  <2>1. i \in Files /\ 0 \in 0 .. OffsetMod - 1
    BY OffsetModAssumption DEF Named
  <2> QED
    BY <2>1, NULLAssumption DEF FileDescriptor
<1>7. tool'.fd = fd
  <2>1. tool \in Processes
    BY DEF ToolSpecInv, ToolTyped, Program, Running
  <2> QED
    BY <2>1 DEF OpenInto, Processes, fd
<1>8. root[i].first_index = FAT_EOC
  BY <1>1 DEF FreshFiles
<1>9. IsOpen(tool.fd)' /\ FreshFiles({open_files[tool.fd].file})'
  <2>1. open_files'[tool'.fd] = [file |-> i, offset |-> 0]
    BY <1>5, <1>7
  <2>2. open_files'[tool'.fd].file = i /\ root'[i].first_index = FAT_EOC
    BY <1>3, <1>8, <2>1
  <2> QED
    BY <1>6, <2>1, <2>2 DEF IsOpen, FreshFiles
<1> QED
  BY <1>3, <1>9 DEF FreshWrite, Idle

LEMMA ToolOpenStep ==
  ASSUME ToolSpecInv, ToolOpen
  PROVE  ProgramInv' /\ ScriptInv' /\ Running'
<1>1. At("open")
  BY DEF ToolOpen
<1>2. /\ ToolTyped /\ Running /\ Program /\ tool.name \in Names
      /\ tool.at \in 2 .. LastCall - 1 /\ status = "mounted" /\ call = Idle
      /\ (tool.cmd \in ReadsOnly => TablesSaved)
      /\ (tool.cmd = "simple_writer" => tool.at = 3) /\ LastCall \in Nat
  BY <1>1, AtCall, PositionOfCall DEF ToolTyped
<1>3. CASE OpenInto(tool.name)
  <2> DEFINE k == tool.at + 1
  <2>1. /\ ToolTyped' /\ Running' /\ tool'.cmd = tool.cmd /\ tool'.name = tool.name
        /\ tool'.at = k
    BY <1>2, <1>3, OpenIntoSlot DEF Program
  <2>2. status' = "mounted" /\ call' = Idle /\ TablesSaved' = TablesSaved
    BY <1>2, <1>3 DEF OpenInto, Open, TablesSaved
  <2>3. /\ k \in 1 .. LastCall + 1 /\ k # 1 /\ ~(k > LastCall)
        /\ tool.cmd = "simple_writer" => k = 4
    BY <1>2
  <2>4. tool.cmd = "simple_writer" => FreshWrite'
    BY <1>2, <1>3, FreshOpened DEF Program
  <2> HIDE DEF k
  <2> QED
    BY <1>2, <2>1, <2>2, <2>3, <2>4, ProgramGoes
<1>4. CASE Named(tool.name) = {} /\ Fail /\ UNCHANGED vars
  <2>1. tool.cmd # "simple_writer"
    BY <1>2, <1>4 DEF ToolSpecInv, ToolInv, ProgramInv
  <2>2. tool.cmd \in Asserts => tool.cmd \in ReadsOnly
    BY <2>1 DEF Asserts, ReadsOnly
  <2> QED
    BY <1>2, <1>4, <2>2, Fails
<1> QED
  BY <1>3, <1>4 DEF ToolOpen

(* The calls that change neither table.                                    *)
LEMMA QuietStep ==
  ASSUME ToolSpecInv, NEW name, At(name), name \notin {"mount", "umount"},
         UNCHANGED <<status, fat, root, disk, call>>,
         name \notin {"create", "open"},
         Advance \/ (ExitNow /\ tool.cmd \in ReadsOnly)
  PROVE  ProgramInv' /\ ScriptInv' /\ Running'
<1>1. /\ ToolTyped /\ Running /\ Program /\ LastCall \in Nat
      /\ tool.at \in 2 .. LastCall - 1 /\ status = "mounted" /\ call = Idle
      /\ (tool.cmd \in ReadsOnly => TablesSaved)
      /\ CallsOf[tool.cmd][tool.at] = name
  BY AtCall
<1>2. TablesSaved' = TablesSaved
  BY DEF TablesSaved
<1>3. tool.cmd = "simple_writer" => tool.at # 2 /\ tool.at # 3
  <2>1. ASSUME tool.cmd = "simple_writer", tool.at = 2 \/ tool.at = 3
        PROVE  FALSE
    <3>1. CallsOf["simple_writer"][2] = "create" /\ CallsOf["simple_writer"][3] = "open"
      BY EachSequence
    <3> QED
      BY <1>1, <2>1, <3>1
  <2> QED
    BY <2>1
<1>4. CASE Advance
  BY <1>1, <1>2, <1>3, <1>4, Advances
<1>5. CASE ExitNow /\ tool.cmd \in ReadsOnly
  <2> DEFINE k == LastCall + 1
  <2>1. ToolTyped' /\ Running' /\ tool' = [tool EXCEPT !.at = k] /\ k \in Nat
    BY <1>1, <1>5, NextPosition
  <2>2. tool'.cmd = tool.cmd /\ tool'.name = tool.name /\ tool'.at = k
    BY <1>1, <2>1, ProcessAt
  <2>3. k \in 1 .. LastCall + 1 /\ k # 1 /\ k \notin 2 .. LastCall
        /\ tool.cmd # "simple_writer"
    BY <1>1, <1>5 DEF ReadsOnly
  <2> HIDE DEF k
  <2> QED
    BY <1>1, <1>2, <1>5, <2>1, <2>2, <2>3, ProgramGoes
<1> QED
  BY <1>4, <1>5

LEMMA QuietCalls ==
  ASSUME ToolSpecInv, ToolStat \/ ToolLseek \/ ToolRead \/ ToolClose
  PROVE  ProgramInv' /\ ScriptInv' /\ Running'
<1>1. CASE ToolStat
  <2>1. tool.cmd = "cat" => tool.cmd \in ReadsOnly
    BY DEF ReadsOnly
  <2> QED
    BY <1>1, <2>1, QuietStep DEF ToolStat, vars
<1>2. CASE ToolLseek
  BY <1>2, QuietStep DEF ToolLseek, Lseek, vars
<1>3. CASE ToolRead
  <2>1. At("read") /\ UNCHANGED <<status, fat, root, disk, call>>
    BY <1>3 DEF ToolRead, Read, vars
  <2>2. tool.cmd \in Asserts => tool.cmd \in ReadsOnly
    <3>1. tool.cmd # "simple_writer"
      BY <2>1, AtCall, PositionOfCall
    <3> QED
      BY <3>1 DEF Asserts, ReadsOnly
  <2> QED
    BY <1>3, <2>1, <2>2, QuietStep DEF ToolRead
<1>4. CASE ToolClose
  BY <1>4, QuietStep DEF ToolClose, Close
<1> QED
  BY <1>1, <1>2, <1>3, <1>4

LEMMA ToolWriteStep ==
  ASSUME ToolSpecInv, ToolWrite
  PROVE  ProgramInv' /\ ScriptInv' /\ Running'
<1>1. At("write")
  BY DEF ToolWrite
<1>2. /\ ToolTyped /\ Running /\ Program /\ LastCall \in Nat
      /\ tool.at \in 2 .. LastCall - 1 /\ status = "mounted" /\ call = Idle
      /\ CallsOf[tool.cmd][tool.at] = "write"
      /\ tool.cmd \notin ReadsOnly /\ (tool.cmd = "simple_writer" => tool.at = 4)
  BY <1>1, AtCall, PositionOfCall
<1>3. CASE BeginWrite(tool.count) /\ UNCHANGED tool
  <2>1. ToolTyped' /\ Running' /\ tool'.cmd = tool.cmd /\ tool'.name = tool.name /\ tool'.at = tool.at
    BY <1>2, <1>3, NextPosition
  <2>2. status' = "mounted" /\ call'.pc \in {"alloc", "xfer"}
    BY <1>2, <1>3 DEF BeginWrite, Write, WriteFirstBlock, WriteNoBlock, InCall
  <2>3. CallOfProgram' = "write"
    BY <2>2 DEF CallOfProgram
  <2>4. tool.at \in 1 .. LastCall + 1 /\ tool.at # 1 /\ ~(tool.at > LastCall)
    BY <1>2
  <2>5. tool.cmd = "simple_writer" => FreshWrite'
    <3>1. tool.cmd = "simple_writer" => FreshWrite
      BY <1>2 DEF ToolSpecInv, ToolInv, ProgramInv
    <3> QED
      BY <1>2, <1>3, <3>1, FreshBegins DEF ToolSpecInv
  <2> QED
    BY <1>2, <2>1, <2>2, <2>3, <2>4, <2>5, ProgramGoes
<1>4. CASE Advance /\ UNCHANGED vars
  BY <1>1, <1>4, QuietStep DEF vars
<1> QED
  BY <1>3, <1>4 DEF ToolWrite

(* A call that has begun belongs to where its program is.                  *)
LEMMA InCallOf ==
  ASSUME ToolSpecInv, Program, call # Idle
  PROVE  /\ ToolTyped /\ Running /\ LastCall \in Nat /\ LastCall >= 2
         /\ tool.at \in 1 .. LastCall /\ CallsOf[tool.cmd][tool.at] = CallOfProgram
         /\ tool.cmd = "simple_writer" => LastCall = 6
         /\ tool.cmd \in ReadsOnly => TablesSaved
         /\ status = "mounted"
<1>1. tool.at \in 1 .. LastCall + 1 /\ tool.at =< LastCall
      /\ CallsOf[tool.cmd][tool.at] = CallOfProgram
      /\ (tool.cmd \in ReadsOnly => TablesSaved)
  BY DEF ToolSpecInv, ToolInv, ProgramInv
<1>2. ToolTyped /\ Running /\ status = "mounted"
  BY DEF ToolSpecInv, ToolInv, Program
<1>3. LastCall \in Nat /\ LastCall >= 2
  BY <1>2, NextPosition, SequenceEnds DEF LastCall
<1>4. tool.cmd = "simple_writer" => LastCall = 6
  BY WriterLength
<1> QED
  BY <1>1, <1>2, <1>3, <1>4

LEMMA LoopOfProgram ==
  ASSUME ToolSpecInv, Program, InLoop
  PROVE  ProgramInv' /\ ScriptInv' /\ Running'
<1>1. /\ call.pc \in {"alloc", "free"} /\ call # Idle
      /\ status' = status /\ UNCHANGED tool
  BY DEF InLoop, Walk, Extend, Allocated, FreeBlock, Idle
<1>2. /\ ToolTyped /\ Running /\ LastCall \in Nat /\ tool.at \in 1 .. LastCall
      /\ CallsOf[tool.cmd][tool.at] = CallOfProgram /\ status = "mounted"
  BY <1>1, InCallOf
<1>3. CallOfProgram \in {"write", "delete"}
  BY <1>1 DEF CallOfProgram
<1>4. CallOfProgram' = CallOfProgram
  <2>1. call \in Calls
    BY DEF ToolSpecInv, TypeInv, TypeOK
  <2>2. CASE Walk \/ Extend \/ Allocated
    <3>1. call.pc = "alloc" /\ call'.pc \in {"alloc", "xfer"}
      BY <2>1, <2>2 DEF Walk, Extend, Allocated, Calls
    <3> QED
      BY <3>1 DEF CallOfProgram
  <2>3. CASE FreeBlock
    <3>1. call.pc = "free" /\ call'.pc = "free"
      BY <2>1, <2>3 DEF FreeBlock, Calls
    <3> QED
      BY <3>1 DEF CallOfProgram
  <2> QED
    BY <2>2, <2>3 DEF InLoop
<1>5. /\ tool.cmd \notin ReadsOnly
      /\ tool.at \in 2 .. LastCall - 1
      /\ tool.cmd = "simple_writer" => tool.at = 4
  BY <1>2, <1>3, PositionOfCall
<1>6. ToolTyped' /\ Running' /\ tool'.cmd = tool.cmd /\ tool'.name = tool.name /\ tool'.at = tool.at
  BY <1>1, <1>2, NextPosition
<1>7. tool.at \in 1 .. LastCall + 1 /\ tool.at # 1 /\ ~(tool.at > LastCall)
  BY <1>2, <1>5
<1>8. tool.cmd = "simple_writer" => FreshWrite'
  <2> SUFFICES ASSUME tool.cmd = "simple_writer" PROVE FreshWrite'
    OBVIOUS
  <2>1. FreshWrite /\ CallsOf[tool.cmd][tool.at] = "write"
    <3>1. tool.at = 4 /\ CallsOf["simple_writer"][4] = "write"
      BY <1>5, EachSequence
    <3> QED
      BY <3>1 DEF ToolSpecInv, ToolInv, ProgramInv
  <2>2. call.pc # "free"
    BY <1>2, <2>1 DEF CallOfProgram
  <2> QED
    BY <2>1, <2>2, FreshGoes DEF ToolSpecInv, InLoop, FreeBlock
<1> QED
  BY <1>1, <1>2, <1>4, <1>5, <1>6, <1>7, <1>8, ProgramGoes

LEMMA ReturnToProgram ==
  ASSUME ToolSpecInv, Program, Return
  PROVE  ProgramInv' /\ ScriptInv' /\ Running'
<1>1. ~Script
  BY DEF Program, Script
<1>2. CASE (WriteAll \/ FreeLast) /\ Advance
  <2>1. call.pc \in {"xfer", "free"} /\ call # Idle /\ call' = Idle /\ status' = status
    BY <1>2 DEF WriteAll, FreeLast, Idle
  <2>2. CallOfProgram \in {"write", "delete"}
    BY <2>1 DEF CallOfProgram
  <2>3. /\ tool.at \in 2 .. LastCall - 1 /\ status = "mounted"
        /\ tool.cmd \notin ReadsOnly /\ (tool.cmd = "simple_writer" => tool.at = 4)
    BY <2>1, <2>2, InCallOf, PositionOfCall
  <2> QED
    BY <1>2, <2>1, <2>3, Advances
<1>3. CASE UmountRoot /\ Advance
  <2> DEFINE k == LastCall + 1
  <2>1. call.pc = "saving" /\ call # Idle /\ call' = Idle
    BY <1>3 DEF UmountRoot, Idle
  <2>2. CallOfProgram = "umount"
    BY <2>1 DEF CallOfProgram
  <2>3. /\ ToolTyped /\ Running /\ LastCall \in Nat /\ LastCall >= 2 /\ tool.at = LastCall
        /\ (tool.cmd = "simple_writer" => LastCall = 6)
    BY <2>1, <2>2, InCallOf, PositionOfCall
  <2>4. ToolTyped' /\ Running' /\ tool' = [tool EXCEPT !.at = k] /\ k \in Nat
    BY <1>3, <2>3, NextPosition
  <2>5. tool'.cmd = tool.cmd /\ tool'.name = tool.name /\ tool'.at = k
    BY <2>3, <2>4, ProcessAt
  <2>6. TablesSaved'
    <3>1. disk.fat = fat
      BY <2>1 DEF ToolSpecInv, ToolInv
    <3>2. disk \in [fat: Fat, root: Root]
      BY DEF ToolSpecInv, TypeInv, TypeOK
    <3> QED
      BY <1>3, <3>1, <3>2 DEF UmountRoot, TablesSaved
  <2>7. /\ k \in 1 .. LastCall + 1 /\ k # 1 /\ k \notin 2 .. LastCall
        /\ tool.cmd = "simple_writer" => k = 7
    BY <2>3
  <2> HIDE DEF k
  <2> QED
    BY <2>1, <2>4, <2>5, <2>6, <2>7, ProgramGoes
<1>4. ASSUME WriteShort
      PROVE  /\ ToolTyped /\ Running /\ status' = "mounted" /\ call' = Idle
             /\ tool.cmd = "simple_writer" => FreeBlocks(fat') = {}
             /\ tool.at \in 2 .. LastCall - 1 /\ LastCall \in Nat /\ LastCall >= 2
             /\ tool.cmd \notin ReadsOnly
             /\ tool.cmd = "simple_writer" => tool.at = 4 /\ LastCall = 6
  <2>1. call.pc = "xfer" /\ call # Idle /\ call' = Idle /\ UNCHANGED <<status, fat>>
    BY <1>4 DEF WriteShort, Idle
  <2>2. CallOfProgram = "write"
    BY <2>1 DEF CallOfProgram
  <2>3. tool.cmd = "simple_writer" => tool.at = 4 /\ LastCall = 6
    BY <2>1, <2>2, InCallOf, PositionOfCall
  <2>4. tool.cmd = "simple_writer" => FreeBlocks(fat) = {}
    BY <1>4, <2>1, <2>3 DEF WriteShort, ToolSpecInv, ToolInv, ProgramInv, FreshWrite
  <2> QED
    BY <2>1, <2>2, <2>3, <2>4, InCallOf, PositionOfCall
<1>5. CASE WriteShort /\ tool.cmd \in Asserts /\ ExitNow
  <2> DEFINE k == LastCall + 1
  <2>1. tool.cmd = "simple_writer"
    BY <1>4, <1>5 DEF Asserts, ReadsOnly
  <2>2. ToolTyped' /\ Running' /\ tool' = [tool EXCEPT !.at = k] /\ k \in Nat
    BY <1>4, <1>5, NextPosition
  <2>3. tool'.cmd = tool.cmd /\ tool'.name = tool.name /\ tool'.at = k
    BY <1>4, <1>5, <2>2, ProcessAt
  <2>4. k \in 1 .. LastCall + 1 /\ k = 7 /\ k \notin 2 .. LastCall
    BY <1>4, <1>5, <2>1
  <2> HIDE DEF k
  <2> QED
    BY <1>4, <1>5, <2>1, <2>2, <2>3, <2>4, ProgramGoes
<1>6. CASE WriteShort /\ Advance
  BY <1>4, <1>6, Advances
<1> QED
  BY <1>1, <1>2, <1>3, <1>5, <1>6 DEF Return

-----------------------------------------------------------------------------
(* While no volume is mounted, no call is running and memory is as the     *)
(* disk is.                                                                *)
LEMMA ParkedStep ==
  ASSUME TypeInv, [Next \/ Kill]_vars,
         call.pc = "saving" => disk.fat = fat,
         status # "mounted" => call = Idle /\ TablesSaved
  PROVE  status' # "mounted" => call' = Idle /\ TablesSaved'
<1>0. disk \in [fat: Fat, root: Root]
  BY DEF TypeInv, TypeOK
<1>1. CASE MountOk
  BY <1>1 DEF MountOk
<1>2. CASE MountFails
  BY <1>2 DEF MountFails, TablesSaved
<1>3. CASE Umount
  BY <1>3 DEF Umount, Ready
<1>4. ASSUME NEW name \in Names, Create(name) \/ DeleteEmpty(name) \/ Delete(name) \/ Open(name)
      PROVE  status' = "mounted"
  BY <1>4 DEF Create, DeleteEmpty, Delete, Deletable, Open, AddFile, Ready
<1>5. ASSUME NEW fd \in Fds, Close(fd)
      PROVE  UNCHANGED <<status, fat, root, disk, call>>
  BY <1>5 DEF Close
<1>6. ASSUME NEW fd \in Fds, NEW offset \in 0 .. MaxSize, Lseek(fd, offset)
      PROVE  status' = "mounted"
  BY <1>6 DEF Lseek, Ready
<1>7. ASSUME NEW fd \in Fds, NEW count \in 1 .. MaxCount,
             Read(fd, count) \/ Write(fd, count)
               \/ WriteFirstBlock(fd, count) \/ WriteNoBlock(fd, count)
      PROVE  status' = "mounted"
  BY <1>7 DEF Read, Write, WriteFirstBlock, WriteNoBlock, Writable, Ready
<1>8. CASE Caller
  BY <1>1, <1>2, <1>3, <1>4, <1>5, <1>6, <1>7, <1>8 DEF Caller, TablesSaved
<1>9. CASE UmountRoot
  <2>1. disk.fat = fat
    BY <1>9 DEF UmountRoot
  <2> QED
    BY <1>0, <1>9, <2>1 DEF UmountRoot, TablesSaved
<1>10. CASE CallStep /\ ~UmountRoot
  <2>1. call # Idle /\ UNCHANGED status
    BY <1>10 DEF CallStep, FreeBlock, FreeLast, Walk, Extend, Allocated, WriteAll, WriteShort, Idle
  <2> QED
    BY <2>1
<1>11. CASE Kill
  BY <1>11 DEF Kill, TablesSaved
<1>12. CASE UNCHANGED vars
  BY <1>12 DEF vars, TablesSaved
<1> QED
  BY <1>8, <1>9, <1>10, <1>11, <1>12 DEF Next

(* Between its two writes fs_umount has the FAT on the disk.               *)
LEMMA SavingStep ==
  ASSUME TypeInv, [Next \/ Kill]_vars,
         call.pc = "saving" => disk.fat = fat
  PROVE  call'.pc = "saving" => disk'.fat = fat'
<1>1. disk \in [fat: Fat, root: Root] /\ call \in Calls
  BY DEF TypeInv, TypeOK
<1>2. CASE Umount
  BY <1>1, <1>2 DEF Umount
<1>3. ASSUME NEW fd \in Fds, NEW count,
             Write(fd, count) \/ WriteFirstBlock(fd, count) \/ WriteNoBlock(fd, count)
      PROVE  call'.pc # "saving"
  BY <1>3 DEF Write, WriteFirstBlock, WriteNoBlock, InCall
<1>4. ASSUME NEW name, Delete(name)
      PROVE  call'.pc # "saving"
  BY <1>4 DEF Delete
<1>5. CASE \/ MountOk \/ MountFails \/ \E name \in Names : Create(name) \/ DeleteEmpty(name) \/ Open(name)
           \/ \E fd \in Fds : Close(fd) \/ (\E offset \in 0 .. MaxSize : Lseek(fd, offset))
                              \/ (\E count \in 1 .. MaxCount : Read(fd, count))
  <2>1. call = Idle /\ call' = call
    BY <1>5 DEF MountOk, MountFails, Create, DeleteEmpty, Deletable, Open, Close, Lseek, Read, Ready,
                FlaggedMounted
  <2> QED
    BY <2>1 DEF Idle
<1>6. CASE Caller
  BY <1>2, <1>3, <1>4, <1>5, <1>6 DEF Caller
<1>7. CASE FreeBlock \/ Walk \/ Extend \/ Allocated
  <2>1. call'.pc # "saving"
    BY <1>1, <1>7 DEF FreeBlock, Walk, Extend, Allocated, Calls
  <2> QED
    BY <2>1
<1>8. CASE FreeLast \/ WriteAll \/ WriteShort \/ UmountRoot \/ Kill
  <2>1. call' = Idle
    BY <1>8 DEF FreeLast, WriteAll, WriteShort, UmountRoot, Kill
  <2> QED
    BY <2>1 DEF Idle
<1>9. CASE UNCHANGED vars
  BY <1>9 DEF vars
<1> QED
  BY <1>6, <1>7, <1>8, <1>9 DEF Next, CallStep

(* Where a script goes: it is neither a program nor at its end in a call.  *)
LEMMA ScriptGoes ==
  ASSUME ToolTyped', Running', tool'.cmd = "script",
         NEW k \in {Lines, Ending, Ended, MountRefused, Aborted}, tool'.at = k,
         k = Ended => call' = Idle /\ TablesSaved'
  PROVE  ProgramInv' /\ ScriptInv' /\ Running'
<1>1. Script' /\ ~Program'
  BY DEF Script, Program
<1> QED
  BY <1>1 DEF ProgramInv, ScriptInv, Idle

LEMMA ScriptStays ==
  ASSUME ToolSpecInv, Script, UNCHANGED tool, tool.at # Ended
  PROVE  ProgramInv' /\ ScriptInv' /\ Running'
<1>1. ToolTyped' /\ Running'
  BY NextPosition DEF ToolSpecInv, Script
<1>2. tool.at \in {Lines, Ending, Ended, MountRefused, Aborted} /\ tool'.cmd = "script"
  BY DEF ToolSpecInv, ToolInv, ScriptInv, Script
<1> QED
  BY <1>1, <1>2, ScriptGoes

LEMMA ScriptMoves ==
  ASSUME ToolSpecInv, Script, NEW k \in {Ending, Ended, MountRefused, Aborted},
         tool' = [tool EXCEPT !.at = k],
         k = Ended => call' = Idle /\ TablesSaved'
  PROVE  ProgramInv' /\ ScriptInv' /\ Running'
<1>1. ToolTyped /\ Running /\ k \in Nat
  BY DEF ToolSpecInv, Script, Ending, Ended, MountRefused, Aborted
<1>2. ToolTyped' /\ Running' /\ tool'.cmd = tool.cmd /\ tool'.at = k
  BY <1>1, ProcessAt
<1> QED
  BY <1>2, ScriptGoes DEF Script

LEMMA ScriptSteps ==
  ASSUME ToolSpecInv, Script, ScriptCall \/ ScriptMount \/ ScriptEnding
  PROVE  ProgramInv' /\ ScriptInv' /\ Running'
<1>1. Ending # Ended /\ MountRefused # Ended /\ Lines # Ended /\ Aborted # Ended
  BY DEF Lines, Ending, Ended, MountRefused, Aborted
<1>2. tool.at # Ended
  BY <1>1 DEF ScriptCall, ScriptMount, ScriptEnding
<1>3. CASE UNCHANGED tool
  BY <1>2, <1>3, ScriptStays
<1>4. ASSUME NEW name \in Names, OpenInto(name)
      PROVE  ProgramInv' /\ ScriptInv' /\ Running'
  <2>1. ToolTyped' /\ Running' /\ tool'.cmd = "script" /\ tool'.at = tool.at
    BY <1>4, OpenIntoSlot DEF ToolSpecInv, Script
  <2>2. tool.at \in {Lines, Ending, Ended, MountRefused, Aborted}
    BY DEF ToolSpecInv, ToolInv, ScriptInv
  <2> QED
    BY <1>2, <2>1, <2>2, ScriptGoes
<1>5. CASE Fail
  <2>1. tool' = [tool EXCEPT !.at = Ending]
    BY <1>5, NextPosition DEF ToolSpecInv, Script
  <2> QED
    BY <1>1, <2>1, ScriptMoves
<1>6. CASE tool' = [tool EXCEPT !.at = MountRefused] \/ tool' = [tool EXCEPT !.at = Aborted]
  BY <1>1, <1>6, ScriptMoves
<1>7. CASE ScriptEnding /\ tool' = [tool EXCEPT !.at = Ended] /\ UNCHANGED vars
             /\ status # "mounted"
  <2>1. call' = Idle /\ TablesSaved'
    BY <1>7 DEF ToolSpecInv, ToolInv, vars, TablesSaved
  <2> QED
    BY <1>7, <2>1, ScriptMoves
<1> QED
  BY <1>3, <1>4, <1>5, <1>6, <1>7 DEF ScriptCall, ScriptMount, ScriptEnding

LEMMA CallOfScript ==
  ASSUME ToolSpecInv, Script, InLoop \/ Return
  PROVE  ProgramInv' /\ ScriptInv' /\ Running'
<1>1. call # Idle
  BY DEF InLoop, Return, Walk, Extend, Allocated, FreeBlock, WriteAll, FreeLast, UmountRoot,
         WriteShort, Idle
<1>2. tool.at # Ended
  BY <1>1 DEF ToolSpecInv, ToolInv, ScriptInv
<1>3. UNCHANGED tool
  BY DEF InLoop, Return, Script, Program
<1> QED
  BY <1>2, <1>3, ScriptStays

(* A process begins where the volume is not mounted, and when one is over  *)
(* memory goes with it.                                                    *)
LEMMA StartStep ==
  ASSUME ToolSpecInv, Start
  PROVE  ProgramInv' /\ ScriptInv' /\ Running'
<1>1. tool = NoTool /\ UNCHANGED vars
  BY ProcessBegins
<1>2. /\ tool' \in Processes /\ tool'.at = 1
      /\ tool'.cmd \in DOMAIN CallsOf \union {"script"}
  BY ProcessBegins DEF Processes
<1>3. Running'
  BY <1>2, NoToolAssumption DEF Running
<1>4. ToolTyped'
  BY ProcessBegins DEF ToolTyped, Program
<1>5. status = "unmounted" /\ call = Idle /\ TablesSaved
  BY <1>1 DEF ToolSpecInv, ToolInv, Running
<1>6. status' = "unmounted" /\ call' = Idle /\ TablesSaved'
  BY <1>1, <1>5 DEF vars, TablesSaved
<1>7. CASE tool'.cmd = "script"
  <2>1. 1 \in {Lines, Ending, Ended, MountRefused, Aborted} /\ 1 # Ended
    BY DEF Lines, Ended
  <2> QED
    BY <1>2, <1>3, <1>4, <1>7, <2>1, ScriptGoes
<1>8. CASE tool'.cmd # "script"
  <2>1. Program' /\ ~Script'
    BY <1>3, <1>8 DEF Program, Script
  <2>2. LastCall' \in Nat /\ LastCall' >= 2
    BY <1>2, <1>8, SequenceEnds DEF LastCall
  <2>3. /\ tool'.at \in 1 .. LastCall' + 1 /\ ~(tool'.at > LastCall')
        /\ tool'.at \notin 2 .. LastCall' /\ tool'.at # 2 /\ tool'.at # 3 /\ tool'.at # 4
    <3> DEFINE last == LastCall'
               at   == tool'.at
    <3>1. last \in Nat /\ last >= 2 /\ at = 1
      BY <1>2, <2>2
    <3> SUFFICES /\ at \in 1 .. last + 1 /\ ~(at > last)
                 /\ at \notin 2 .. last /\ at # 2 /\ at # 3 /\ at # 4
      OBVIOUS
    <3> HIDE DEF last, at
    <3> QED
      BY <3>1
  <2>4. ProgramInv'
    BY <1>6, <2>1, <2>3 DEF ProgramInv, Idle
  <2> QED
    BY <1>3, <2>1, <2>4 DEF ScriptInv
<1> QED
  BY <1>7, <1>8

LEMMA ToolInvStep ==
  ASSUME ToolSpecInv, [ToolNext]_toolVars
  PROVE  ToolInv'
<1>1. [Next \/ Kill]_vars
  BY ToolTypeStep DEF ToolTypeInv, ToolSpecInv
<1>2. /\ call'.pc = "saving" => disk'.fat = fat'
      /\ status' # "mounted" => call' = Idle /\ TablesSaved'
  BY <1>1, ParkedStep, SavingStep DEF ToolSpecInv, ToolInv
<1>3. ASSUME ProgramInv', ScriptInv', Running'
      PROVE  ToolInv'
  BY <1>2, <1>3 DEF ToolInv
<1>4. CASE ToolMount \/ ToolUmount
  BY <1>3, <1>4, ToolMountStep, ToolUmountStep
<1>5. CASE ToolCreate \/ ToolDelete
  BY <1>3, <1>5, ToolCreateStep, ToolDeleteStep
<1>6. CASE ToolOpen \/ ToolWrite
  BY <1>3, <1>6, ToolOpenStep, ToolWriteStep
<1>7. CASE ToolStat \/ ToolLseek \/ ToolRead \/ ToolClose
  BY <1>3, <1>7, QuietCalls
<1>8. CASE InLoop \/ Return
  <2>1. Running
    <3>1. call # Idle
      BY <1>8 DEF InLoop, Return, Walk, Extend, Allocated, FreeBlock, WriteAll, FreeLast,
                  UmountRoot, WriteShort, Idle
    <3> QED
      BY <3>1 DEF ToolSpecInv, ToolInv
  <2>2. Program \/ Script
    BY <2>1 DEF Program, Script
  <2> QED
    BY <1>3, <1>8, <2>2, LoopOfProgram, ReturnToProgram, CallOfScript
<1>9. CASE ScriptCall \/ ScriptMount \/ ScriptEnding
  <2>1. Script
    BY <1>9 DEF ScriptCall, ScriptMount, ScriptEnding
  <2> QED
    BY <1>3, <1>9, <2>1, ScriptSteps
<1>10. CASE Start
  BY <1>3, <1>10, StartStep
<1>11. CASE Exit \/ Timeout
  <2>1. status' = "unmounted" /\ tool' = NoTool
    BY <1>11 DEF Exit, Timeout, Kill
  <2>2. ~Running' /\ ~Program' /\ ~Script'
    BY <2>1 DEF Running, Program, Script
  <2> QED
    BY <1>2, <2>1, <2>2 DEF ToolInv, ProgramInv, ScriptInv
<1>12. CASE UNCHANGED toolVars
  <2>1. ProgramInv' = ProgramInv
    BY <1>12 DEF toolVars, vars, ProgramInv, Program, Running, LastCall, Idle, CallOfProgram,
                 TablesSaved, Named, FreeBlocks, FreshFiles, FreshWrite, WrittenFirst, LastBlock,
                 TargetBlocks, IsOpen
  <2>2. ScriptInv' = ScriptInv
    BY <1>12 DEF toolVars, vars, ScriptInv, Script, Running, Idle, TablesSaved
  <2>3. Running' = Running /\ status' = status
    BY <1>12 DEF toolVars, vars, Running
  <2> QED
    BY <1>2, <2>1, <2>2, <2>3 DEF ToolSpecInv, ToolInv
<1> QED
  BY <1>4, <1>5, <1>6, <1>7, <1>8, <1>9, <1>10, <1>11, <1>12 DEF ToolNext, ProgramStep

LEMMA ToolInvInit == ToolInit => ToolInv
BY DEF ToolInit, Init, ToolInv, ProgramInv, ScriptInv, Running, Program, Script, TablesSaved

LEMMA ToolInvariant == ToolSpec => []ToolSpecInv
<1>1. ToolInit => ToolSpecInv
  BY ToolTypeInit, ToolInvInit DEF ToolTypeInv, ToolInit, ToolSpecInv
<1>2. ToolSpecInv /\ [ToolNext]_toolVars => ToolSpecInv'
  <2> SUFFICES ASSUME ToolSpecInv, [ToolNext]_toolVars PROVE ToolSpecInv'
    OBVIOUS
  <2>1. ToolTyped' /\ TypeInv' /\ [Next \/ Kill]_vars
    BY ToolTypeStep DEF ToolTypeInv, ToolSpecInv
  <2>2. ToolInv'
    BY ToolInvStep
  <2> QED
    BY <2>1, <2>2 DEF ToolSpecInv
<1> QED
  BY <1>1, <1>2, PTL DEF ToolSpec

(* A process that ends by itself has saved what it changed, on every error *)
(* path and on every disk, but for the cases NothingUnsaved names.         *)
THEOREM ToolsSave == ToolSpec => NothingUnsaved
<1> DEFINE Saved ==
      Exit =>
        \/ fat = disk.fat /\ root = disk.root
        \/ tool.cmd = "script" /\ tool.at \in {MountRefused, Aborted}
        \/ tool.cmd = "simple_writer" /\ FreeBlocks(fat) = {}
<1>1. ToolSpecInv => Saved
  <2> SUFFICES ASSUME ToolSpecInv, Exit
               PROVE  \/ TablesSaved
                      \/ tool.cmd = "script" /\ tool.at \in {MountRefused, Aborted}
                      \/ tool.cmd = "simple_writer" /\ FreeBlocks(fat) = {}
    BY DEF TablesSaved
  <2>1. CASE Script
    <3>1. tool.at >= Ended
      BY <2>1 DEF Exit, AtEnd
    <3>2. tool.at = Ended \/ tool.at \in {MountRefused, Aborted}
      BY <2>1, <3>1 DEF ToolSpecInv, ToolInv, ScriptInv, Lines, Ending, Ended, MountRefused, Aborted
    <3> QED
      BY <2>1, <3>2 DEF ToolSpecInv, ToolInv, ScriptInv, Script
  <2>2. CASE Program
    BY <2>2 DEF Exit, AtEnd, Program, Script, ToolSpecInv, ToolInv, ProgramInv
  <2> QED
    BY <2>1, <2>2 DEF Exit, AtEnd, Program, Script
<1>2. ToolSpecInv => [Saved]_toolVars
  BY <1>1
<1>3. [][Saved]_toolVars <=> NothingUnsaved
  BY DEF NothingUnsaved
<1> QED
  BY <1>2, <1>3, ToolInvariant, PTL
=============================================================================
