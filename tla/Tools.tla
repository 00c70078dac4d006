--------------------------------- MODULE Tools ---------------------------------
(***************************************************************************)
(* The programs that use the library: the commands of apps/test_fs.c and   *)
(* simple_writer.c, simple_reader.c.  Each is a process that makes a fixed *)
(* sequence of calls, or, for "script", any sequence; what each does when  *)
(* a call fails decides whether fs_umount saves the session.  A call is    *)
(* the action of FileSystem of the same name; those with a loop return     *)
(* some steps later.                                                       *)
(***************************************************************************)
EXTENDS FileSystem, Sequences

CONSTANT NoTool

VARIABLE tool  (* The running process: its command, the call it is at, the
                  file name, its descriptor (fs_fd) and a byte count.      *)

toolVars == <<vars, tool>>

(* The calls each command makes if none fails.                             *)
CallsOf == [
  info          |-> <<"mount", "umount">>,
  ls            |-> <<"mount", "umount">>,
  add           |-> <<"mount", "create", "open", "write", "close", "umount">>,
  rm            |-> <<"mount", "delete", "umount">>,
  cat           |-> <<"mount", "open", "stat", "read", "close", "umount">>,
  stat          |-> <<"mount", "open", "stat", "close", "umount">>,
  simple_writer |-> <<"mount", "create", "open", "write", "close", "umount">>,
  simple_reader |-> <<"mount", "open", "lseek", "read", "close", "umount">>]

Asserts == {"simple_writer", "simple_reader"}

Processes == [cmd:   DOMAIN CallsOf \union {"script"},
              at:    Nat,
              name:  Names \union {NoName},
              fd:    Fds,
              count: 0 .. MaxCount]

(* cat reads a file in one call, so the bound on counts has to admit that. *)
ASSUME NoToolAssumption    == NoTool \notin Processes
ASSUME WholeFileAssumption == MaxSize =< MaxCount

(* A script's positions: executing lines, in the fs_umount before its end, *)
(* ended, ended by a MOUNT that was refused, ended by an assertion.        *)
Lines        == 1
Ending       == 2
Ended        == 3
MountRefused == 4
Aborted      == 5

ToolInit == Init /\ tool = NoTool

Begin(cmd, name, count) ==
  /\ tool = NoTool
  /\ tool' = [cmd |-> cmd, at |-> 1, name |-> name, fd |-> 0, count |-> count]
  /\ UNCHANGED vars

(* What a command may have to read or write: add the whole of a host file, *)
(* simple_writer and simple_reader a string they contain.                  *)
CountsOf(cmd) ==
  CASE cmd = "add"       -> 0 .. MaxCount
    [] cmd \in Asserts   -> 1 .. MaxCount
    [] OTHER             -> {0}

Start ==
  \/ \E cmd \in DOMAIN CallsOf, name \in Names : \E count \in CountsOf(cmd) :
       Begin(cmd, name, count)
  \/ Begin("script", NoName, 0)

Running     == tool # NoTool
Program     == Running /\ tool.cmd # "script"
Script      == Running /\ tool.cmd = "script"
LastCall    == Len(CallsOf[tool.cmd])
At(name)    == Program /\ call = Idle /\ tool.at =< LastCall /\ CallsOf[tool.cmd][tool.at] = name

(* What follows a call: the next one; fs_umount, the last one of every     *)
(* command, and die(); or exit(1) at once, where simple_writer and         *)
(* simple_reader assert the result, and after fs_mount in all.  The faulty *)
(* variant of the second forgets fs_umount.                                *)
Advance    == tool' = [tool EXCEPT !.at = @ + 1]
ExitNow    == tool' = [tool EXCEPT !.at = LastCall + 1]
FailNoSave == tool' = [tool EXCEPT !.at = IF tool.cmd = "script" THEN Ended ELSE LastCall + 1]
Fail ==
  tool' = [tool EXCEPT !.at =
    CASE tool.cmd = "script"   -> Ending
      [] tool.cmd \in Asserts  -> LastCall + 1
      [] OTHER                 -> LastCall]

-----------------------------------------------------------------------------
ToolMount ==
  /\ At("mount")
  /\ \/ MountOk /\ Advance
     \/ MountFails /\ ExitNow

(* fs_umount, whose result simple_* ignore, cannot fail once mounted.      *)
ToolUmount == At("umount") /\ Umount /\ UNCHANGED tool

ToolCreate ==
  /\ At("create")
  /\ \/ Create(tool.name) /\ Advance
     \/ /\ Named(tool.name) # {} \/ Named(NoName) = {}
        /\ Fail
        /\ UNCHANGED vars

ToolDelete ==
  /\ At("delete")
  /\ \/ DeleteEmpty(tool.name) /\ Advance
     \/ Delete(tool.name) /\ UNCHANGED tool
     \/ Named(tool.name) = {} /\ Fail /\ UNCHANGED vars

OpenInto(name) ==
  /\ Open(name)
  /\ tool' = [tool EXCEPT !.fd = Least(Fds \ OpenFds),
                          !.at = IF tool.cmd = "script" THEN @ ELSE @ + 1]

ToolOpen ==
  /\ At("open")
  /\ \/ OpenInto(tool.name)
     \/ Named(tool.name) = {} /\ Fail /\ UNCHANGED vars

FileOfTool == root[open_files[tool.fd].file]

(* cat returns on an empty file without closing it, and so without         *)
(* fs_umount; stat closes it first.                                        *)
ToolStat ==
  /\ At("stat")
  /\ IF tool.cmd = "cat" /\ FileOfTool.file_size = 0 THEN ExitNow ELSE Advance
  /\ UNCHANGED vars

(* A seek past the end fails, and simple_reader does not look.             *)
ToolLseek ==
  /\ At("lseek")
  /\ \E offset \in 1 .. MaxSize :
       \/ Lseek(tool.fd, offset)
       \/ offset > FileOfTool.file_size /\ UNCHANGED vars
  /\ Advance

(* The whole of a read of count bytes is in the chain.                     *)
ReadsAll(count) ==
  /\ count > 0
  /\ find_data_block(fat, FileOfTool.first_index,
       find_num_target_blocks(open_files[tool.fd].offset, count) - 1) # FAT_EOC

(* cat asks for as many bytes as the file has; simple_reader asserts that  *)
(* it got all, and what they are.                                          *)
ToolRead ==
  LET count == IF tool.cmd = "cat" THEN FileOfTool.file_size ELSE tool.count IN
  /\ At("read")
  /\ \/ Read(tool.fd, count) /\ (Advance \/ (tool.cmd \in Asserts /\ ExitNow))
     \/ /\ ~ReadsAll(count)
        /\ IF tool.cmd \in Asserts THEN ExitNow ELSE Advance
        /\ UNCHANGED vars

BeginWrite(count) ==
  Write(tool.fd, count) \/ WriteFirstBlock(tool.fd, count) \/ WriteNoBlock(tool.fd, count)

(* fs_write of an empty host file returns 0 at once.                       *)
ToolWrite ==
  /\ At("write")
  /\ \/ tool.count > 0 /\ BeginWrite(tool.count) /\ UNCHANGED tool
     \/ tool.count = 0 /\ Advance /\ UNCHANGED vars

ToolClose == At("close") /\ Close(tool.fd) /\ Advance

-----------------------------------------------------------------------------
(* A script.  A line that fails ends it through fs_umount, and it may      *)
(* always hold one; but a READ that is to be compared with a host file     *)
(* asserts that it could read all of that, and ends the process at once.   *)
ScriptCall ==
  /\ Script /\ tool.at = Lines /\ call = Idle
  /\ \/ \E name \in Names :
          \/ (Create(name) \/ DeleteEmpty(name) \/ Delete(name)) /\ UNCHANGED tool
          \/ OpenInto(name)
     \/ Close(tool.fd) /\ UNCHANGED tool
     \/ \E offset \in 0 .. MaxSize : Lseek(tool.fd, offset) /\ UNCHANGED tool
     \/ \E count \in 1 .. MaxCount :
          (Read(tool.fd, count) \/ BeginWrite(count)) /\ UNCHANGED tool
     \/ Umount /\ UNCHANGED tool
     \/ Fail /\ UNCHANGED vars
     \/ tool' = [tool EXCEPT !.at = Aborted] /\ UNCHANGED vars

(* MOUNT: one that fails ends the script at once, also when it failed      *)
(* because a volume is mounted already.                                    *)
ScriptMount ==
  /\ Script /\ tool.at = Lines /\ call = Idle
  /\ \/ MountOk /\ UNCHANGED tool
     \/ MountFails /\ tool' = [tool EXCEPT !.at = MountRefused]
     \/ status # "unmounted" /\ tool' = [tool EXCEPT !.at = MountRefused] /\ UNCHANGED vars

(* The fs_umount after a line that failed, or after the last line; it does *)
(* nothing when nothing is mounted.                                        *)
ScriptEnding ==
  /\ Script /\ tool.at = Ending /\ call = Idle
  /\ \/ Umount /\ UNCHANGED tool
     \/ status # "mounted" /\ tool' = [tool EXCEPT !.at = Ended] /\ UNCHANGED vars

-----------------------------------------------------------------------------
(* The library call in progress goes on, and returns: add ignores how much *)
(* was written, simple_writer does not.                                    *)
InLoop == (Walk \/ Extend \/ Allocated \/ FreeBlock) /\ UNCHANGED tool

Return ==
  /\ Running
  /\ \/ (WriteAll \/ FreeLast \/ UmountRoot) /\ IF Script THEN UNCHANGED tool ELSE Advance
     \/ WriteShort /\ CASE Script -> UNCHANGED tool
                        [] Program /\ tool.cmd \in Asserts -> ExitNow
                        [] OTHER -> Advance

(* The process ends by itself, or is killed at any moment, say because it  *)
(* took too long: also between the two writes of fs_umount.                *)
AtEnd ==
  /\ Running /\ call = Idle
  /\ IF Script THEN tool.at >= Ended ELSE tool.at > LastCall

Exit == AtEnd /\ Kill /\ tool' = NoTool

Timeout == Running /\ Kill /\ tool' = NoTool

ProgramStep ==
  \/ ToolMount \/ ToolUmount \/ ToolCreate \/ ToolDelete \/ ToolOpen \/ ToolStat
  \/ ToolLseek \/ ToolRead \/ ToolWrite \/ ToolClose
  \/ InLoop \/ Return \/ Exit

ToolNext ==
  \/ Start
  \/ ProgramStep
  \/ ScriptCall \/ ScriptMount \/ ScriptEnding
  \/ Timeout

(* A process that has started goes on.                                     *)
ToolSpec == ToolInit /\ [][ToolNext]_toolVars /\ WF_toolVars(ProgramStep)

-----------------------------------------------------------------------------
(* A process that ends by itself has saved what it changed, on every error *)
(* path and on cat's early return, whatever disk it was given, one left by *)
(* a save that was cut off included.  There are three exceptions: a script *)
(* with a second MOUNT while mounted, one whose READ asserts, and          *)
(* simple_writer when its write falls short, which happens only on a full  *)
(* disk.                                                                   *)
NothingUnsaved ==
  [][Exit =>
       \/ fat = disk.fat /\ root = disk.root
       \/ tool.cmd = "script" /\ tool.at \in {MountRefused, Aborted}
       \/ tool.cmd = "simple_writer" /\ FreeBlocks(fat) = {}]_toolVars

ToolTyped ==
  /\ tool \in Processes \union {NoTool}
  /\ Program => tool.name \in Names

(* Why that is so.  Between processes, and in one that has not mounted the *)
(* volume or is done with it, memory is as the disk is; a command that has *)
(* none of the calls that write keeps it so, and the others reach          *)
(* fs_umount, which alone of their calls comes last.                       *)
TablesSaved == fat = disk.fat /\ root = disk.root

ReadsOnly == {"info", "ls", "cat", "stat", "simple_reader"}

CallOfProgram ==
  CASE call.pc \in {"alloc", "xfer"} -> "write"
    [] call.pc = "free"              -> "delete"
    [] OTHER                         -> "umount"

(* simple_writer writes to the file it has just created.  It has no block; *)
(* those the running write has given it were free, and lead to the last    *)
(* one.  So it needs nothing of the rest of the volume, which may be what  *)
(* a torn save has left, to know that a short write means a full disk.     *)
FreshFiles(S) == \A i \in S : root[i].first_index = FAT_EOC

WrittenFirst == root[open_files[call.arg].file].first_index

FreshWrite ==
  CASE call.pc = "alloc" ->
         /\ call.count > 0 /\ call.have > 0
         /\ \A n \in 0 .. call.have - 1 : find_data_block(fat, WrittenFirst, n) \in DataBlocks
         /\ call.block = find_data_block(fat, WrittenFirst, call.have - 1)
         /\ fat[call.block] = FAT_EOC
    [] call.pc = "xfer" -> LastBlock = FAT_EOC => FreeBlocks(fat) = {}
    [] OTHER -> IsOpen(tool.fd) /\ FreshFiles({open_files[tool.fd].file})

ProgramInv ==
  Program =>
    /\ tool.at \in 1 .. LastCall + 1
    /\ tool.at = 1 => status = "unmounted"
    /\ tool.at \in 2 .. LastCall => status = "mounted"
    /\ call # Idle => tool.at =< LastCall /\ CallsOf[tool.cmd][tool.at] = CallOfProgram
    /\ tool.cmd \in ReadsOnly => TablesSaved
    /\ tool.cmd = "simple_writer" =>
         /\ tool.at = 2 => TablesSaved
         /\ tool.at = 3 => Named(tool.name) # {} /\ FreshFiles(Named(tool.name))
         /\ tool.at = 4 => FreshWrite
    /\ tool.at > LastCall =>
         TablesSaved \/ (tool.cmd = "simple_writer" /\ FreeBlocks(fat) = {})

ScriptInv ==
  Script =>
    /\ tool.at \in {Lines, Ending, Ended, MountRefused, Aborted}
    /\ tool.at = Ended => call = Idle /\ TablesSaved

ToolInv ==
  /\ call.pc = "saving" => disk.fat = fat
  /\ status # "mounted" => call = Idle /\ TablesSaved
  /\ ~Running => status = "unmounted"
  /\ ProgramInv
  /\ ScriptInv

(* Every command but script ends, whatever earlier ones, scripts and       *)
(* processes killed inside fs_umount included, have left on the disk: rm,  *)
(* whose loop stops at the reserved entry that fs_mount has just seen      *)
(* intact, and add and simple_writer, whose only write is to the file they *)
(* have just created, so that it never walks a chain found on the disk.    *)
CommandsEnd == Program ~> ~Program
=============================================================================
