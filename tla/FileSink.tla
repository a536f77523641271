------------------------------ MODULE FileSink ------------------------------
(***************************************************************************)
(* The FileSink (daemon/src/sinks/file_sink.cpp): a data file and a log    *)
(* file that grow by a line per event, are rotated by size and once a day, *)
(* and are removed when they have not been written for a period.  Time is  *)
(* in seconds, the resolution of a file's name.  Every operation holds     *)
(* m_mutex; a write is two steps, since the process may crash between the  *)
(* line and the flush.  Files fail: opening, writing (a full disk), reading *)
(* a file's age, removing it.  A line is written whole or not at all, and  *)
(* what the system has accepted is on the disk.                            *)
(***************************************************************************)
EXTENDS Integers, Sequences, FiniteSets

CONSTANTS
    RotationPeriod,   \* m_logrotate_period
    SizeLimit,        \* 1024 * 1024 * m_fileSizeMB, in lines
    DayLength,        \* a day
    DailyUploadTime,  \* dailyUploadTime, as an offset into the day
    MaxSuffix,        \* names resolveUniquePaths tries (1000 in the code)
    MaxStarts,        \* bound: how often the daemon starts
    MaxLines,         \* bound: lines written
    MaxFileTime,      \* bound: seconds
    MaxFileFaults     \* bound: steps in which an operation on a file fails

ASSUME FileSinkAssumption ==
    /\ {RotationPeriod, SizeLimit, MaxStarts, MaxLines, MaxFileTime, MaxFileFaults} \subseteq Nat
    /\ MaxSuffix \in Nat \ {0} /\ DayLength \in Nat \ {0}
    /\ SizeLimit > 0    \* the headers, which are not modelled, do not fill a file
    /\ DailyUploadTime \in 0..(DayLength - 1)

VARIABLES
    disk,           \* what is in the data folder: files with their lines
    config,         \* currentWorkingFileInformation.conf, the paths in it
    currentPaths,   \* currentWorkingFilePath and currentWorkingLogPath
    openFiles,      \* which of dataFile and logFile are open
    buffered,       \* the lines in the buffers of dataFile and logFile
    badStreams,     \* the open streams whose badbit is set
    writing,        \* the file a line is being written to, if any
    nextRotation,   \* nextRotationTime
    fileClock,      \* system_clock::now
    starts,         \* how often the daemon has started
    removal,        \* history: the last removeOldFiles(), and what went wrong in it
    home,           \* history: for each line accepted so far, the file that was open for it
    failed,         \* history: <<file, line>>, the line with which writing to the file failed
    cut,            \* history: <<line, start>>, the lines a crash came upon half-way
    expired,        \* history: <<file, age>>, the removed files
    faults          \* history: steps in which an operation on a file failed

historyVars == <<removal, home, failed, cut, expired>>
fileVars == <<disk, config, currentPaths, openFiles, buffered, badStreams, writing, nextRotation,
              fileClock, starts, historyVars, faults>>

Kinds == {"data", "log"}
NoPath == [kind |-> "data", second |-> -1, suffix |-> 0, quoted |-> FALSE]
lines == Len(home)          \* lines are numbered

(* generateNextDailyTime: the first one after now *)
generateNextDailyTime(now) ==
    CHOOSE t \in (now + 1)..(now + DayLength) : t % DayLength = DailyUploadTime

(* makeBasePaths, createFileName: suffix 0 is ".dat", n + 1 is ".dat.n" *)
makePath(kind, n) ==
    [kind |-> kind, second |-> fileClock, suffix |-> n, quoted |-> FALSE]

(* resolveUniquePaths: the first suffix with which neither file exists; the *)
(* last one is taken untried                                                *)
UniqueSuffix(files) ==
    LET Free(n) == \A kind \in Kinds : makePath(kind, n) \notin DOMAIN files
        free == {n \in 0..(MaxSuffix - 1) : Free(n)}
    IN  IF free = {} THEN MaxSuffix ELSE CHOOSE n \in free : \A m \in free : n <= m

resolveUniquePaths(files) ==
    [kind \in Kinds |-> makePath(kind, UniqueSuffix(files))]

(* writeConfigFile streams std::filesystem::paths, and operator<< puts them *)
(* in quotation marks, which readConfigFile takes for part of the path      *)
Quoted(paths) == {[paths[kind] EXCEPT !.quoted = TRUE] : kind \in Kinds}

(* readConfigFile: only ".dat" files are collected *)
Listed(files) == {f \in DOMAIN files : f.suffix = 0}

(* a file's age is not looked at *)
AllOtherFiles(files) == Listed(files) \ config

(* removeOldFiles, with the current paths that readConfigFile has just set *)
OldFiles(files) ==
    {f \in Listed(files) \ config : fileClock - files[f].written > RotationPeriod}

(* what removeOldFiles removes: a file whose time cannot be read is passed   *)
(* over, and after the first that cannot be removed, in the order of the    *)
(* directory, nothing more is                                               *)
Removals(files, unreadable, stubborn) ==
    LET old == OldFiles(files) \ unreadable
    IN  IF stubborn = {} THEN {old} ELSE SUBSET (old \ stubborn)

Without(files, gone) == [f \in DOMAIN files \ gone |-> files[f]]

(* the buffers of some streams go to their files *)
Flushed(kinds) ==
    [f \in DOMAIN disk |->
        LET text == UNION {buffered[kind] : kind \in {k \in kinds : f = currentPaths[k]}}
        IN  IF text = {} THEN disk[f]
            ELSE [disk[f] EXCEPT !.lines = @ \cup text, !.written = fileClock]]

(* openFilesAtPaths in append mode; opening may fail for either file *)
OpenedAt(files, paths, opened) ==
    LET touched == {paths[kind] : kind \in opened}
    IN  [f \in DOMAIN files \cup touched |->
            IF f \notin touched THEN files[f]
            ELSE IF f \in DOMAIN files
                 THEN [files[f] EXCEPT !.reopened = TRUE]
                 ELSE [lines |-> {}, written |-> fileClock, reopened |-> FALSE]]

(* openFiles, and the end of rotateFiles, which begins the files with a     *)
(* header if both are open; to write it may fail, too                       *)
Started(files, opened, writeHeader) ==
    LET paths == resolveUniquePaths(files)
    IN  /\ currentPaths' = paths
        /\ config' = Quoted(paths)
        /\ openFiles' = opened
        /\ disk' = OpenedAt(files, paths, opened)
        /\ buffered' = [kind \in Kinds |-> {}]
        /\ badStreams' \in IF writeHeader /\ opened = Kinds THEN SUBSET Kinds ELSE {{}}
        /\ failed' = failed \cup {<<paths[kind], lines + 1>> : kind \in badStreams'}
        /\ nextRotation' = generateNextDailyTime(fileClock)

FileInit ==
    /\ fileClock = 0 /\ starts = 0 /\ faults = 0
    /\ disk = <<>> /\ config = {} /\ openFiles = {}
    /\ buffered = [kind \in Kinds |-> {}] /\ badStreams = {} /\ writing = "none"
    /\ currentPaths = [kind \in Kinds |-> NoPath]
    /\ nextRotation = generateNextDailyTime(0)
    /\ home = <<>> /\ failed = {} /\ cut = {} /\ expired = {}
    /\ removal = [at |-> -1, unreadable |-> {}, stopped |-> FALSE]

(* The daemon starts, after it was stopped, which closes the files, or after *)
(* a crash.  Closing tries once more what a failed write left in a buffer;  *)
(* a crash takes it along, and the line that was being written.             *)
Stop(opened) ==
    /\ writing = "none"
    /\ \E rescued \in SUBSET badStreams : Started(Flushed(rescued), opened, FALSE)
    /\ UNCHANGED <<writing, cut>>
Crash(opened) ==
    /\ Started(disk, opened, FALSE)
    /\ writing' = "none"
    /\ cut' = cut \cup IF writing = "none" THEN {} ELSE {<<lines, starts>>}
Restart ==
    /\ starts < MaxStarts
    /\ starts' = starts + 1
    /\ \E opened \in SUBSET Kinds : Stop(opened) \/ Crash(opened)
    /\ UNCHANGED <<fileClock, removal, home, expired>>

(* writeToDataFile, writeToLogFile: a line for a file that is not open is   *)
(* dropped with a warning, one for a stream that has failed without         *)
writeToFile(kind) ==
    /\ writing = "none" /\ kind \in openFiles /\ lines < MaxLines
    /\ writing' = kind
    /\ home' = Append(home, currentPaths[kind])
    /\ buffered' = IF kind \in badStreams THEN buffered
                   ELSE [buffered EXCEPT ![kind] = @ \cup {lines + 1}]
    /\ UNCHANGED <<disk, config, currentPaths, openFiles, badStreams, nextRotation, fileClock, starts,
                   removal, failed, cut, expired>>

(* publishInfoUnlocked, with which every write ends, flushes both streams;  *)
(* one that has failed stays as it is                                       *)
publishInfoUnlocked ==
    LET pending == {kind \in openFiles \ badStreams : buffered[kind] # {}}
    IN  /\ writing # "none"
        /\ writing' = "none"
        /\ \E fails \in SUBSET pending :
              /\ disk' = Flushed(pending \ fails)
              /\ buffered' = [kind \in Kinds |-> IF kind \in pending \ fails THEN {} ELSE buffered[kind]]
              /\ badStreams' = badStreams \cup fails
              /\ failed' = failed \cup {<<currentPaths[kind], lines>> : kind \in fails}
        /\ UNCHANGED <<config, currentPaths, openFiles, nextRotation, fileClock, starts, removal, home,
                       cut, expired>>

rotateFiles(opened) ==
    \E rescued \in SUBSET badStreams :
        LET files == Flushed(rescued)
        IN  \E unreadable \in SUBSET OldFiles(files) :
            \E stubborn \in SUBSET (OldFiles(files) \ unreadable) :
            \E gone \in Removals(files, unreadable, stubborn) :
                /\ Started(Without(files, gone), opened, TRUE)
                /\ removal' = [at |-> fileClock, unreadable |-> unreadable, stopped |-> stubborn # {}]
                /\ expired' = expired \cup {<<f, fileClock - files[f].written>> : f \in gone}
                /\ UNCHANGED <<writing, fileClock, starts, home, cut>>

(* onRotationRemind: a rotation by size moves the daily one into the future *)
(* and leaves empty files, so there is at most one                          *)
TooLarge(kind) ==
    /\ currentPaths[kind] \in DOMAIN disk
    /\ Cardinality(disk[currentPaths[kind]].lines) > SizeLimit

onRotationRemind ==
    /\ writing = "none"
    /\ fileClock >= nextRotation \/ \E kind \in Kinds : TooLarge(kind)
    /\ \E opened \in SUBSET Kinds : rotateFiles(opened)

FileTick ==
    /\ fileClock < MaxFileTime
    /\ fileClock' = fileClock + 1
    /\ UNCHANGED <<disk, config, currentPaths, openFiles, buffered, badStreams, writing, nextRotation,
                   starts, historyVars>>

FileStep ==
    \/ Restart \/ onRotationRemind \/ FileTick \/ publishInfoUnlocked
    \/ \E kind \in Kinds : writeToFile(kind)

\* An open, a write, a look at a file's age or a removal has failed.
FileFault ==
    \/ failed' # failed
    \/ openFiles' # Kinds /\ (starts' # starts \/ removal' # removal)
    \/ removal' # removal /\ (removal'.stopped \/ removal'.unreadable # {})

FileNext ==
    /\ FileStep
    /\ faults' = faults + IF FileFault THEN 1 ELSE 0
    /\ faults' <= MaxFileFaults

FileSpec == FileInit /\ [][FileNext]_fileVars

----------------------------------------------------------------------------
(* What was measured is kept: every accepted line that is not being written *)
(* is in the file that was open for it, unless writing to that file failed  *)
(* with this line or an earlier one (the stream then takes no more until    *)
(* the files are closed), or a crash came upon it half-way, or the file was *)
(* removed after nobody had written to it for longer than the rotation      *)
(* period.  No line is in another file, and a crash cuts off one line at    *)
(* most.                                                                    *)
InItsFile(l) == home[l] \in DOMAIN disk /\ l \in disk[home[l]].lines
BeingWritten(l) == l = lines /\ writing # "none"
AfterFailure(l) == \E n \in 1..l : <<home[l], n>> \in failed
CutOff(l) == \E c \in cut : c[1] = l
OfAge(f) == \E age \in (RotationPeriod + 1)..MaxFileTime : <<f, age>> \in expired

LinesReachTheirFile ==
    /\ \A l \in 1..lines : InItsFile(l) \/ BeingWritten(l) \/ AfterFailure(l) \/ CutOff(l) \/ OfAge(home[l])
    /\ \A f \in DOMAIN disk : \A l \in disk[f].lines : home[l] = f
    /\ \A c, d \in cut : c[2] = d[2] => c = d

(* A file that is open is on the disk and was opened once, so restarts and  *)
(* rotations never append to an older file (but for the last suffix, which  *)
(* is taken untried).  The ".dat" files that the last rotation found too    *)
(* old are gone, but for those whose age it could not read, unless one      *)
(* could not be removed, which spares others with it (line 384).            *)
FilesAreInOrder ==
    /\ \A kind \in openFiles : currentPaths[kind] \in DOMAIN disk
    /\ \A f \in DOMAIN disk : f.suffix < MaxSuffix => ~disk[f].reopened
    /\ \A f \in Listed(disk) :
          removal.at - disk[f].written > RotationPeriod => removal.stopped \/ f \in removal.unreadable

LinesAreKept == LinesReachTheirFile /\ FilesAreInOrder
============================================================================
