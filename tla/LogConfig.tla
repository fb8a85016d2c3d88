----------------------------- MODULE LogConfig -----------------------------
(***************************************************************************)
(* The loggers (vity/log.h, vity/log.cc) and how the variable "logs" of    *)
(* the configuration sets them up: threads log, the program changes the    *)
(* loggers it set up by hand, and one thread reloads the configuration.    *)
(* A logger takes a pattern if the parser of LogPattern has no error.      *)
(*                                                                         *)
(* Every call that takes the Spinlock of a logger is a step; the listener  *)
(* of "logs" makes many of them, and other threads log in between.  Levels *)
(* are read and written without a lock.  Logger::log keeps the lock of its *)
(* logger while it waits for that of the root logger.                      *)
(*                                                                         *)
(* Outside the model: what is written, and the locks of the appenders,     *)
(* each taken last of all and for an assignment or a line.  An appender is *)
(* in the list of one logger.  No formatter the program gives is null.     *)
(***************************************************************************)
EXTENDS LogPattern, FiniteSetsExt, SequencesExt

CONSTANTS
    Threads,       (* the threads that log                                 *)
    Names,         (* names of loggers                                     *)
    Root,          (* "root"                                               *)
    ByHand,        (* the loggers the program changes itself               *)
    Documents,     (* what "logs" may be loaded from                       *)
    Dests, Stdout, (* where appenders write; Stdout is one of the dests    *)
    Patterns,      (* what is given to LogFormatter                        *)
    Default,       (* the pattern of the constructor of Logger             *)
    MaxLevel,      (* FATAL                                                *)
    MaxAppenders,  (* bound: appenders the program adds to a logger        *)
    None

UNKNOW == 0
DEBUG  == 1
Levels == 0..MaxLevel

(* Those LogFormatter parses without an error. *)
ValidPatterns == {p \in Patterns : ~Parse(p).error}

(* An entry as it is written; a missing name, formatter, file or type, or  *)
(* a type there is none of, is None.  UNKNOW is written as no level, and   *)
(* no level is read as UNKNOW.                                             *)
Entry == [name : Names \cup {None}, level : Levels, formatter : Patterns \cup {None},
          appenders : Seq([dest : Dests \cup {None}, level : Levels,
                           formatter : Patterns \cup {None}])]

ASSUME LogAssumption ==
    /\ Root \in Names /\ ByHand \subseteq Names
    /\ Documents \subseteq Seq(Entry)
    /\ Stdout \in Dests
    /\ Patterns \subseteq Seq(Char) /\ Default \in ValidPatterns
    /\ MaxLevel \in Nat \ {0}
    /\ MaxAppenders \in Nat
    /\ None \notin Names \cup Dests \cup Patterns

VARIABLES
    m_val,       (* of g_log_defines: name to LogDefine                    *)
    m_loggers,   (* LogManager: the names of the loggers there are         *)
    m_level,     (* of each logger                                         *)
    m_formatter,
    m_appenders, (* a list of appenders                                    *)
    msg,         (* of each thread: the message it is logging              *)
    job,         (* the call of the listener of "logs"                     *)
    crashed,     (* the listener has used a null pointer                   *)
    lost,        (* history: the levels of the messages that passed the    *)
                 (* level of their logger and came to no appender, its own *)
                 (* or the root's                                          *)
    emptied,     (* history: the root logger has been without appenders    *)
    top          (* history: the highest level the root logger has had     *)

loggerVars == <<m_level, m_formatter, m_appenders>>
vars == <<m_val, m_loggers, loggerVars, msg, job, crashed, lost, emptied, top>>

Appender == [dest : Dests, level : Levels, formatter : Patterns \cup {None}]
Define   == [level : Levels, formatter : Patterns \cup {None},
             appenders : Seq(Appender)]
IsValue(v) == DOMAIN v \subseteq Names /\ v \in [DOMAIN v -> Define]

Message == [at : {"none", "lock", "root"}, name : Names, level : Levels]
Silent  == [at |-> "none", name |-> Root, level |-> UNKNOW]

(* todo, gone: entries of the new and of the old value still to be looked  *)
(* at; name, left: the logger at hand and the appenders it is still to get.*)
Stage == {"ready", "next", "level", "format", "clear", "add", "wipe"}
Idle == [at |-> "ready", new |-> <<>>, todo |-> {}, gone |-> {}, name |-> Root, left |-> <<>>]

(* Wrong on purpose, to show what the properties are about. *)
KeepsList(n)          == UNCHANGED <<m_appenders, emptied>>
WithoutDefault(n, ap) == ap
NoRoot(n)             == FALSE
AnyPattern(p)         == TRUE
NeverHas(ap)          == FALSE

-----------------------------------------------------------------------------
(* Helpers *)

(* The lock of a logger is held, for longer than a step, by a message that *)
(* waits for the root logger's.                                            *)
Free(n) == \A t \in Threads : ~(msg[t].at = "root" /\ msg[t].name = n)

SetList(n, list) ==
    /\ m_appenders' = [m_appenders EXCEPT ![n] = list]
    /\ emptied' = (emptied \/ (n = Root /\ list = <<>>))

(* Logger::clearAppenders. *)
ClearList(n) == SetList(n, <<>>)

(* Logger::setLevel. *)
GiveLevel(n, l) ==
    /\ m_level' = [m_level EXCEPT ![n] = l]
    /\ top' = IF n = Root /\ l > top THEN l ELSE top

(* LogManager::getLogger: found, or made with what Init gives it. *)
Obtain(n) == m_loggers' = m_loggers \cup {n}

(* Logger::addAppender: one without a formatter gets the logger's. *)
Outfitted(n, ap) ==
    IF ap.formatter = None THEN [ap EXCEPT !.formatter = m_formatter[n]] ELSE ap

(* LogFormatter::isError() of the formatter made of a pattern. *)
IsPattern(p) == ~Parse(p).error

(* Logger::setFormatter of a formatter: the appenders that have one get    *)
(* it too, whether they were given theirs or not.  Nothing is tested.      *)
Install(n, p) ==
    /\ m_formatter' = [m_formatter EXCEPT ![n] = p]
    /\ m_appenders' = [m_appenders EXCEPT ![n] =
            [i \in DOMAIN @ |-> IF @[i].formatter = None THEN @[i]
                                ELSE [@[i] EXCEPT !.formatter = p]]]

(* Logger::setFormatter of a pattern: one in error leaves everything as it *)
(* is.                                                                     *)
Reformat(n, p) ==
    IF IsPattern(p) THEN Install(n, p) ELSE UNCHANGED <<m_formatter, m_appenders>>

(* LexicalCast<string, set<LogDefine>>, the appenders of an entry: those   *)
(* without a type or a file are left out, only a file appender has its     *)
(* formatter read, and none its level.                                     *)
Read(a) ==
    [dest |-> a.dest, level |-> UNKNOW,
     formatter |-> IF a.dest = Stdout THEN None ELSE a.formatter]

Readable(list) ==
    LET read[i \in 0..Len(list)] ==
            IF i = 0 THEN <<>>
            ELSE IF list[i].dest = None THEN read[i - 1]
            ELSE Append(read[i - 1], Read(list[i]))
    IN  read[Len(list)]

(* The entries: those without a name are left out, and of two with one     *)
(* name the first counts.                                                  *)
Convert(doc) ==
    LET named == {i \in DOMAIN doc : doc[i].name # None}
    IN  [n \in {doc[i].name : i \in named} |->
            LET d == doc[Min({i \in named : doc[i].name = n})]
            IN  [level |-> d.level, formatter |-> d.formatter,
                 appenders |-> Readable(d.appenders)]]

(* m_hasFormatter: set and reset with m_formatter. *)
HasFormatter(ap) == ap.formatter # None

(* The toYamlString of an appender. *)
AppenderText(ap) == [ap EXCEPT !.formatter = IF HasFormatter(ap) THEN @ ELSE None]

(* Logger::toYamlString of each logger there is. *)
Text(n) == [name |-> n, level |-> m_level[n], formatter |-> m_formatter[n],
            appenders |-> [i \in DOMAIN m_appenders[n] |-> AppenderText(m_appenders[n][i])]]

(* LogManager::toYamlString. *)
LoggersText == SetToSeq({Text(n) : n \in m_loggers})

(* LexicalCast<set<LogDefine>, string>: an entry's formatter is written if *)
(* it is empty, and lost if it is not; appenders keep theirs.              *)
ValueText(v) ==
    SetToSeq({[name |-> n, level |-> v[n].level, formatter |-> None,
               appenders |-> v[n].appenders] : n \in DOMAIN v})

(* LogDefine::operator==, which compares the appenders with themselves. *)
SameDefine(x, y) == x.level = y.level /\ x.formatter = y.formatter

SameValue(v, w) == DOMAIN v = DOMAIN w /\ \A n \in DOMAIN v : SameDefine(v[n], w[n])

-----------------------------------------------------------------------------
(* Logging *)

(* VITY_LOG_LEVEL and Logger::log up to the lock: the level is tested. *)
Event(t, n, l) ==
    /\ msg[t].at = "none"
    /\ n \in m_loggers
    /\ l >= m_level[n]
    /\ msg' = [msg EXCEPT ![t] = [at |-> "lock", name |-> n, level |-> l]]
    /\ UNCHANGED <<m_val, m_loggers, loggerVars, job, crashed, lost, emptied, top>>

(* A logger other than the root hands what it has no appender for to it. *)
HasRoot(n) == n # Root

(* Under the lock: the appenders, if there is one, or the root logger,     *)
(* which drops a message below its own level.                              *)
Log(t) ==
    LET n == msg[t].name
        bare == m_appenders[n] = <<>>
    IN  /\ msg[t].at = "lock"
        /\ Free(n)
        /\ msg' = [msg EXCEPT ![t] = IF bare /\ HasRoot(n) /\ msg[t].level >= m_level[Root]
                                     THEN [@ EXCEPT !.at = "root"] ELSE Silent]
        /\ lost' = IF bare /\ msg'[t] = Silent THEN lost \cup {msg[t].level} ELSE lost
        /\ UNCHANGED <<m_val, m_loggers, loggerVars, job, crashed, emptied, top>>

(* The root logger, with the lock of the first still held. *)
LogRoot(t) ==
    /\ msg[t].at = "root"
    /\ Free(Root)
    /\ msg' = [msg EXCEPT ![t] = Silent]
    /\ lost' = IF m_appenders[Root] = <<>> THEN lost \cup {msg[t].level} ELSE lost
    /\ UNCHANGED <<m_val, m_loggers, loggerVars, job, crashed, emptied, top>>

-----------------------------------------------------------------------------
(* The program changes a logger by hand *)

GetLogger(n) ==
    /\ n \notin m_loggers
    /\ Obtain(n)
    /\ UNCHANGED <<m_val, loggerVars, msg, job, crashed, lost, emptied, top>>

AddAppender(n, ap) ==
    /\ n \in ByHand \cap m_loggers /\ Free(n)
    /\ Len(m_appenders[n]) < MaxAppenders
    /\ SetList(n, Append(m_appenders[n], Outfitted(n, ap)))
    /\ UNCHANGED <<m_val, m_loggers, m_level, m_formatter, msg, job, crashed, lost, top>>

DelAppender(n, i) ==
    /\ n \in ByHand \cap m_loggers /\ Free(n)
    /\ i \in DOMAIN m_appenders[n]
    /\ SetList(n, RemoveAt(m_appenders[n], i))
    /\ UNCHANGED <<m_val, m_loggers, m_level, m_formatter, msg, job, crashed, lost, top>>

ClearAppenders(n) ==
    /\ n \in ByHand \cap m_loggers /\ Free(n)
    /\ ClearList(n)
    /\ UNCHANGED <<m_val, m_loggers, m_level, m_formatter, msg, job, crashed, lost, top>>

SetLevel(n, l) ==
    /\ n \in ByHand \cap m_loggers
    /\ GiveLevel(n, l)
    /\ UNCHANGED <<m_val, m_loggers, m_formatter, m_appenders, msg, job, crashed, lost, emptied>>

(* Any formatter, one in error too: its pattern is not looked at. *)
SetFormatter(n, p) ==
    /\ n \in ByHand \cap m_loggers /\ Free(n)
    /\ Install(n, p)
    /\ UNCHANGED <<m_val, m_loggers, m_level, msg, job, crashed, lost, emptied, top>>

SetPattern(n, p) ==
    /\ n \in ByHand \cap m_loggers /\ Free(n)
    /\ Reformat(n, p)
    /\ UNCHANGED <<m_val, m_loggers, m_level, msg, job, crashed, lost, emptied, top>>

(* LogAppender::setFormatter and setLevel, on an appender in the list. *)
FormatAppender(n, i, p) ==
    /\ n \in ByHand \cap m_loggers
    /\ i \in DOMAIN m_appenders[n]
    /\ m_appenders' = [m_appenders EXCEPT ![n][i].formatter = p]
    /\ UNCHANGED <<m_val, m_loggers, m_level, m_formatter, msg, job, crashed, lost, emptied, top>>

LevelAppender(n, i, l) ==
    /\ n \in ByHand \cap m_loggers
    /\ i \in DOMAIN m_appenders[n]
    /\ m_appenders' = [m_appenders EXCEPT ![n][i].level = l]
    /\ UNCHANGED <<m_val, m_loggers, m_level, m_formatter, msg, job, crashed, lost, emptied, top>>

-----------------------------------------------------------------------------
(* The listener of "logs", called by setValue before it assigns *)

Reload(doc) ==
    LET new == Convert(doc)
    IN  /\ job.at = "ready"
        /\ ~SameValue(new, m_val)
        /\ job' = [Idle EXCEPT !.at = "next", !.new = new, !.todo = DOMAIN new,
                               !.gone = DOMAIN m_val \ DOMAIN new]
        /\ UNCHANGED <<m_val, m_loggers, loggerVars, msg, crashed, lost, emptied, top>>

(* An entry that is new or has changed: its logger, made if need be. *)
TakeEntry(n) ==
    /\ job.at = "next" /\ n \in job.todo
    /\ n \in DOMAIN m_val => ~SameDefine(job.new[n], m_val[n])
    /\ Obtain(n)
    /\ job' = [job EXCEPT !.at = "level", !.name = n, !.todo = @ \ {n}]
    /\ UNCHANGED <<m_val, loggerVars, msg, crashed, lost, emptied, top>>

(* For one that has not the pointer stays null, and is used. *)
UseNull(n) ==
    /\ job.at = "next" /\ n \in job.todo
    /\ n \in DOMAIN m_val /\ SameDefine(job.new[n], m_val[n])
    /\ crashed' = TRUE
    /\ UNCHANGED <<m_val, m_loggers, loggerVars, msg, job, lost, emptied, top>>

TakeLevel ==
    /\ job.at = "level"
    /\ GiveLevel(job.name, job.new[job.name].level)
    /\ job' = [job EXCEPT !.at = "format"]
    /\ UNCHANGED <<m_val, m_loggers, m_formatter, m_appenders, msg, crashed, lost, emptied>>

TakeFormatter ==
    /\ job.at = "format"
    /\ IF job.new[job.name].formatter = None
       THEN UNCHANGED <<m_formatter, m_appenders>>
       ELSE Free(job.name) /\ Reformat(job.name, job.new[job.name].formatter)
    /\ job' = [job EXCEPT !.at = "clear", !.left = job.new[job.name].appenders]
    /\ UNCHANGED <<m_val, m_loggers, m_level, msg, crashed, lost, emptied, top>>

ClearOld ==
    /\ job.at = "clear" /\ Free(job.name)
    /\ ClearList(job.name)
    /\ job' = [job EXCEPT !.at = IF job.left = <<>> THEN "next" ELSE "add"]
    /\ UNCHANGED <<m_val, m_loggers, m_level, m_formatter, msg, crashed, lost, top>>

(* A new appender, private to the listener until it is in the list. *)
AddNew ==
    LET a  == Head(job.left)
        p  == IF a.formatter # None /\ IsPattern(a.formatter) THEN a.formatter ELSE None
        ap == [dest |-> a.dest, level |-> a.level, formatter |-> p]
    IN  /\ job.at = "add" /\ Free(job.name)
        /\ SetList(job.name, Append(m_appenders[job.name], Outfitted(job.name, ap)))
        /\ job' = [job EXCEPT !.at = IF Len(job.left) = 1 THEN "next" ELSE "add",
                              !.left = Tail(@)]
        /\ UNCHANGED <<m_val, m_loggers, m_level, m_formatter, msg, crashed, lost, top>>

(* An entry that is no longer there: its logger passes everything on to    *)
(* the root logger.                                                        *)
DropEntry(n) ==
    /\ job.at = "next" /\ job.todo = {} /\ n \in job.gone
    /\ GiveLevel(n, UNKNOW)
    /\ job' = [job EXCEPT !.at = "wipe", !.name = n, !.gone = @ \ {n}]
    /\ UNCHANGED <<m_val, m_loggers, m_formatter, m_appenders, msg, crashed, lost, emptied>>

WipeOld ==
    /\ job.at = "wipe" /\ Free(job.name)
    /\ ClearList(job.name)
    /\ job' = [job EXCEPT !.at = "next"]
    /\ UNCHANGED <<m_val, m_loggers, m_level, m_formatter, msg, crashed, lost, top>>

(* The listener returns and setValue assigns. *)
Assign ==
    /\ job.at = "next" /\ job.todo = {} /\ job.gone = {}
    /\ m_val' = job.new
    /\ job' = Idle
    /\ UNCHANGED <<m_loggers, loggerVars, msg, crashed, lost, emptied, top>>

-----------------------------------------------------------------------------
(* Specification *)

Init ==
    /\ m_val = <<>>
    /\ m_loggers = {Root}
    /\ m_level = [n \in Names |-> DEBUG]
    /\ m_formatter = [n \in Names |-> Default]
    /\ m_appenders = [n \in Names |->
            IF n = Root THEN <<[dest |-> Stdout, level |-> DEBUG, formatter |-> Default]>>
            ELSE <<>>]
    /\ msg = [t \in Threads |-> Silent]
    /\ job = Idle
    /\ crashed = FALSE /\ lost = {} /\ emptied = FALSE /\ top = DEBUG

Logging ==
    \E t \in Threads :
        \/ \E n \in Names, l \in DEBUG..MaxLevel : Event(t, n, l)
        \/ Log(t)
        \/ LogRoot(t)

Program ==
    \E n \in Names :
        \/ GetLogger(n)
        \/ \E p \in Patterns \cup {None} :
               AddAppender(n, [dest |-> Stdout, level |-> DEBUG, formatter |-> p])
        \/ \E i \in DOMAIN m_appenders[n] :
               \/ DelAppender(n, i)
               \/ \E p \in Patterns : FormatAppender(n, i, p)
               \/ \E l \in Levels : LevelAppender(n, i, l)
        \/ ClearAppenders(n)
        \/ \E l \in Levels : SetLevel(n, l)
        \/ \E p \in Patterns : SetFormatter(n, p) \/ SetPattern(n, p)

Listener ==
    \/ \E doc \in Documents : Reload(doc)
    \/ \E n \in Names : TakeEntry(n) \/ UseNull(n) \/ DropEntry(n)
    \/ TakeLevel
    \/ TakeFormatter
    \/ ClearOld
    \/ AddNew
    \/ WipeOld
    \/ Assign

(* Nothing follows the use of the null pointer. *)
Crashed == crashed /\ UNCHANGED vars

Next == (~crashed /\ (Logging \/ Program \/ Listener)) \/ Crashed

Spec == Init /\ [][Next]_vars

-----------------------------------------------------------------------------
(* Properties *)

TypeOK ==
    /\ IsValue(m_val) /\ IsValue(job.new)
    /\ m_loggers \subseteq Names
    /\ m_level \in [Names -> Levels]
    /\ m_formatter \in [Names -> Patterns]
    /\ \A n \in Names \ ByHand : m_formatter[n] \in ValidPatterns
    /\ m_appenders \in [Names -> Seq(Appender)]
    /\ msg \in [Threads -> Message]
    /\ job.at \in Stage /\ job.name \in Names
    /\ job.todo \cup job.gone \subseteq Names
    /\ job.left \in Seq(Appender)
    /\ {crashed, emptied} \subseteq BOOLEAN
    /\ lost \subseteq Levels /\ top \in Levels

(* The logger of an entry is what the entry says: its level, its pattern   *)
(* if that is one, an appender for each of the entry's in their order, of  *)
(* the level given for it, formatted by the pattern given for it or else   *)
(* the logger's.                                                           *)
Ordered(n, d) ==
    [i \in DOMAIN d.appenders |->
        [d.appenders[i] EXCEPT !.formatter = IF @ \in ValidPatterns THEN @ ELSE m_formatter[n]]]

Follows(n, d, list) ==
    /\ n \in m_loggers
    /\ m_level[n] = d.level
    /\ d.formatter \in ValidPatterns => m_formatter[n] = d.formatter
    /\ list = Ordered(n, d)

(* Whenever no reload is under way, the loggers are those the value of     *)
(* "logs" describes: every entry's logger follows it, through any sequence *)
(* of reloads, and a logger that has no entry any more has no appender     *)
(* left (the listener of "logs").  The program keeps its hands off them.   *)
LoggersFollow ==
    job.at = "ready" /\ ~crashed =>
        \A n \in Names \ ByHand :
            IF n \in DOMAIN m_val THEN Follows(n, m_val[n], m_appenders[n])
            ELSE n # Root => m_appenders[n] = <<>>

(* No appender of a logger is without a formatter, whatever order          *)
(* appenders and formatters were set in: StdoutLogAppender::log and        *)
(* FileLogAppender::log use m_formatter without looking.                   *)
AppendersFormatted ==
    \A n \in Names : \A i \in DOMAIN m_appenders[n] : m_appenders[n][i].formatter # None

(* What becomes of a message that passes the level of its logger when a    *)
(* reload has taken the logger's appenders away and not yet added the new  *)
(* ones: the root logger takes it (Logger::log), if it passes a level of   *)
(* the root's.  So one is lost only if it is below a level the root logger *)
(* has had - such a one is lost, log.cc:407 and 396, although its logger   *)
(* had an appender before and has one after the reload - or after the root *)
(* logger itself was without appenders.                                    *)
NoneLost == emptied \/ \A l \in lost : l < top

(* What is written as text reads back as what it was, but for the levels   *)
(* of appenders, which are written (log.cc:519, 549, 715) and never read   *)
(* (log.cc:654-683), and for the formatters of entries.  The text of the   *)
(* loggers (LogManager::toYamlString), read as a value of "logs", is one   *)
(* these loggers follow: loading it where nothing is set up sets up the    *)
(* same.  The text of the value (ConfigVar::toString) reads back as the    *)
(* value.                                                                  *)
Levelless(list) == [i \in DOMAIN list |-> [list[i] EXCEPT !.level = UNKNOW]]

TextReadsBack ==
    job.at = "ready" /\ ~crashed =>
        /\ \A n \in m_loggers \ ByHand :
               Follows(n, Convert(LoggersText)[n], Levelless(m_appenders[n]))
        /\ Convert(ValueText(m_val)) = [n \in DOMAIN m_val |-> [m_val[n] EXCEPT !.formatter = None]]

(* The patterns the loggers were given say what their messages look like:  *)
(* the parser gives back what a pattern is written from, and every         *)
(* character of a pattern it accepts is in an item (LogFormatter::init).   *)
PatternsRead ==
    /\ \A n \in m_loggers : IsPattern(m_formatter[n]) => Intact(m_formatter[n])
    /\ ReadsBack /\ NothingDropped

(* A reload leaves an entry that did not change alone: the comments of the *)
(* listener speak of added, of changed and of deleted loggers only         *)
(* (log.cc:746, 750, 784).  It does not.                                   *)
UnchangedAreLeftAlone == ~crashed
=============================================================================
