# Models of the design-pattern trainer

A student's client (Qt) and a server (Winsock threads, SQLite) for learning design patterns: the client shows
patterns and tests, the server keeps accounts, avatars and test results. This directory holds TLA+ models of both and
of the XML documents they exchange, TLC runs on small instances, and TLAPS proofs of what holds for instances of every size: about the server's
handlers and connections, the client's window, tests and catalogue, the documents and the texts in them.
Paths below are relative to the repository; `map` in `PROJECT.json` gives the lines of every definition.

## 1. The system

| Part | State | Operations | Talks to |
|---|---|---|---|
| connection server, `server/tcpserver.cpp` | listening socket, lists `clients` and `threads`, vector `del`, `vec_mutex` | accept loop `start`; `client_loop`, one detached thread per connection; `get_data`, `send_data` | calls the handler from every thread, in parallel |
| request handlers, `server/handler_server.cpp` | SQLite tables `User`, `User_test`, `Pattern`; avatar files; one mutex | `processing` dispatches to `patterns`, `auth`, `reg`, `result`, `set_all_result`; `is_correct_auth` | one `SQLite::Database` and one `Handler_server` object shared by all threads |
| entry point, `server/main.cpp` | - | passes `processing` as the callback | both of the above |
| main window, `client/mainwindow.cpp` | page on screen, `forward`, `is_auth`, socket, `msg_length`, the two forms, `base64_file`/`file_type`, the local `main.db` (`User`, `User_test`, `Pattern`, `Pattern_test`), the pictures | the slots of the buttons, of the socket (`slotConnected`, `slotReadyRead`, `slotError`) and `recv_data_handler` | the server, over one connection per request; the test widget |
| test widget, `client/test_widget.cpp`, `client/test.cpp`, question types | questions and their statuses, `current_index`, enabled buttons, timer, progress bar, `count_correct` | start, next, previous, check, done, to show, timer; `init`, `stop_timer` | main window opens it (through a file of lines), leaves it and stores its result |
| base64, `client/base64.cpp` = `server/base64.cpp` | - | `base64_encode`, `base64_decode` | pictures in both directions |
| TinyXML-2, `client/tinyxml2.cpp` | nodes and their links, four pools, the list of nodes that are not inserted; the buffer that is parsed | build, print, parse, delete, read a text in place | every message of both sides |
| popup, forms, `main.cpp` of the client, `server/testclient`, SQLite(Cpp) | - | - | see "Not modelled" |

A connection carries one request and one answer: an XML text behind four bytes of length. The kinds are patterns,
authorization, registration, result and set_all_result. An answer says `correct` or `uncorrect` and carries what was
asked for, but not which request it belongs to.

What is hard, and where the properties aim (`hazards` in `PROJECT.json` has each one at its line):

* **Server.** Handlers are sequences of statements each of which commits alone. `result` is under the mutex,
  `reg` decides on a COUNT it made before the mutex, `set_all_result` (a DELETE and n INSERTs) never takes it, and
  `auth` counts and then reads rows one by one. An exception between `lock()` and `unlock()`, of the INSERT of
  `reg` or of a statement of `result` whose number is none, skips the `unlock()`. Avatars are written before the INSERT decides
  who gets the login, into a file whose name Windows compares without case where the table compares logins with it. The process may die between any two of these.
* **Connections.** A thread reports the *position* of its entry, in lists the accept loop changes under it.
  The lists are appended to without the mutex; positions are compared with a size that may have changed. A request is
  read by a single `recv`, which may return a part of it.
* **Main window.** One thread, but the answer arrives later, in pieces, and is interpreted by what `forward` and the
  forms are *then*; `msg_length` survives the socket it was read from. A load or an upload is sent again when the
  settings are saved. An update of the catalogue is many statements, made of the server's texts, nobody looks at
  their results, and the program may end between them.
* **Test widget.** One object for all tests: its timer connections, buttons, index and count are those the last
  test left; the timer fires between clicks. The number of questions and the vector of them may differ. Questions of several lines go through a file that is read line by line.
* **Documents.** A node is in the tree, in the list of those not inserted, or free; deletion is recursive and a parse
  may fail at any depth. References are replaced in the buffer they are read from.

## 2. Modules

| Module | Models | Correctness it states |
|---|---|---|
| `HandlerServer` | every handler, one action per statement on the database, the files or the mutex; crash and restart | mutual exclusion, what can leak the mutex, unique and permanent accounts, one result per user and pattern, exact authorizations and uploads, intact avatars, no refusal without a reason, answers |
| `ResultBook` | the abstract book: each request takes effect at one instant between arrival and answer, a refused one never | implemented by `HandlerServer` without uploads |
| `TcpServer` | accept loop, two lists, threads, reports, reference counts | lists parallel, only the newest entry reported, when `erase(end())` can happen, sockets open while served, connections accepted |
| `TestWidget` | a test from opening to storing its result, its timer, in a client that is used again | settled results, the time of a test, range errors, termination |
| `MainWindow` | pages, socket, framing, answers, local account | which answer is taken for which request, whose account is stored, when the program breaks down, answers handled |
| `ClientServer` (extends `HandlerServer`) | several computers of one account: the local table of results, load and upload, repetition, requests that arrive in part; the handlers of the server | what a message of success says about both tables; what may be repeated |
| `Catalogue` | the update of patterns, pictures and questions statement by statement; opening a pattern or a test, the file `tmp.txt`, `Test::init` and the four `input` | pictures and questions belong to their pattern |
| `XmlDocument` | nodes, links, pools, list of unlinked nodes; recursive deletion, one call at a time; `DomSpec`, all calls that may be made | links agree, no node is lost or freed twice |
| `XmlForest` | what the document promises: an ordered tree and loose nodes | implemented by `XmlDocument` |
| `XmlParser` (extends `XmlDocument`) | `ParseDeep` with its stack, errors and cleaning up, on any received text; the life of a document | parsing makes only calls that the document allows; the pools' counts |
| `XmlPrinter`, `XmlReading` (extends `XmlParser` too) | `XMLPrinter` as tokens; the texts that can be received of printed documents | what is printed is read back; what a part of a text is read as |
| `XmlText`, `Base64`, `Payload` (extends both) | the text of an element: escaping, references, newlines, reading in place; the codec; a value on its way | texts and pictures come back, the writing never passes the reading |
| `HandlerServerProofs`, `TcpServerProofs`, `TestWidgetProofs`, `MainWindowProofs`, `ClientServerProofs`, `CatalogueProofs`, `XmlDocumentProofs`, `PayloadProofs` | - | theorems, section 5 |
| `MC*` | instances of the above for TLC | - |

`ClientServer` composes the client's results with the handlers. `TcpServer` and the handlers meet in the callback only
(step `Callback`): neither touches a variable of the other, so they are not put into one module. `XmlParser` stands under
all of them: the kinds of `Request` that cannot be read, and the request without a body that ends the process, are what
`CutReadsPrefix` allows a cut text to be.

### HandlerServer
A thread is a connection. `pc[t]` names the statement it executes next (the header of the module lists them);
`request`, `answer` are the two texts, reduced to kind, account, test or tests, picture and yes/no. `User`, `User_test`
and `last_id` are the tables, with logins and pattern names in the place of row ids; `files` is the avatar directory.
`counter`, `cursor`, `tests` and `avatar` are the locals of `auth` and `set_all_result`. The table `Pattern` is a
constant: no code of the server writes it. `Patterns` is one step for that reason.

* `decode_file` is two steps, since opening the file empties it and the writing follows; two writers of one path
  may leave a mixture.
* A path is a login and a picture type. `FileOf` says which file it names: two paths may name one, since logins that differ in
  case are different for SQLite (in the COUNT and in every UNIQUE) and the same for the file system. It is a constant of which nothing
  is assumed.
* `Malformed` are texts of `<result>` that are no number. `result` and `set_all_result` put the text into the statement as it is, so
  the statement throws.
* UNIQUE(login), UNIQUE(password) and UNIQUE(path_to_image) are in the database that is delivered
  (`server/main.db`); the INSERT throws on each.
* Every exception ends in the `catch` of `processing` and the answer `uncorrect`; which mutex is held then is in the
  model: `InsertUserThrows` and `ResultThrows` leave it alone.
* `Restart` loses the threads and the mutex, and any connections whose request has not arrived, and keeps tables and files as they
  are between two statements.
* `earlier[t]` is a history variable: the connections dealt with when `t` got its request. Properties use it to say
  that two requests overlapped.

### ResultBook and the refinement
`Book` in `HandlerServer` maps `User` to logins and passwords, `User_test` to triples, and `pc` to the phases idle,
waiting, applied, correct, uncorrect and lost. A registration takes effect at its INSERT, a result at its INSERT or
UPDATE, everything else changes nothing. Uploads cannot be mapped: they take effect one row at a time.

### TcpServer
`main` and `at[c]` are the program counters of the accept loop and of `client_loop`. `threads` keeps what a
`std::thread` object tells of itself: whether it is joinable. A detached object has the id of no thread, so only a
thread that scans before `detach` finds its own entry. `refs` is the use count of the `shared_ptr` whose last copy
closes the socket. `del` is kept as it is filled and the loop takes its largest position first (the code sorts it
before the loop; nothing is added meanwhile, the loop holds `vec_mutex`). `get_data` and the handler may never end.

### TestWidget
Every slot is an action; `Idle` says that the event loop runs one at a time, and that the calls of one timeout are
made before another event. `ToShow` is the two slots of one button, in the order they were connected. A question
counts as answered with the expected or another answer, which is all the four `check_answer` functions tell apart;
`Capital` are the written answers that `check_answer3` cannot find because only the typed text is put into lower
case. `clock`, `ended` and `shown` are history variables. An index outside of a vector makes `undefined` true.
`CountOf` is the number in the first line of the file (`Test::count_questions`), `QuestionsOf` what was read after it: nothing for a
pattern whose questions were not stored, fewer than the number when a text has several lines. Assumed is only that they are never
more and that none is twice; `Catalogue` has the reading itself (`read.count` and `read.questions`).

### MainWindow
`socket` holds the connection and what the server has of it: the one request it reads, the answer, how many bytes have
arrived. `slotReadyRead(n)` is called with n more bytes; `msg_length` is -1 or the number waited for, one less than the
server sent. `recv_data_handler` is split by `forward` and by the answer; using an element that the text does not have
makes `undefined` true, after which only `Restart` goes on. `accepted`, `mixed` and `cut` are history variables: the
account the server accepted last, a click between request and answer, a connection given up between length and text.
A message box is modal: no click comes between the statements of a slot.

### ClientServer
Each computer has its `local` table, `forward`, the connection of its `socket` and the state of that `link`. A connection
is a thread of `HandlerServer`; `sent[t]` is the request on its way, which `Deliver` hands to `Received` whole, as a
text that cannot be parsed, or cut behind its type, which ends the server process: `ServerDies` is the `Restart` that loses, of
the connections without a request, those that have one on its way. Everything else the server does is the `Handle` of
`HandlerServer`. What is sent is assumed in the module (`SendsAssumption`): loads and uploads, and of uploads the lists of the local tables. The two buttons are `Click`; `on_settings_save_clicked` connects again with the old `forward`.
Pages, framing and other kinds of requests are in `MainWindow`.

### Catalogue
`fill_db_patterns` is a loop whose position is `at` and `row` and whose next statement is `step`; `Die` ends the program at
any step. `quoted` says which text of a pattern has an apostrophe, and so which of its statements fail. `FileId` is the
id the picture's file is named for: one more than the largest, whether or not this pattern's row is there. `ToTest` writes
the lines of the questions and reads them as `Test::init` does, each kind of question taking the lines its `input` takes.
`Selected` is what a SELECT with a condition gives, in the order of insertion, and what a loop keeps of a list.
`ListingAssumption` says what the server can send: distinct names, and four options for a question of type 1, which
are read from `a1` to `a4`.

### XmlDocument, XmlForest, XmlParser, XmlPrinter, XmlReading
`links` are the five pointers of every node, `_root` the free list of each pool (a block of items is put on it at a time), `_unlinked`
and `_nUntracked` the bookkeeping of nodes that were created and not inserted. A destructor that runs is on the stack
`doomed`, and each `DeleteChild` it makes is a step. `DomSpec` is the document on its own, with every call a program, the
parser or `Clear` may make: `XmlParser` implements it (`AllowedCallsOnly`), and the proofs are about it. A text is a sequence of tokens (tags, declarations, texts,
white space); `XmlPrinter` computes the tokens with the members that decide on indentation. `open` is the stack of
`ParseDeep` frames: an element, how its tag closed it, and the name of the end tag a child handed up. `XmlParser` takes the texts that may
arrive from its constant `Received`, of which it assumes that they consist of tokens, and no more. For TLC, `XmlReading` gives it
`Messages`: all documents with a bounded number of nodes, received whole or cut behind or inside any token, and some texts of a
foreign sender.

### XmlText, Base64, Payload
Characters and bytes are their codes. `GetStr` has a read pointer `p` and a write pointer `q` into the buffer `mem`, and every turn of its
loop is a step. `GetCharacterRef` takes the number between the first `;` and the last `#` or `x` before it, as the code does.
The number wraps around at `UnsignedLimit`, 2^32 in the code; the `TIXMLASSERT`s about it are empty outside of debug builds.
`Base64` computes with `% 256` where the code computes with `uint8_t`. `Payload` sends a text or picture through
encoding, printing, parsing, reading and decoding; a foreign text is a sequence of pieces, each with what it means. Of texts
and pictures is assumed that they consist of bytes, and of texts that none is zero, which ends a text. A picture of another
sender may lack its padding or a part of it.

## 3. Runs

| Run | Instance | What it shows |
|---|---|---|
| `requests` | 3 connections, 2 new logins that differ in case only, 2 passwords, 2 pictures, 1 pattern, 2 values and a text that is no number; registrations, logins, results | accounts are unique; the mutex is leaked only by a registration or a result whose statement threw under it; an avatar is the registered one unless a registration of the same login overlapped, or one of another login wrote the same file meanwhile or later; one row per user and pattern; every step is one of `ResultBook` |
| `uploads` | 3 connections of one user; uploads of 0 to 3 tests, results, logins | two rows for one pattern need overlapping uploads; an upload without a rival is exact, a refused one leaves the prefix before the unknown name or the result that is no number; without uploads the last result wins; a login with the right password is refused only during an own upload, a result only for its name or its text (no registration is sent in this run; what `RefusalsJustified` says of them is proved, section 5) |
| `answers` | 2 connections, all kinds of request | every request that arrives is answered, unless the process dies or the mutex was leaked by a statement that threw under it |
| `connections` | 3 connections | the lists stay parallel although positions are reported; only the newest entry is reported, at most twice, and `erase(end())` happens only after two reports; no served connection loses its socket; every connection is accepted even when handlers never return |
| `attempts` | 4 patterns (one without questions, one of which a question less was read than announced), 4 questions, 2 seconds, 2 starts | a result is settled by "done", the first test has its time, a running test ends unless it has gone out of range; every cause of a range error |
| `stored` (violation) | up to 3 starts | after a timeout the stored result is not the displayed one |
| `typed` (violation) | 2 starts | the "right answer" that is displayed is refused when typed, if it has a capital letter |
| `window` | 2 accounts, answers of lengths 2, 3, 5 | answers can be confused only between login and registration; the stored account is the server's unless the user clicked meanwhile or `forward` was not that of the page; the wait is for the present answer unless an earlier one was cut; the causes of a breakdown; answers are handled |
| `sync` | 2 computers, 2 connections, 1 account, 2 patterns, 1 value | "uploaded" means that the server has what the computer had, and "loaded" that the computer has what the server has, unless uploads overlap, whatever was repeated, cut or lost before; only what has not succeeded is repeated |
| `catalogue` | answers of up to 3 patterns with 0 to 3 questions, apostrophes in every place, questions of two lines; 2 updates; death at any step | a pattern is shown with its picture, or none after a death, or that of a later pattern that could not be inserted; a test has the pattern's questions as far as they could be stored, unless one has several lines |
| `documents` | up to 4 nodes whole, 3 cut, 3 built by hand; depth limit 4; pools of 2 items a block | section 2; parsing and closing make only calls that the document allows; a document that is cut and still parses is a prefix of whole elements; texts of white space are not read back |
| `payload` | texts of up to 4 of 9 characters, foreign texts of up to 3 of 16 pieces, pictures of up to 4 of 6 bytes, with all, a part or nothing of their padding, in one or two lines | everything this program prints is read as it was, up to newlines; of a foreign text only the ampersand of an unknown reference may be another character; pictures come back, of one in lines the first line |

The violation runs are the `findings`: each quotes the text of the repository the program disagrees with.

Some properties that pass describe behaviour that may surprise, by naming the only condition under which it happens:
two rows for one pattern (`OneRowUnlessUploadsOverlap`); a right login refused (`RefusalsJustified`); an avatar that is
spoilt by a registration at the same time or replaced by a later one of a login that differs in case (`AvatarIntact`); a breakdown over an answer, for instance whenever the list of patterns is refused (`CrashHasReason`);
a stored account that is not the accepted one (`AccountIsServers`: page turned while a request waits, or registration
page, settings, back, where `forward` still says registration); an index outside of the questions, as soon as
a test is started whose pattern has no questions or whose number of questions is too large, or in a test that was opened and
not started after an earlier one was left (`OutOfRangeHasReason`); the picture of another pattern (`OwnPictureShown`); questions mixed of the
lines of several (`QuestionsAreServers`); a byte that is left over from what was replaced (`ForeignTextComesBack`).

Behaviour the models have and no run is made of:

* A registration whose login or password was taken meanwhile throws between `lock()` and `unlock()`, and so does a
  result of a known pattern whose text is no number; from then on no result and no registration gets past the lock until the server is
  started again (`MutexLeakedOnlyByThrow`, `AnsweredUnlessLeaked`).
* The entry of a connection whose thread was detached before it ended is never erased, so its socket is never closed by
  `~TCPClient` (`TcpServer`, `Scan` and `Closed`).
* The second and later tests since the program was started have a half, a third, ... of the announced time, since every start
  connects the timer's signal once more (`FirstTestHasItsTime` is about the first).
* After an account was left, a registration can be sent with that account's picture and without a type (`MainWindow`,
  `Register`): `base64_file` is kept by `fill_db_login`, and `file_type` is not set by it.

### Bounds
* *Connections.* Every property of `HandlerServer` and `TcpServer` relates at most two connections and a third that
  disturbs or observes them (two registrations and the login that reads the avatar; two uploads and a result; two
  threads and the newest entry), so three are enough for their counterexamples. The proofs of section 5 need no bound.
  In `sync` a success, a repetition and a load of another computer need two; a third connection makes the state
  space too large.
* *Data.* Two values of what is compared (passwords, pictures, results, patterns) and one unknown pattern; uploads of
  zero, one, two and three tests, the longest with the unknown name in the middle, one with a text that is no number at its end.
  `requests` has one type of picture: a path and a file are told apart by logins.
  tell apart which patterns have a result. Connections are symmetric where the run checks safety; runs with liveness
  properties use no symmetry.
* *TestWidget.* `Seconds` is 2 instead of 600: nothing but its comparison with the progress bar uses it. `MaxStarts` is 2,
  enough for what one test leaves to the next. Patterns of one and of several questions, so that a first question
  is the last one, too, and the two ways in which a pattern can be read wrongly.
* *MainWindow.* Three lengths of answers, so that a stale length can be shorter than, equal to or longer than the next
  text; the four bytes of the length are one unit. No bound on clicks or connections: the state space is finite.
* *Catalogue.* `MaxUpdates` is 2: the ids of the second go on where those of the first end, and it finds what the first left.
  Three patterns, so that one lies between two others; every exception the properties name occurs in the run.
* *Documents.* `MaxNodes` and `MaxBlocks` bound what a caller builds, `MaxTree` and `MaxCut` what arrives. Three children are what it
  takes for a first, a middle and a last one; three built nodes (two elements and a text) reach moves with children, two
  blocks and free lists in any order. The depth limit, 100 in the code, is 4, which the documents reach.
* *Payload.* Groups of base64 are of three bytes and four characters: four bytes give a whole group and a rest of one.
  Three pieces are a reference that is replaced, one that is not and what follows. `UnsignedLimit` is 2^24, since TLC has
  integers of 32 bits; one of the pieces is a reference beyond it, which stands for another character by wrapping around.

### Fairness
* `HandlerServer`: weak fairness of the handlers of each thread. They are operating system threads; a mutex that is free
  goes to one that waits. No client has to send, no crash has to happen. Weak fairness is enough in `answers` since
  each connection takes the mutex once.
* `TcpServer`: weak fairness of the accept loop and of the end of a thread, none of `get_data` and the handler.
* `TestWidget`: the timer that is running fires, its slots are called; the user may do nothing. Nothing is promised of a program
  that has indexed out of range (`TestEnds`).
* `MainWindow`: bytes that were sent arrive while the connection stands. The server need not answer.
* The other modules state safety only.

### Deadlock
TLC checks it in every run. The states in which the models stop on purpose have a step of their own: `Terminated`
(all connections closed and the mutex free), `Stopped` (no connection is left to the clients), `Halted` (the process has
ended or its behaviour is undefined), `Closed` (the document is gone). A connection waiting for a leaked mutex can still be
ended by `Restart`.

## 4. Mutants
Each property of a passing run has a mutant in `PROJECT.json`: one definition replaced by what a mistake would make of
it (a lock that is not taken, an `unlock()` that is dropped, a WHERE without its condition, an off-by-one in the progress
bar, a socket that is kept, a last child that is not updated, a flag that is not set), under which TLC refutes the property.
The variants stand in the modules right before the definition they replace and, unless that one is built on them, are
used by nothing else.

## 5. Proofs
Every safety invariant and action property that the runs check of `HandlerServer`, `TcpServer`, `TestWidget`, `MainWindow`, `ClientServer`,
`Catalogue` and `XmlDocument` (one a refinement) and three of the four of `Payload` are theorems. They hold for every value of the constants: any
number of connections, logins, passwords, pictures, patterns, uploads, questions, seconds, accounts, lengths of answers, pools, nodes and characters.

Each module of proofs has one inductive invariant, checked by TLC on the runs' instances before it was proved: the types,
the properties themselves, and what they lean on. Its parts are proved to be kept one by one, each action a case.

### HandlerServer
The assumptions are the module's: `None` is no connection; the patterns with a picture are patterns and those are names; uploads are
sequences of tests; the initial accounts have paths of their own logins and distinct passwords; what is no number is not a result; a path names some file
(any, also that of another path); a picture is not one
of the marks for no file, an empty one, a mixture and the delivered one.

| Theorem (`HandlerServerProofs`) | States | Argument |
|---|---|---|
| `TypeCorrect` | `TypeOK` | `TypedInv`: the types, the kind of request every `pc` belongs to (without which `request[t].test` has no value) and the finiteness of `User_test` (without which `count_test` is no number) |
| `AccountsKept` | `AccountsPersist` | only `InsertUser` writes `User`, and adds a login |
| `MutualExclusion` | `CriticalSection` | `MutexInv`, the conjunction of this and the next: that a thread in the section holds the mutex is kept by `Unlock` only because no other thread is in the section |
| `LeakOnlyByThrow` | `MutexLeakedOnlyByThrow` | `MutexInv`: who threw has answered and changes no more, so the reason stays |
| `RegisteredOnlyOnce` | `RegisteredOnce` | `OwnerInv` extends it to connections that have inserted and not answered yet (`pc = "unlock"`), for whose logins `UniqueViolated` already holds |
| `OneResultPerPattern` | `OneRowPerResult` | `OneRowInv` adds what the COUNT of `result` has found to `pc = "insert_row"` and `"update_row"`; mutual exclusion keeps it true until the INSERT or UPDATE. Assumes that no uploads are sent |
| `ServesBook` | `ImplementsBook` | every action is mapped to a step of `ResultBook` or to none, under `TypedInv`, `MutexInv` and `OneRowInv`. Assumes that no uploads are sent |

The assumption of the last two is needed: `uploads` shows two rows for one pattern. `TypeOK`, `AccountsPersist`,
`CriticalSection` and `ScreensFitAccount` of `MainWindow` are proved and not run: the proofs need them and cover every instance.

The properties about overlapping requests speak of `earlier`, the connections dealt with when a request arrived. Their
invariant, `HistoryInv`, says what every connection has done so far and what the others may have done since:

| Theorem (`HandlerServerProofs`) | States | Argument |
|---|---|---|
| `PictureStaysIntact` | `AvatarIntact` | `FilesInv`, `PicturesInv`: the file of a registration that nobody may have overwritten (`Unspoilt`) is its own from the moment it is emptied; who writes the same file for the same login and arrived after the INSERT finds the login taken, everybody else who writes it is one of the `Overwrites` the property names. Holds for any `FileOf` |
| `RefusalsAlwaysJustified` | `RefusalsJustified` | `AccountsInv`: accounts stay, so what a COUNT has found of a login or password stays true; `IdsInv`, `ReadInv`: rows disappear only by the user's own upload, so `auth` runs out of rows only after one |
| `AuthorizationAlwaysExact` | `AuthorizationIsExact` | `ReadExactInv`: while no writer of the user overlaps, the rows read so far are those up to the cursor, and `counter` is the number of all of them |
| `UploadAlwaysExact` | `UploadIsExact` | `UploadInv`: while no other writer overlaps, the table has the prefix of the list that the loop has inserted, and each name of it is known and each result a number |
| `LastResultAlwaysWins` | `LastResultWins` | `LastInv` extends the property to results that have been written and not answered (`pc = "unlock"`), and says of `"update_row"` that the row its COUNT found is still there |
| `DoubleRowsNeedOverlap` | `OneRowUnlessUploadsOverlap` | `QuietInv`: while no upload of the user overlaps a writer of his there is one row for a pattern, and none for that of a result about to be inserted; needs `UploadInv`. Assumes `UploadsListOnce`: no upload lists a pattern twice, which the client never does, as its table has one row for each |

### ClientServer
`ServerServesClients` proves that an execution of `ClientSpec` is, for the variables of the server, one of `HandlerServer`; what is proved of
that specification (from `Safety`: its initial states and steps, the fairness is not used) holds with clients. Upon it stand an
invariant of the server (`ServerInv`: what was handed out or stored by a connection is the user's rows until somebody else
writes them, who by then has not arrived when the answer is shown) and one of the clients (`ClientInv`):

| Theorem (`ClientServerProofs`) | States | Argument |
|---|---|---|
| `ServerServesClients` | `ClientSpec => Safety` | a step of a client leaves the server's variables alone; what arrives is a `Request`, as `ClientTypeOK` says of all that is on its way |
| `LoadsWhatIsStored` | `LoadedIsStored` | `RequestsInv`: the answer belongs to the request this computer has sent, unless that was cut, and then it is not `correct`; `LoadedInv`; a list with one result for each pattern fills the table with just that list (`LoadedTable`) |
| `StoresWhatIsUploaded` | `UploadedIsStored` | `RequestsInv`: the list that was sent is that of the table as it is, apart from tests taken since; `UploadedInv`: the rows are that list, one for each pattern |
| `NothingRepeatedAfterSuccess` | `RepeatedOnlyUntilSuccess` | `SocketsInv`: who was told of a success has no connection left to open again |

Beyond the assumptions of `HandlerServer`: there are finitely many patterns, so that a table is a list of rows; `None`, an absent row,
is no result; the account is in the delivered database; and the clients send what `SendsAssumption` says. That a list names no pattern
twice, an assumption of `DoubleRowsNeedOverlap`, is proved here of the lists that are sent.

### The others
| Theorem | States | Argument |
|---|---|---|
| `TcpServerProofs`: `ListsStayParallel`, `OnlyNewestReported`, `UndefinedNeedsTwoReports`, `ServedSocketOpen` | `ListsParallel`, `DelNamesNewest`, `UndefinedAfterTwoReports`, `SocketOpenWhileServed` | `JoinableInv`: at most the newest entry is joinable, and none after `detach`, so a scan stops at the newest or at the end it saw; `ReportsInv`: who has reported what, and that the loop erases before it appends again; `RefsInv`: a connection is referred to by its entry and by its thread, and by nothing else |
| `TestWidgetProofs`: `OutOfRangeIsExplained`, `DoneAlwaysSettles`, `FirstTestLastsItsTime` | `OutOfRangeHasReason`, `DoneSettlesResult`, `FirstTestHasItsTime` | `ButtonsInv`: which buttons are enabled at which index while a test runs that was read as announced, and that one that was not has been out of range since its start; `TimeInv`: with one connection the bar shows the seconds since the start; `ResultInv`: nothing that changes an answer is enabled after the end |
| `MainWindowProofs`: `ScreensAlwaysFit`, `AnswersAlwaysFit`, `AlwaysWaitsForOwn`, `AccountAlwaysServers`, `CrashAlwaysHasReason` | `ScreensFitAccount`, `AnswerFitsForward`, `WaitsForOwnAnswer`, `AccountIsServers`, `CrashHasReason` | one invariant for all: which pages, `forward` and requests go together (`ScreensInv`, `SocketInv`), and what the two forms hold when their request was sent and nothing was clicked since (`AccountInv`). That an answer fits needs that pages fit, and pages change by answers |
| `CatalogueProofs`: `OwnPictureAlwaysShown` | `OwnPictureShown` | `CatInv`: the rows are, in the order of the listing, patterns whose INSERT worked, with growing ids, and the file of a row whose picture was stored has its own or that of a pattern behind it whose INSERT failed. Assumes that the names of a listing are distinct, as the server's table has them UNIQUE |
| `CatalogueProofs`: `QuestionsAlwaysServers` | `QuestionsAreServers` | `StoreInv` and a lemma that what is written is read back, see below |
| `PayloadProofs`: `WritingStaysBehind`, `PictureReturns`, `PrintedTextReturns` | `WritesBehindReads`, `PictureComesBack`, `PrintedTextComesBack` | `PayloadInv` and `TextInv`, see below |
| `XmlDocumentProofs`: `LinksAlwaysAgree`, `PoolsAlwaysBalanced` | `LinksAgree`, `PoolsBalanced` | a lemma for what each of `Unlink`, `AtEnd`, `AtFront` and `After` makes of links that agree, one for each list, and one for taking from and giving back to a pool. `Placed`: the nodes without a parent are those not inserted and those whose destructor runs, in no list twice; `FreeApart`: a new node is linked to nothing, since a free one is not |
| `XmlDocumentProofs`: `DocumentIsForest` | `ImplementsForest` | see below |
| `XmlDocumentProofs`: `ParserMakesAllowedCalls`, `ParsedDocumentSafe` | `AllowedCallsOnly`; with it the three above of every execution of the parser | `ParserInv`, see below |

`DocumentIsForest` maps every step of the links to a step of `XmlForest` or to none. What is a recursive function in the mapping
(`ChildrenOf` along `next`, `Ancestors` along `parent`) needs an induction that the prover does not have; in its place stands
`NoCircle`, a part of the invariant `FInv`: of any set of nodes, one leads out of the set. So the set of nodes for which
something fails has a node behind which it holds, which contradicts the step from there. With it

* every node starts one chain (`Chain`, `ChainExists`, `ChainUnique`), the children of a node are the nodes whose parent it is, each
  once (`KidsAre`), and the recursive functions find them (`ChildrenAre`, `AncestorsAre`);
* taking a child out removes it from one sequence (`UnlinkKids`), and putting a node behind `k` children inserts it there
  (`InsertedKids`; `EndInserts`, `FrontInserts` and `AfterInserts` for the three calls); both keep `NoCircle`, the second
  because a node is not put below itself (`PutNoCircle`), which is what `Edit` asks of callers;
* the nodes of the forest are those below the document or below a node not inserted (`KeptOf`); a cut takes away just what is below the
  node (`CutKept`, `ForestBelowIs`), so what a recursive destructor does after its first step is not seen (`DeleteStep`, `DestroyStep`).

`LinksAlwaysAgree` and `PoolsAlwaysBalanced` are about `DomSpec` too. They ask less of an insertion than the model does (a node is not put below itself, where
`Edit` allows none of its ancestors), so the links agree even if a caller made a circle.

**The parser** (`ParserMakesAllowedCalls`, `ParsedDocumentSafe`). `AllowedCallsOnly` says that the steps of `XmlParser` are steps of
`DomSpec` and that the pools' counts are right between two calls. `DomSpec` forbids what the code would not survive: to delete a
node with `DeleteNode(node)` that is linked, to put a node below itself, to empty the pools with nodes out. The invariant
`ParserInv` is, besides `FInv`,

* `OpenInv`: while `Parse` runs, the nodes of the frames on the stack are exactly those not inserted, each once, and all but the
  innermost are elements. So the innermost may be deleted or inserted, and the node it is inserted into is the document or a
  node without a parent, which is not below it (`OuterIs`). After a failure the last frame is gone, hence `_unlinked` is empty:
  what is not free is below the document, and when that has no child left, nothing is out (`AllBack`, from `NoCircle`
  again) and the pools may be emptied;
* `CountInv`: `_nUntracked` counts the nodes of each pool in `_unlinked`. It is wrong from the first error on, since a node given up is
  deleted without `SetTracked`, until the pools are emptied. That no state between two calls sees a wrong count needs that nothing is read after
  an error: every frame above returns null, up to the document.

With every step a step of `DomSpec`, the three theorems about it hold for every execution of the parser: `ParsedDocumentSafe`.

The library's theorems on induction take an operator as a parameter, which no prover here can give them. `CatalogueProofs` and
`PayloadProofs` do their inductions over lists and texts with sets in the place of predicates: a set of numbers that is not empty has a
least element (`HasLeast`, from the well-foundedness of the order), so a set that contains 0 and with i - 1 also i contains
them all (`Induction`). What `FlattenSeq` and the recursive functions of the models give is derived once that way.

**Questions** (`QuestionsAlwaysServers`). `StoreInv`: for each pattern the rows of `Pattern_test` with its name are the kept
ones among the first tests of its list, as many as the loop has dealt with (`Done`), or, when the program died, among
the first m for some m. The names of a listing are distinct, so the rows of one pattern are not touched by the INSERTs of another
(`InsertTestStores`). What is written and read is joined by four steps: a question without texts of several lines has just the
number of lines that its kind of `input` takes (`LinesAre`, `NumbersAre`); the questions lie in the file one behind the other
(`FlattenPlaces`); so each starts where the reading of the one before it has stopped (`StartsAre`), and is what was written (`ReadIs`).
`TestKeeps` shows that what an open test asks is not affected by anything but an update, which closes it.

**Texts and pictures** (`PayloadProofs`).
* `WritingStaysBehind`: `BufferInv` says that `q` does not pass `p`, nor `p` the end. Only a character reference needs more than the
  guard of its turn: `ReferenceFits` shows that the UTF-8 form of its number is never longer than the reference, since a
  number of so many bytes has at least so many digits. It holds after the wrapping around, too, for any `UnsignedLimit`, because
  a number is never larger than its digits say.
* `PictureReturns`: group by group, encoding and decoding are inverse (`EncodedGroupIs`, `DecodedGroupIs`: the arithmetic of four sextets and
  three bytes), and what is left of an encoded picture at any place decodes to the whole bytes before it (`DecodeIs`). No character
  of base64 is changed by printing or by `GetStr` (`PlainPrints`, `Untouched`), so what is decoded is what was encoded (`PictureInv`).
* `PrintedTextReturns`: `TextInv` says that while a printed text is read, the buffer before `q` is the text up to its k-th character with its
  newlines cleaned, and behind `p` follows the rest of the printed text, for some k. Each turn of the loop reads one
  printed character or two of a newline (`TextTurn`); that an escaped one is taken for the entity it was
  printed as is `EntityRead`, that of a run of CR and LF the same pairs are read as in the original is `RunStep`.

### Model-checked only
* Liveness (`AnsweredUnlessLeaked`, `EveryConnectionAccepted`, `TestEnds`, `AnswerHandled`): fairness and ENABLED are out of the prover's reach.
* `PrintedReadsBack`, `CutReadsPrefix`: `XmlPrinter` and `XmlReading` have RECURSIVE operators (a visitor and the
  trees it visits), about which nothing can be proved. `XmlParser` has none, so that its steps can be reasoned about.
* `ForeignTextComesBack`: what a piece of a foreign text is written as and what it means are two values of a constant; that
  the sixteen pieces of the instance mean what they say, alone and next to each other, is what the run is for.

## 6. Limits and what is not modelled
* *Threads of the server.* A Windows thread id can be used again and a `std::mutex` locked by a thread that has ended is
  undefined by the standard; the model takes the mutex to stay locked. The race on `std::list` between `push_back` and
  a scan is two orders of two steps, not a torn list. `print_mutex` and the sleep of 50 ms change nothing that is stated.
* *SQLite.* Statements are atomic and serialised, even though SQLiteCpp asks for one connection per thread. Texts are
  built into statements with quotes; the server's logins, passwords and names are taken to have none (the client's catalogue
  has them: `Catalogue`). A result that is no number makes the statement throw
  under the mutex, and is modelled. A text that SQLite takes for an expression that names a column (`count_correct` in the UPDATE) is neither,
  and is not: the client sends numbers only.
* *Files.* A picture's path that Windows keeps for a device (a login like `nul`) is not modelled; every other name is some file of `FileOf`.
* *Bytes.* The four bytes of a length are read whole. The client's length is one more than that of its text and the server
  reads one less than it is told; the server gives its length for every text and the client waits for one less. Texts of
  the client are sent in its local eight-bit encoding and read as UTF-8; characters are taken to be the same in both.
* *Missing texts.* A registration with an empty picture type makes the server build a `std::string` of a null pointer; what
  the process does then is `Restart`, the request itself is not sent in `HandlerServer`.
* *TinyXML-2.* Attributes, comments, CDATA, unknown nodes, byte order marks, collapsing of white space, files, handles, deep
  copies and the conversions of numbers are left out: no code of the two programs uses them. `InsertAfterChild(a, c)` with c the last
  child and directly behind a uses a null pointer (`client/tinyxml2.cpp:953`); nobody calls it so, and the model does not. The
  server links the library as a DLL, of which only the client's copy is in the source; it is taken to be the same.
* *Client.* Drawing, labels, several message boxes at once; a stored index of a right answer
  outside of the four options; what Qt does with a socket that is deleted in a slot of its own signal; an SQL text with an apostrophe in a
  SELECT (the pattern would not be in the table).
* *Not modelled.* The popup, the forms and the entry point of the client (presentation; the initial state of the buttons is
  that of `client/test_widget.ui`), `server/testclient` (a tool by hand), SQLite and SQLiteCpp (headers only, modelled from
  their use).

## 7. Plan
Done: the handlers, their book and the theorems of section 5; the connection server, the test widget and the main window; the
composition of clients and handlers; the catalogue; the documents, their texts and base64; the proofs about all of them.

What is left:

1. `PrintedReadsBack` and `CutReadsPrefix` as theorems. The trees would have to be recursive functions on a set of trees of bounded
   depth, and the parser's stack related to the part of the tree that is behind it.
2. `ForeignTextComesBack` for any text: the meaning of a reference as an operator on texts in the place of the pieces.
