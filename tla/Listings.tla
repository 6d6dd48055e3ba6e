------------------------------- MODULE Listings -------------------------------
(***************************************************************************)
(* A listing: IOContextList (lib/iocontextlist.hh) writes what a           *)
(* FileLister (lib/filelister*.hh) goes through, for NLST, LIST and MLSD   *)
(* (src/ftplist*.hh, src/ftplistlong.cc) and for a directory asked for by  *)
(* HTTP (src/httplist.cc), while files are deleted. The directory is read  *)
(* as the listing goes (lib/dircontainer.cc): whether readdir(3) still     *)
(* gives what was deleted is not said, and it may fail. A file made        *)
(* meanwhile that it gives is as one that was there from the start.        *)
(* Permissions are in FtpSession.                                          *)
(***************************************************************************)
EXTENDS Names, FiniteSets

CONSTANTS
  Dirs,       \* the directories: what readdir(3) gives for each
  Arguments,  \* of the commands
  MaxMishaps  \* bound: files deleted and lines lost during a listing

\* Each directory names a thing once; a name has no slash and no NUL, and the
\* way to a directory goes through names.
FileName == Seq(Byte \ {Slash}) \ {<<>>}

ASSUME ListingConstants ==
  /\ DOMAIN Dirs \subseteq Seq(FileName \ Dots)
  /\ \A dir \in DOMAIN Dirs :
       /\ Dirs[dir] \in Seq(FileName)
       /\ \A i, j \in DOMAIN Dirs[dir] : Dirs[dir][i] = Dirs[dir][j] => i = j
  /\ Arguments \subseteq Seq(Byte)

VARIABLES
  kind,       \* of listing: "none", "nlst", "list", "mlsd", "http"
  place,      \* in asked, of the lister's current entry; after its end
              \* if the lister has none
  stream,     \* the DIR* of a FileListerDir: "none" for other listers, "open"
              \* (to the end of asked), "failed" when closed by an error
  pattern,    \* of FileListerGlob; All for the other listers
  buf,        \* _buf: <<>>, or the line being written
  out,        \* lines written
  footed,     \* _finished of HTTPList
  done,       \* completed
  gone,       \* paths deleted since the listing began
  lost,       \* history: lines that a full socket dropped or tore
  asked       \* the entries of what was asked for, when it was

listing ==
  <<kind, place, stream, pattern, buf, out, footed, done, gone, lost, asked>>

All == <<Star>>
None == <<>>

ListingInit ==
  /\ kind = "none" /\ place = 1 /\ stream = "none" /\ pattern = All
  /\ buf = None /\ out = None /\ footed = FALSE /\ done = FALSE
  /\ gone = {} /\ lost = {} /\ asked = None

-----------------------------------------------------------------------------
\* The listers.

Entry(path) == [name |-> Last(path), path |-> path]

DirEntries(dir) ==
  [i \in DOMAIN Dirs[dir] |-> Entry(Append(dir, Dirs[dir][i]))]

There(path) ==
  path \in DOMAIN Dirs \/ (path # <<>> /\ Front(path) \in DOMAIN Dirs
                             /\ Last(path) \in ToSet(Dirs[Front(path)]))

\* User::list: FileListerDir, FileListerFile and FileListerNone.
List(path) ==
  CASE ~ There(path)        -> None
    [] path \in DOMAIN Dirs -> DirEntries(path)
    [] OTHER                -> <<Entry(path)>>

\* The rest of a sequence, from the first place on that is as wanted.
FromFirst(seq, At(_)) ==
  LET at == {i \in DOMAIN seq : At(i)}
  IN  IF at = {} THEN <<>> ELSE From(seq, Min(at))

\* What a lister gives: DirContainer::iterator::read_next passes over the dots,
\* FileListerGlob::match chooses.
Gives(entry, pat) == entry.name \notin Dots /\ Match(entry.name, pat)

\* read_next and skip_till_match, from a place on: the lister comes to the next
\* entry that it gives, or to the end. What is deleted it may pass over, and
\* where a directory is read an error is taken for the end.
Reads(entries, pat, from, dir) ==
  LET Passed(i) == Gives(entries[i], pat) => entries[i].path \in gone
      Stop(i) == i \in DOMAIN entries => Gives(entries[i], pat)
      end == Len(entries) + 1
      stops == {i \in from..end : Stop(i) /\ \A j \in from..(i - 1) : Passed(j)}
  IN  {[place |-> i, stream |-> dir] : i \in stops}
      \cup (IF dir = "open" THEN {[place |-> end, stream |-> "failed"]} ELSE {})

\* do_cmd_list leaves out words that look like options of ls(1).
StripOptions(arg) ==
  LET Word(i) == (i = 1 \/ arg[i - 1] = Space) /\ arg[i] # Dash
  IN  FromFirst(arg, Word)

IsPattern(arg) == \E i \in DOMAIN arg : arg[i] \in {Star, Question}

-----------------------------------------------------------------------------
\* The lines, and what is written around them.

Line(text, entry) == [part |-> "entry", text |-> text, path |-> entry.path]
Around(part) == [part |-> part, text |-> <<>>, path |-> <<>>]

\* prepare_entry: MLSD writes the whole path, HTTP a link to it.
LineOf(entry) ==
  CASE kind = "mlsd" -> Line(<<Slash>> \o Str(entry.path), entry)
    [] kind = "http" -> Line(<<Slash>> \o HtmlQuoted(entry.path), entry)
    [] OTHER         -> Line(entry.name, entry)

NoEntriesLeft(i) == i > Len(asked)

\* FTPListLong::prepare_entry reads on while it cannot stat.
SkipGone ==
  LET Lacks(i) == asked[i].path \in gone
  IN  IF kind = "list" /\ Lacks(place)
      THEN {r \in Reads(asked, pattern, place + 1, stream) :
              NoEntriesLeft(r.place) \/ ~ Lacks(r.place)}
      ELSE {[place |-> place, stream |-> stream]}

\* next_entry: the line of an entry, and the lister reads on.
NextEntry ==
  \E here \in SkipGone :
    \/ /\ NoEntriesLeft(here.place)
       /\ buf' = None /\ place' = here.place /\ stream' = here.stream
    \/ /\ ~ NoEntriesLeft(here.place)
       /\ buf' = <<LineOf(asked[here.place])>>
       /\ \E next \in Reads(asked, pattern, here.place + 1, here.stream) :
            place' = next.place /\ stream' = next.stream

\* finished_listing: HTTPList has its footer first.
FinishedListing ==
  LET foot == kind = "http" /\ ~ footed
  IN  /\ buf' = IF foot THEN <<Around("foot")>> ELSE None
      /\ footed' = (footed \/ foot)
      /\ done' = ~ foot
      /\ UNCHANGED <<place, stream>>

\* finished_writing.
FinishedWriting ==
  \/ NoEntriesLeft(place) /\ FinishedListing
  \/ ~ NoEntriesLeft(place) /\ NextEntry /\ UNCHANGED <<footed, done>>

-----------------------------------------------------------------------------
\* do_cmd_list, cmd_mlsd and do_get_dirlisting.
Begin(k, cwd, argument) ==
  LET arg  == IF k \in {"nlst", "list"} THEN StripOptions(argument) ELSE argument
      glob == k \in {"nlst", "list"} /\ IsPattern(arg)
      path == IF glob THEN cwd ELSE ChdirText(cwd, arg)
      pat  == IF glob THEN arg ELSE All
  IN  /\ kind = "none"
      /\ k = "http" => path \in DOMAIN Dirs
      /\ kind' = k
      /\ pattern' = pat
      /\ asked' = List(path)
      /\ \E dir \in {IF path \in DOMAIN Dirs THEN "open" ELSE "none"} :
           \E first \in Reads(List(path), pat, 1, dir) :
             place' = first.place /\ stream' = first.stream
      /\ buf' = CASE k = "list" -> <<Around("total")>>
                  [] k = "http" -> <<Around("head")>>
                  [] OTHER      -> None
      /\ UNCHANGED <<out, footed, done, gone, lost>>

Listing == kind # "none" /\ ~ done

Mishaps == Cardinality(gone) + Cardinality(lost)

\* want_write, before poll(2), of a listing with nothing to write.
WantWrite ==
  /\ Listing /\ buf = None
  /\ FinishedWriting
  /\ UNCHANGED <<kind, pattern, out, gone, lost, asked>>

\* write_out, when the rest of the line is written.
WriteOut ==
  /\ Listing /\ buf # None
  /\ out' = out \o buf
  /\ FinishedWriting
  /\ UNCHANGED <<kind, pattern, gone, lost, asked>>

\* write_out, when the socket is full: the -1 of do_write is added to _buf_pos,
\* which is unsigned. A line not begun counts as written; of another a byte is
\* sent twice.
FullSocket ==
  /\ Listing /\ buf # None /\ Mishaps < MaxMishaps
  /\ lost' = lost \cup ToSet(buf)
  /\ \/ FinishedWriting
     \/ /\ buf' = <<[buf[1] EXCEPT !.part = "torn"]>>
        /\ UNCHANGED <<place, stream, footed, done>>
  /\ UNCHANGED <<kind, pattern, out, gone, asked>>

\* A file of the listing is deleted.
Delete ==
  /\ Listing /\ Mishaps < MaxMishaps
  /\ \E e \in ToSet(asked) : /\ e.name \notin Dots /\ e.path \notin gone
                            /\ gone' = gone \cup {e.path}
  /\ UNCHANGED <<kind, place, stream, pattern, buf, out, footed, done, lost,
                 asked>>

ListingNext ==
  \/ \E k \in {"nlst", "list", "mlsd", "http"}, cwd \in DOMAIN Dirs,
        argument \in Arguments : Begin(k, cwd, argument)
  \/ WantWrite \/ WriteOut \/ FullSocket \/ Delete

ListingSpec == ListingInit /\ [][ListingNext]_listing

-----------------------------------------------------------------------------
\* Properties.

\* What a pattern means: the name can be cut into as many pieces as the
\* pattern has characters, a star standing for any piece, a question mark for
\* any character and another character for itself.
Means(name, pat) ==
  \E cut \in [0..Len(pat) -> 0..Len(name)] :
    /\ cut[0] = 0 /\ cut[Len(pat)] = Len(name)
    /\ \A p \in 1..Len(pat) :
         IF pat[p] = Star THEN cut[p - 1] <= cut[p]
         ELSE cut[p] = cut[p - 1] + 1 /\ pat[p] \in {Question, name[cut[p]]}

\* lib/filelisterglob.hh:22, lib/dircontainer.cc:28, lib/iocontextlist.hh:56: a
\* listing gives nothing but entries that were asked for, each once and in the
\* order of the directory. It passes over none that stays, and one that has
\* ended gave all that stay, unless the directory could not be read to its end.
\* A page of HTTP begins with its header, and ends with its footer. Lines that
\* a full socket dropped or tore are excepted.
ListsAll ==
  LET wanted == {i \in DOMAIN asked : /\ asked[i].name \notin Dots
                                     /\ Means(asked[i].name, pattern)}
      lines == {i \in DOMAIN out : out[i].part = "entry"}
      Told(k) == \E i \in lines : out[i].path = asked[k].path
      Excused(k) == \/ asked[k].path \in gone
                    \/ \E line \in lost : line.path = asked[k].path
  IN  /\ \A i \in lines : \E k \in wanted : out[i].path = asked[k].path
      /\ \A i, j \in lines, k, l \in wanted :
           out[i].path = asked[k].path /\ out[j].path = asked[l].path =>
             (i < j <=> k < l)
      /\ \A k \in wanted :
           \/ Told(k) \/ Excused(k)
           \/ \A l \in wanted : Told(l) => l < k
      /\ done /\ stream # "failed" =>
           \A k \in wanted : Told(k) \/ Excused(k)
      /\ kind = "http" =>
           /\ \A i \in DOMAIN out : out[i] = Around("head") => i = 1
           /\ out # <<>> => out[1] = Around("head") \/ Around("head") \in lost
           /\ done => \/ Around("foot") \in lost
                      \/ out # <<>> /\ Last(out) = Around("foot")

\* src/httplist.cc:52, src/ftpmlstprinter.hh:40: the link or the path of a
\* line, sent back in a request, names the entry it was written for, wherever
\* the session is: the quoting of names, the parsing of URIs and the parsing
\* of paths agree.
LinksLead ==
  \A i \in DOMAIN out :
    LET line == out[i]
        http == <<104, 116, 116, 112>>
    IN  line.part = "entry" =>
          /\ kind = "mlsd" =>
               \A cwd \in DOMAIN Dirs : ChdirText(cwd, line.text) = line.path
          /\ kind = "http" =>
               /\ Parse(line.text) = URI(<<>>, <<>>, line.path)
               /\ Parse(http \o <<Colon, Slash, Slash, 104>> \o line.text) =
                    URI(http, <<104>>, line.path)
=============================================================================
