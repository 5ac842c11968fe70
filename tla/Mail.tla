--------------------------------- MODULE Mail ---------------------------------
(***************************************************************************)
(* Mailing the pictures (control_plane/auth/smtp_sender.c): smtp.conf is   *)
(* loaded, the pictures that exist are split into batches, each batch is a *)
(* mail tried up to three times, and what was sent is archived or deleted. *)
(* The header names the alert manager as the caller; nothing in the source *)
(* calls send_snapshots, so the caller is modelled as anyone who has the   *)
(* pictures' paths.  The directory is shared: others add pictures to it.   *)
(*                                                                         *)
(* The constants stand for 4 recipients, 256 pictures, 64 batches and 3    *)
(* attempts.  A mail server may accept a mail and the answer may be lost.  *)
(* Bounds: MaxJobs calls.                                                  *)
(***************************************************************************)
EXTENDS Integers, SequencesExt

CONSTANTS SmtpConfs,            \* the files an administrator writes
          Modes,                \* arguments a caller gives: dry (a dry run), keep (archive or delete)
          SizeOf(_),            \* the size of a picture
          MaxRecipients, MaxSnapshots, MaxBatches, MaxRetries, MaxJobs

VARIABLES
  pictures,   \* the directory
  archive,    \* pictures in sent_archive
  cfg,        \* what load_config made of the file
  job,        \* the call of send_snapshots that runs
  letters,    \* mails that reached the recipients
  jobs,       \* calls so far
  result      \* what the last call returned

\* ------------------------------------------------------------------ load_config
Key(file, key, default) == IF key \in DOMAIN file THEN file[key] ELSE default

Parsed(file) ==
  [host |-> Key(file, "host", "smtp.gmail.com"), username |-> Key(file, "username", ""),
   password |-> Key(file, "password", ""),
   mail_from |-> Key(file, "mail_from", Key(file, "username", "")),
   recipients |-> SubSeq(Key(file, "recipients", <<>>), 1,
                         Min({MaxRecipients, Len(Key(file, "recipients", <<>>))})),
   archived |-> Key(file, "sent_archive", "") # "",
   max_attach_bytes |-> Key(file, "max_attach_bytes", 25), max_per_email |-> Key(file, "max_per_email", 10)]

Usable(c) == c.host # "" /\ c.username # "" /\ c.password # "" /\ c.recipients # <<>>

\* ---------------------------------------------------------------- chunk_by_size
Full(c, batch, picture) ==
  LET size == FoldLeft(LAMBDA sum, p : sum + SizeOf(p), 0, batch)
  IN batch # <<>> /\ (size + SizeOf(picture) > c.max_attach_bytes \/ Len(batch) >= c.max_per_email)

\* A batch is closed before a picture that would make it too large.  There is no room
\* for more than MaxBatches; later ones are left out.
ChunkBySize(c, paths) ==
  LET Add(acc, p) ==
        IF Full(c, acc.cur, p) THEN [done |-> Append(acc.done, acc.cur), cur |-> <<p>>]
        ELSE [acc EXCEPT !.cur = Append(@, p)]
      all == FoldLeft(Add, [done |-> <<>>, cur |-> <<>>], paths)
  IN SubSeq(all.done \o <<all.cur>>, 1, Min({MaxBatches, Len(all.done) + 1}))

\* ---------------------------------------------------------------- send_snapshots
NoJob == [batches |-> <<>>, at |-> 0, tries |-> 0, sent |-> {}, ok |-> TRUE, total |-> 0,
          dry |-> FALSE, keep |-> FALSE]

Running == job.at # 0

Valid(paths) ==
  LET found == SelectSeq(paths, LAMBDA p : p \in pictures)
  IN SubSeq(found, 1, Min({MaxSnapshots, Len(found)}))

SendSnapshots(paths, dry, keep) ==
  /\ ~Running /\ jobs < MaxJobs /\ Usable(cfg)
  /\ jobs' = jobs + 1
  /\ LET valid == Valid(paths)
     IN IF valid = <<>> THEN result' = "false" /\ job' = job
        ELSE /\ job' = [NoJob EXCEPT !.batches = ChunkBySize(cfg, valid), !.at = 1,
                                     !.total = Len(valid), !.dry = dry, !.keep = keep]
             /\ result' = ""
  /\ UNCHANGED <<pictures, archive, cfg, letters>>

Batch == job.batches[job.at]
Sending == Running /\ job.at <= Len(job.batches)

\* Subject and body say which part of how many this is.
Letter == [images |-> Batch, part |-> job.at, of |-> Len(job.batches), total |-> job.total]

Advance(sent, ok) == [job EXCEPT !.at = @ + 1, !.tries = 0, !.sent = @ \cup sent, !.ok = @ /\ ok]

\* A sender that takes every batch for sent.
NextBatchAnyway(ok) == Advance(ToSet(Batch), ok)

NextBatch(ok) == IF ok THEN Advance(ToSet(Batch), TRUE) ELSE Advance({}, FALSE)

\* A mail is a set of pictures under the subject of its part.
MailAccepted ==
  /\ Sending
  /\ letters' = IF job.dry THEN letters ELSE letters \cup {Letter}
  /\ job' = NextBatch(TRUE)
  /\ UNCHANGED <<pictures, archive, cfg, jobs, result>>

\* The attempt fails; the mail may have arrived all the same.
AttemptFails(arrived) ==
  /\ Sending /\ ~job.dry
  /\ letters' = IF arrived THEN letters \cup {Letter} ELSE letters
  /\ job' = IF job.tries + 1 < MaxRetries THEN [job EXCEPT !.tries = @ + 1] ELSE NextBatch(FALSE)
  /\ UNCHANGED <<pictures, archive, cfg, jobs, result>>

\* Login denied, or no curl handle: no further attempt.
SendingRefused ==
  /\ Sending /\ ~job.dry
  /\ job' = NextBatch(FALSE)
  /\ UNCHANGED <<pictures, archive, cfg, letters, jobs, result>>

\* ------------------------------------------------------------- archive_or_delete
\* Each file may resist; a name that is taken in the archive gets the time added.
ArchiveOrDelete(sent) ==
  \E stay \in SUBSET sent :
    /\ pictures' = pictures \ (sent \ stay)
    /\ archive' = IF cfg.archived THEN archive \cup (sent \ stay) ELSE archive

Finish ==
  /\ Running /\ job.at > Len(job.batches)
  /\ IF job.keep /\ job.sent # {} /\ ~job.dry
     THEN ArchiveOrDelete(job.sent)
     ELSE UNCHANGED <<pictures, archive>>
  /\ result' = IF job.ok THEN "true" ELSE "false"
  /\ job' = NoJob
  /\ UNCHANGED <<cfg, letters, jobs>>

\* The caller's process dies in the middle.
Dies ==
  /\ Running
  /\ job' = NoJob
  /\ UNCHANGED <<pictures, archive, cfg, letters, jobs, result>>

Init ==
  /\ archive = {} /\ job = NoJob
  /\ \E file \in SmtpConfs : cfg = Parsed(file)
  /\ letters = {} /\ jobs = 0 /\ result = ""

Next(paths) ==
  \/ \E mode \in Modes : SendSnapshots(paths, mode.dry, mode.keep)
  \/ MailAccepted \/ SendingRefused
  \/ \E arrived \in BOOLEAN : AttemptFails(arrived)
  \/ Finish \/ Dies

\* Pictures that reached the recipients.
Delivered == UNION {ToSet(m.images) : m \in letters}

=============================================================================
