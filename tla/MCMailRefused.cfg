SPECIFICATION MailSpec
CONSTANTS
    Mailboxes = {"INBOX", "label"}
    Inbox = "INBOX"
    MaxMail = 2
    MaxFaults = 0
INVARIANTS
    EveryBellGetsARun
CHECK_DEADLOCK FALSE
