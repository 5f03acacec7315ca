SPECIFICATION MailSpec
CONSTANTS
    Mailboxes = {"INBOX", "label"}
    Inbox = "INBOX"
    MaxMail = 1
    MaxFaults = 1
PROPERTIES
    ScheduleIsTheBackstop
CHECK_DEADLOCK FALSE
