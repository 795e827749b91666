---------------------------- MODULE FeishuTools ----------------------------
(***************************************************************************)
(* feishu_adapter: the tools that act on Feishu, each the sequence of what *)
(* its handler does: checks of its arguments, and requests.                *)
(*                                                                         *)
(* Left out: what the requests say besides what they act on, the paging    *)
(* arguments, and the shape of the results, whose missing fields every     *)
(* handler fills from its arguments.                                       *)
(***************************************************************************)
EXTENDS FeishuApi

CONSTANT RootPages   \* bound: the pages of blocks before the root block, 20 in the code

ASSUME ToolsAssumption == RootPages \in Nat \ {0}

-----------------------------------------------------------------------------
Check(holds) == <<[is |-> "check", holds |-> holds]>>  \* ValueError unless it holds

UuidOr(token) == IF token = NoToken THEN Fresh ELSE token

\* feishu_bitable.
ParseUrl            == <<>>
CreateApp           == <<Make("app", NoToken)>>
GetApp              == <<Get("app")>>
ListTables          == <<List("table")>>
CreateTable         == <<Make("table", NoToken)>>
UpdateTable         == <<Edit("table")>>
DeleteTables        == <<Drop("table")>>
ListFields          == <<List("field")>>
CreateField         == <<Make("field", NoToken)>>
UpdateField(body)   == Check(body) \o <<Edit("field")>>
DeleteField         == <<Drop("field")>>
SearchRecords       == <<List("record")>>
BatchGetRecords     == <<Get("record")>>
CreateRecord        == <<Make("record", NoToken)>>
BatchCreateRecords  == <<Make("records", NoToken)>>
UpdateRecord        == <<Edit("record")>>
BatchUpdateRecords  == <<Edit("records")>>
DeleteRecords       == <<Drop("records")>>
ListViews           == <<List("view")>>
GetView             == <<Get("view")>>

Bitable ==
    {ParseUrl, CreateApp, GetApp, ListTables, CreateTable, UpdateTable, DeleteTables,
     ListFields, CreateField, DeleteField, SearchRecords, BatchGetRecords, CreateRecord,
     BatchCreateRecords, UpdateRecord, BatchUpdateRecords, DeleteRecords, ListViews,
     GetView} \cup {UpdateField(body) : body \in BOOLEAN}

\* feishu_im_group.
\* MUTANT: the uuid of the caller is not passed on.
SendTextAnew(receiver, token) == <<Make("message", Fresh)>>

SendText(receiver, token)     == <<Make("message", UuidOr(token))>>
SendTextToUser(token)         == SendText("user", token)
SendTextToChat(token)         == SendText("chat", token)
CreateGroup(token)            == <<Make("chat", token)>>

\* A failure leaves the group as far as it got.
CreateGroupWithMembers(token, members, welcome) ==
    CreateGroup(token)
        \o (IF members THEN <<Make("member", NoToken)>> ELSE <<>>)
        \o (IF welcome THEN <<Make("welcome", Fresh)>> ELSE <<>>)

\* MUTANT: what there is to change is checked afterwards.
UpdateGroupInfoFirst(body) == <<Edit("chat")>> \o Check(body)

GetGroup                == <<Get("chat")>>
UpdateGroupInfo(body)   == Check(body) \o <<Edit("chat")>>
DeleteGroup             == <<Drop("chat")>>
ListGroups              == <<List("chat")>>
SearchGroups            == <<List("chat")>>
AddGroupMembers(ids)    == Check(ids) \o <<Make("member", NoToken)>>
RemoveGroupMembers(ids) == Check(ids) \o <<Drop("member")>>
ListGroupMembers        == <<List("member")>>
IsInGroup               == <<Get("member")>>
AddGroupManagers(ids)   == Check(ids) \o <<Make("manager", NoToken)>>
DeleteGroupManagers(ids) == Check(ids) \o <<Drop("manager")>>  \* sent as a GET
CreateGroupShareLink    == <<Make("link", NoToken)>>

Groups ==
    {GetGroup, DeleteGroup, ListGroups, SearchGroups, ListGroupMembers, IsInGroup,
     CreateGroupShareLink}
    \cup UNION {{UpdateGroupInfo(given), AddGroupMembers(given), RemoveGroupMembers(given),
                 AddGroupManagers(given), DeleteGroupManagers(given)} : given \in BOOLEAN}

GroupsWith(token) ==
    {SendTextToUser(token), SendTextToChat(token), CreateGroup(token)}
    \cup {CreateGroupWithMembers(token, m, w) : m, w \in BOOLEAN}

\* feishu_im_message, and the two tools of feishu_message_tools, which return
\* a refusal as their result and announce it as a message that was sent.
ListMessages(container) == <<List(container)>>
GetMessage              == <<Get("message")>>
ListAnyMessages         == ListMessages("chat message")
ListChatMessages        == ListMessages("chat message")
ListThreadMessages      == ListMessages("thread message")

\* The thread of the message, or else the chat it is in.
GetMessageContext(thread_, chat) ==
    GetMessage \o IF thread_ THEN ListMessages("thread message")
                  ELSE Check(chat) \o ListMessages("chat message")

Reply(token)        == <<Make("message", token)>>
ReplyText(token)    == Reply(token)
ReplyMessage(token) == Reply(token)

BotSendText(token) == <<Try(Make("message", UuidOr(token)))>>
BotReplyText       == <<Try(Make("message", NoToken))>>

Messages ==
    {GetMessage, ListAnyMessages, ListChatMessages, ListThreadMessages, BotReplyText}
    \cup {GetMessageContext(t, c) : t, c \in BOOLEAN}

MessagesWith(token) == {ReplyText(token), ReplyMessage(token), BotSendText(token)}

\* feishu_docx.  The root is looked for page by page.
FindRoot(pages) == [i \in 1..pages |-> List("block")]

CreateDocument      == <<Make("document", NoToken)>>
GetDocument         == <<Get("document")>>
GetRawContent       == <<Get("document")>>
ListBlocks          == <<List("block")>>
GetBlock            == <<Get("block")>>
GetRootBlock(pages) == FindRoot(pages)
ListChildBlocks     == <<List("block")>>

\* MUTANT: one request for each paragraph.
CreateBlocksOneByOne(token) == <<Make("block", token), Make("block", NoToken)>>

CreateBlocks(token)      == <<Make("block", token)>>
CreateTextBlocks(token)  == CreateBlocks(token)
AppendText(pages, token) == FindRoot(pages) \o CreateBlocks(token)
UpdateBlock              == <<Edit("block")>>
UpdateTextBlock          == <<Edit("block")>>
BatchUpdateBlocks        == <<Edit("blocks")>>
DeleteChildBlocks        == <<Drop("block")>>  \* by position, its token left out

Documents ==
    {CreateDocument, GetDocument, GetRawContent, ListBlocks, GetBlock, ListChildBlocks,
     UpdateBlock, UpdateTextBlock, BatchUpdateBlocks, DeleteChildBlocks}
    \cup {GetRootBlock(n) : n \in 1..RootPages}

DocumentsWith(token) ==
    {CreateTextBlocks(token)} \cup {AppendText(n, token) : n \in 1..RootPages}

\* feishu_wiki and feishu_drive.  What takes Feishu longer is a task, which
\* the caller has to ask about.
ListSpaces           == <<List("space")>>
GetSpace             == <<Get("space")>>
ListNodes            == <<List("node")>>
GetNode              == <<Get("node")>>
CreateNode(origin)   == Check(origin) \o <<Make("node", NoToken)>>
MoveNode(target)     == Check(target) \o <<Edit("node")>>
CopyNode(target)     == Check(target) \o <<Make("node", NoToken)>>
UpdateNodeTitle      == <<Edit("node")>>
MoveDriveDocToWiki   == <<Make("task", NoToken)>>
GetTask              == <<Get("task")>>
ListFolder           == <<List("file")>>
GetFolderMeta        == <<Get("folder")>>
CreateFolder         == <<Make("folder", NoToken)>>
TaskCheck            == <<Get("task")>>

\* A move needs a target, and there are these two actions only.
MoveOrDeleteFolder(action, target) ==
    Check(action = "move" => target) \o Check(action \in {"move", "delete"})
        \o <<Make("task", NoToken)>>

WikiAndDrive ==
    {ListSpaces, GetSpace, ListNodes, GetNode, UpdateNodeTitle, MoveDriveDocToWiki, GetTask,
     ListFolder, GetFolderMeta, CreateFolder, TaskCheck}
    \cup (UNION {{CreateNode(given), MoveNode(given), CopyNode(given)} : given \in BOOLEAN})
    \cup {MoveOrDeleteFolder(a, t) : a \in {"move", "delete", "other"}, t \in BOOLEAN}

\* feishu_contact, but for the search of a department tree.
GetUser               == <<Get("user")>>
BatchGetUserId(given) == Check(given) \o <<Get("user")>>
GetDepartment         == <<Get("department")>>
ListChildDepartments  == <<List("department")>>
ListParentDepartments == <<List("department")>>
ListUsersByDepartment == <<List("user")>>

Contacts ==
    {GetUser, GetDepartment, ListChildDepartments, ListParentDepartments,
     ListUsersByDepartment} \cup {BatchGetUserId(given) : given \in BOOLEAN}

=============================================================================
